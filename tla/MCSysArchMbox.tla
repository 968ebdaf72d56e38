---------------------------- MODULE MCSysArchMbox ----------------------------
(* Instances of SysArchMbox for TLC: which task makes which mailbox call. *)
EXTENDS SysArchMbox

CONSTANTS p1, p2, f1, f2, isr

\* Only blocking sys_mbox_post against fetch and tryfetch.
OpsBlocking == (p1 :> {"post"} @@ p2 :> {"post"} @@
                f1 :> {"fetch"} @@ f2 :> {"tryfetch"})

\* Ethernet receive interrupt posting to the tcpip thread's mailbox.
OpsIsr == (isr :> {"isr_trypost"} @@ f1 :> {"fetch"})

\* tcpip_callback (blocking) and tcpip_input (trypost) on one mailbox.
OpsMixed == (p1 :> {"post"} @@ p2 :> {"trypost"} @@ f1 :> {"fetch"})

\* Every call of the mailbox, from tasks and an interrupt handler.
OpsAll == (p1 :> {"post"} @@ p2 :> {"trypost"} @@ isr :> {"isr_trypost"} @@
           f1 :> {"fetch", "tryfetch"})
=============================================================================
