----------------------------- MODULE MailboxSpec -----------------------------
(***************************************************************************)
(* What the lwIP mailbox promises its callers (spec section 4.4): a bounded *)
(* FIFO of at most Cap messages.  A message enters the box at most once,   *)
(* either at its tail or, when the box is empty, straight into the hands   *)
(* of a waiting fetcher; messages leave only from the head.  A post may    *)
(* report success only for a message that has entered, and may report      *)
(* "full" only for a message that never enters.                           *)
(***************************************************************************)
EXTENDS Naturals, Sequences

CONSTANTS Cap,   \* capacity fixed at sys_mbox_new
          Msgs   \* the messages any caller may post

VARIABLES box,       \* messages buffered, oldest first
          put,       \* every message that ever entered the mailbox
          accepted,  \* messages whose post reported success
          refused    \* messages whose post reported ERR_MEM

vars == <<box, put, accepted, refused>>

Init ==
  /\ box = <<>>
  /\ put = {}
  /\ accepted = {}
  /\ refused = {}

\* m enters, appended to the box or handed over while the box is empty
Enter(m) ==
  /\ m \notin put \cup refused
  /\ put' = put \cup {m}
  /\ \/ Len(box) < Cap /\ box' = Append(box, m)
     \/ box = <<>> /\ box' = box

\* A post that enters m may report success in the same step.
EnterAndMaybeAccept(m) ==
  /\ Enter(m)
  /\ accepted' \in {accepted, accepted \cup {m}}
  /\ UNCHANGED refused

Get ==
  /\ box # <<>>
  /\ box' = Tail(box)
  /\ UNCHANGED <<put, accepted, refused>>

Accept(m) ==
  /\ m \in put \ accepted
  /\ accepted' = accepted \cup {m}
  /\ UNCHANGED <<box, put, refused>>

Refuse(m) ==
  /\ m \notin put \cup accepted \cup refused
  /\ refused' = refused \cup {m}
  /\ UNCHANGED <<box, put, accepted>>

Next ==
  \/ \E m \in Msgs : EnterAndMaybeAccept(m) \/ Accept(m) \/ Refuse(m)
  \/ Get

Spec == Init /\ [][Next]_vars

=============================================================================
