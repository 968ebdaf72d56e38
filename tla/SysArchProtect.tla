---------------------------- MODULE SysArchProtect ----------------------------
(***************************************************************************)
(* lwIP's critical-section guard in src/Lwip-2.1.2/arch/sys_arch.c:        *)
(* sys_init creates the global OS_MUTEX LwIP_Mutex_Arch, and               *)
(* sys_arch_protect / sys_arch_unprotect pend and post it.  sys_mutex_lock *)
(* and sys_mutex_unlock make the same kernel calls on another OS_MUTEX.    *)
(*                                                                         *)
(* uC/OS-III mutex semantics used (os_mutex.c, not in this repository):    *)
(*  OSMutexPend  from an ISR: OS_ERR_PEND_ISR, nothing changes;            *)
(*               free: the caller owns it with nesting 1;                  *)
(*               owned by the caller: nesting + 1, OS_ERR_MUTEX_OWNER;     *)
(*               owned by another task: the caller blocks (timeout 0).     *)
(*  OSMutexPost  from an ISR: OS_ERR_POST_ISR, nothing changes;            *)
(*               nesting - 1; above 0: OS_ERR_MUTEX_NESTING, still owned;  *)
(*               at 0: ownership passes to one pending task, or the mutex  *)
(*               becomes free.                                             *)
(* The LWIP_ASSERT after each call only reports, so every caller carries   *)
(* on into its critical section whatever the kernel returned.  An          *)
(* interrupt handler runs to completion: no task runs while it is active.  *)
(***************************************************************************)
EXTENDS Naturals

CONSTANTS Tasks,     \* tasks calling sys_arch_protect
          Isrs,      \* interrupt handlers calling it (e.g. a pbuf free)
          MaxDepth,  \* bound on how deeply one caller nests the guard
          NoOwner    \* the mutex's OwnerTCBPtr when it is free

Actors == Tasks \cup Isrs
NoIsr == NoOwner

ASSUME /\ Tasks \cap Isrs = {}
       /\ NoOwner \notin Actors
       /\ MaxDepth \in Nat \ {0}

VARIABLES
  created,   \* sys_init has created LwIP_Mutex_Arch
  owner,     \* OwnerTCBPtr of the mutex
  nest,      \* OwnerNestingCtr of the mutex
  waiting,   \* tasks pending on the mutex
  depth,     \* protects each caller has entered and not yet left
  isr        \* the interrupt handler running, or NoIsr

vars == <<created, owner, nest, waiting, depth, isr>>

TypeOK ==
  /\ created \in BOOLEAN
  /\ owner \in Tasks \cup {NoOwner}
  /\ nest \in 0..MaxDepth
  /\ waiting \subseteq Tasks
  /\ depth \in [Actors -> 0..MaxDepth]
  /\ isr \in Isrs \cup {NoIsr}

\* A caller is inside the critical section once its sys_arch_protect has
\* returned and until its matching sys_arch_unprotect.
InCS(a) == depth[a] > 0 /\ a \notin waiting

Init ==
  /\ created = FALSE
  /\ owner = NoOwner
  /\ nest = 0
  /\ waiting = {}
  /\ depth = [a \in Actors |-> 0]
  /\ isr = NoIsr

-----------------------------------------------------------------------------
(* Mutations: plausible bugs in the calls below.                           *)

\* Unprotect releasing the mutex at every level, ignoring nesting.
UnprotectFlat(t) ==
  /\ created /\ isr = NoIsr
  /\ InCS(t)
  /\ depth' = [depth EXCEPT ![t] = @ - 1]
  /\ \/ /\ waiting = {}
        /\ owner' = NoOwner /\ nest' = 0
        /\ UNCHANGED waiting
     \/ \E w \in waiting :
          /\ owner' = w /\ nest' = 1
          /\ waiting' = waiting \ {w}
  /\ UNCHANGED <<created, isr>>

\* OSMutexPend from an interrupt handler taking the mutex as if the handler
\* were a task (the kernel's ISR check compiled out).
IsrProtectTakes(i) ==
  /\ created
  /\ isr = NoIsr
  /\ isr' = i
  /\ depth' = [depth EXCEPT ![i] = 1]
  /\ owner = NoOwner
  /\ owner' = i /\ nest' = 1
  /\ UNCHANGED <<created, waiting>>

-----------------------------------------------------------------------------

\* sys_init: OSMutexCreate(&LwIP_Mutex_Arch).  The following LWIP_ASSERT
\* tests err != OS_ERR_NONE and so reports on every successful creation.
SysInit ==
  /\ ~created
  /\ created' = TRUE
  /\ UNCHANGED <<owner, nest, waiting, depth, isr>>

\* sys_arch_protect (and sys_mutex_lock) from a task: blocking OSMutexPend.
Protect(t) ==
  /\ created /\ isr = NoIsr
  /\ t \notin waiting
  /\ depth[t] < MaxDepth
  /\ depth' = [depth EXCEPT ![t] = @ + 1]
  /\ \/ /\ owner = NoOwner
        /\ owner' = t /\ nest' = 1
        /\ UNCHANGED waiting
     \/ /\ owner = t
        /\ nest' = nest + 1
        /\ UNCHANGED <<owner, waiting>>
     \/ /\ owner \notin {NoOwner, t}
        /\ waiting' = waiting \cup {t}
        /\ UNCHANGED <<owner, nest>>
  /\ UNCHANGED <<created, isr>>

\* sys_arch_unprotect (and sys_mutex_unlock) from a task: OSMutexPost.
\* A task inside the section always owns the mutex, so the kernel's
\* OS_ERR_MUTEX_NOT_OWNER path is not reachable from here.
Unprotect(t) ==
  /\ created /\ isr = NoIsr
  /\ InCS(t)
  /\ depth' = [depth EXCEPT ![t] = @ - 1]
  /\ \/ /\ nest > 1
        /\ nest' = nest - 1
        /\ UNCHANGED <<owner, waiting>>
     \/ /\ nest = 1 /\ waiting = {}
        /\ owner' = NoOwner /\ nest' = 0
        /\ UNCHANGED waiting
     \/ /\ nest = 1
        /\ \E w \in waiting :
             /\ owner' = w /\ nest' = 1
             /\ waiting' = waiting \ {w}
  /\ UNCHANGED <<created, isr>>

\* sys_arch_protect from an interrupt handler, which may preempt a task
\* anywhere, inside its critical section included: OSMutexPend returns
\* OS_ERR_PEND_ISR and the handler goes on into the critical section.
IsrProtect(i) ==
  /\ created
  /\ isr = NoIsr
  /\ isr' = i
  /\ depth' = [depth EXCEPT ![i] = 1]
  /\ UNCHANGED <<created, owner, nest, waiting>>

\* sys_arch_unprotect from that handler: OSMutexPost returns
\* OS_ERR_POST_ISR; the handler then returns from the interrupt.
IsrUnprotect(i) ==
  /\ isr = i
  /\ isr' = NoIsr
  /\ depth' = [depth EXCEPT ![i] = 0]
  /\ UNCHANGED <<created, owner, nest, waiting>>

Next ==
  \/ SysInit
  \/ \E t \in Tasks : Protect(t) \/ Unprotect(t)
  \/ \E i \in Isrs : IsrProtect(i) \/ IsrUnprotect(i)

Spec == Init /\ [][Next]_vars

-----------------------------------------------------------------------------
(* Properties.                                                             *)

\* The mutex records exactly who is inside: a task owns LwIP_Mutex_Arch
\* if and only if it is between a protect that returned and the matching
\* unprotect, and its nesting counter equals that task's nesting depth, so
\* the outermost sys_arch_unprotect, and only it, releases the guard.
OwnerMatchesNesting ==
  /\ \A t \in Tasks : owner = t <=> InCS(t)
  /\ owner # NoOwner => nest = depth[owner]

=============================================================================
