----------------------------- MODULE SysArchMbox -----------------------------
(***************************************************************************)
(* The lwIP mailbox of src/Lwip-2.1.2/arch/sys_arch.c on uC/OS-III.        *)
(* A sys_mbox_t is two kernel objects: msg_sem, a counting semaphore       *)
(* seeded with the capacity (free slots), and msg_queen, an OS queue of    *)
(* depth Cap holding the message pointers.  Every call is a short          *)
(* sequence of kernel calls; each kernel call is atomic (uC/OS-III runs    *)
(* it in a critical section) but a task may be preempted between two of    *)
(* them.  An interrupt handler runs sys_mbox_trypost_fromisr to            *)
(* completion, so its two kernel calls form one step.                      *)
(*                                                                         *)
(* Kernel semantics used (uC/OS-III, not part of this repository):         *)
(*  OSSemPend    count > 0: decrement; else block (or fail if NON_BLOCKING)*)
(*  OSSemPost    ready one pending task if any, else increment             *)
(*  OSQPost      hand the message to a pending task if any, else append;   *)
(*               OS_ERR_Q_MAX when the queue holds Cap messages            *)
(*  OSQPend      remove the head, else block (or fail if NON_BLOCKING);    *)
(*               a finite timeout may expire while blocked                 *)
(* Which pending task is readied depends on priorities; the model lets it  *)
(* be any of them.                                                         *)
(*                                                                         *)
(* The assertion macros only report (sys_arch_sem_wait asserts on every    *)
(* ordinary timeout, so a halting LWIP_ASSERT would stop the stack): code  *)
(* after a failed LWIP_ASSERT keeps running and is modelled as such.       *)
(***************************************************************************)
EXTENDS Naturals, Sequences, FiniteSets, SequencesExt

CONSTANTS Tasks,    \* tasks and interrupt handlers using one mailbox
          Ops,      \* Ops[t]: the mailbox calls t makes
          Cap,      \* the size passed to sys_mbox_new
          MaxMsgs   \* bound on the number of messages posted

ASSUME /\ Cap \in Nat \ {0}
       /\ MaxMsgs \in Nat
       /\ Ops \in [Tasks -> SUBSET {"post", "trypost", "isr_trypost",
                                     "fetch", "tryfetch"}]

Msgs == 1..MaxMsgs
NoMsg == 0          \* the NULL message pointer

VARIABLES
  sem,       \* count of msg_sem
  semWait,   \* tasks pending on msg_sem
  q,         \* contents of msg_queen, oldest first
  qWait,     \* tasks pending on msg_queen
  pc,        \* where each task is inside a mailbox call
  hold,      \* the message a task is posting or has fetched
  nextMsg,   \* the next fresh message (history)
  accepted,  \* messages whose post returned success (history)
  refused,   \* messages whose trypost returned ERR_MEM (history)
  got        \* messages a fetch returned to its caller (history)

vars == <<sem, semWait, q, qWait, pc, hold, nextMsg, accepted, refused, got>>

PcStates == {"idle", "post_wait", "post_q", "trypost_sem",
             "fetch_wait", "fetch_wait_timed", "fetch_sem", "tryfetch_sem"}

\* Every message that has reached msg_queen or a fetcher.
Fetching == {t \in Tasks : pc[t] \in {"fetch_sem", "tryfetch_sem"}}
Entered == ToSet(q) \cup {hold[t] : t \in Fetching} \cup got

TypeOK ==
  /\ sem \in Nat
  /\ semWait \subseteq Tasks
  /\ q \in Seq(Msgs) /\ Len(q) <= Cap
  /\ qWait \subseteq Tasks
  /\ pc \in [Tasks -> PcStates]
  /\ hold \in [Tasks -> Msgs \cup {NoMsg}]
  /\ nextMsg \in 1..MaxMsgs + 1
  /\ accepted \cup refused \cup got \subseteq Msgs

\* sys_mbox_new: msg_queen empty, msg_sem seeded with the size.
Init ==
  /\ sem = Cap
  /\ semWait = {}
  /\ q = <<>>
  /\ qWait = {}
  /\ pc = [t \in Tasks |-> "idle"]
  /\ hold = [t \in Tasks |-> NoMsg]
  /\ nextMsg = 1
  /\ accepted = {}
  /\ refused = {}
  /\ got = {}

-----------------------------------------------------------------------------
(* Mutations: plausible bugs in the calls below, each an operator with the *)
(* parameters of the definition it replaces.  Every property a passing run *)
(* checks is broken by one of them.                                        *)

\* The queue posted with OS_OPT_POST_LIFO instead of OS_OPT_POST_FIFO.
QPostOkLifo(t, m, tpc, th) ==
  \/ \E w \in qWait :
       /\ qWait' = qWait \ {w}
       /\ pc' = [pc EXCEPT ![t] = tpc, ![w] = "fetch_sem"]
       /\ hold' = [hold EXCEPT ![t] = th, ![w] = m]
       /\ UNCHANGED q
  \/ /\ qWait = {}
     /\ Len(q) < Cap
     /\ q' = <<m>> \o q
     /\ pc' = [pc EXCEPT ![t] = tpc]
     /\ hold' = [hold EXCEPT ![t] = th]
     /\ UNCHANGED qWait

\* OSSemPost that counts the slot even when it readies a waiter.
SemPostDoubleCount(t) ==
  \/ \E w \in semWait :
       /\ semWait' = semWait \ {w}
       /\ pc' = [pc EXCEPT ![t] = "idle", ![w] = "post_q"]
       /\ sem' = sem + 1
  \/ /\ semWait = {}
     /\ sem' = sem + 1
     /\ pc' = [pc EXCEPT ![t] = "idle"]
     /\ UNCHANGED semWait

\* OSSemPost that never readies a pending poster (a lost wake-up).
SemPostNoWake(t) ==
  /\ sem' = sem + 1
  /\ pc' = [pc EXCEPT ![t] = "idle"]
  /\ UNCHANGED semWait

\* A successful non-blocking OSSemPend that does not take the unit.
SemTryTakeNoTake(m) ==
  \/ /\ sem > 0
     /\ accepted' = accepted \cup {m}
     /\ UNCHANGED <<sem, refused>>
  \/ /\ sem = 0
     /\ refused' = refused \cup {m}
     /\ UNCHANGED <<sem, accepted>>

\* sys_mbox_post taking msg_sem without waiting for a free slot.
PostNoBlock(t) ==
  /\ pc[t] = "idle"
  /\ "post" \in Ops[t]
  /\ nextMsg <= MaxMsgs
  /\ hold' = [hold EXCEPT ![t] = nextMsg]
  /\ nextMsg' = nextMsg + 1
  /\ sem' = sem - 1
  /\ pc' = [pc EXCEPT ![t] = "post_q"]
  /\ UNCHANGED <<semWait, q, qWait, accepted, refused, got>>

\* sys_arch_mbox_tryfetch returning SYS_MBOX_EMPTY after it dequeued.
TryFetchDropping(t) ==
  /\ pc[t] = "idle"
  /\ "tryfetch" \in Ops[t]
  /\ q # <<>>
  /\ q' = Tail(q)
  /\ UNCHANGED <<sem, semWait, qWait, pc, hold, nextMsg, accepted, refused, got>>

-----------------------------------------------------------------------------
(* Kernel calls, as the mailbox functions use them.                        *)

\* OSQPost(msg_queen, m, OS_OPT_POST_FIFO) by t succeeds; t moves to tpc
\* holding th.
QPostOk(t, m, tpc, th) ==
  \/ \E w \in qWait :
       /\ qWait' = qWait \ {w}
       /\ pc' = [pc EXCEPT ![t] = tpc, ![w] = "fetch_sem"]
       /\ hold' = [hold EXCEPT ![t] = th, ![w] = m]
       /\ UNCHANGED q
  \/ /\ qWait = {}
     /\ Len(q) < Cap
     /\ q' = Append(q, m)
     /\ pc' = [pc EXCEPT ![t] = tpc]
     /\ hold' = [hold EXCEPT ![t] = th]
     /\ UNCHANGED qWait

\* OSQPost returns OS_ERR_Q_MAX.
QFull == qWait = {} /\ Len(q) = Cap

\* OSSemPost(msg_sem, OS_OPT_POST_1) by t, which then returns.
SemPost(t) ==
  \/ \E w \in semWait :
       /\ semWait' = semWait \ {w}
       /\ pc' = [pc EXCEPT ![t] = "idle", ![w] = "post_q"]
       /\ UNCHANGED sem
  \/ /\ semWait = {}
     /\ sem' = sem + 1
     /\ pc' = [pc EXCEPT ![t] = "idle"]
     /\ UNCHANGED semWait

\* OSSemPend(msg_sem, 0, OS_OPT_PEND_NON_BLOCKING) after m was queued:
\* success returns ERR_OK, failure returns ERR_MEM.
SemTryTake(m) ==
  \/ /\ sem > 0
     /\ sem' = sem - 1
     /\ accepted' = accepted \cup {m}
     /\ UNCHANGED refused
  \/ /\ sem = 0
     /\ refused' = refused \cup {m}
     /\ UNCHANGED <<sem, accepted>>

-----------------------------------------------------------------------------
(* The mailbox functions.                                                  *)

\* sys_mbox_post, first half: block on msg_sem for a free slot.
Post(t) ==
  /\ pc[t] = "idle"
  /\ "post" \in Ops[t]
  /\ nextMsg <= MaxMsgs
  /\ hold' = [hold EXCEPT ![t] = nextMsg]
  /\ nextMsg' = nextMsg + 1
  /\ \/ /\ sem > 0
        /\ sem' = sem - 1
        /\ pc' = [pc EXCEPT ![t] = "post_q"]
        /\ UNCHANGED semWait
     \/ /\ sem = 0
        /\ semWait' = semWait \cup {t}
        /\ pc' = [pc EXCEPT ![t] = "post_wait"]
        /\ UNCHANGED sem
  /\ UNCHANGED <<q, qWait, accepted, refused, got>>

\* sys_mbox_post, second half: OSQPost; the function returns void, so its
\* caller counts the message as posted even when OSQPost failed.
PostEnqueue(t) ==
  /\ pc[t] = "post_q"
  /\ accepted' = accepted \cup {hold[t]}
  /\ \/ QPostOk(t, hold[t], "idle", NoMsg)
     \/ /\ QFull
        /\ pc' = [pc EXCEPT ![t] = "idle"]
        /\ hold' = [hold EXCEPT ![t] = NoMsg]
        /\ UNCHANGED <<q, qWait>>
  /\ UNCHANGED <<sem, semWait, nextMsg, refused, got>>

\* sys_mbox_trypost from a task, first half: OSQPost.
TryPost(t) ==
  /\ pc[t] = "idle"
  /\ "trypost" \in Ops[t]
  /\ nextMsg <= MaxMsgs
  /\ nextMsg' = nextMsg + 1
  /\ \/ QPostOk(t, nextMsg, "trypost_sem", nextMsg) /\ UNCHANGED refused
     \/ /\ QFull
        /\ refused' = refused \cup {nextMsg}
        /\ UNCHANGED <<pc, hold, q, qWait>>
  /\ UNCHANGED <<sem, semWait, accepted, got>>

\* sys_mbox_trypost from a task, second half: non-blocking OSSemPend.
TryPostPend(t) ==
  /\ pc[t] = "trypost_sem"
  /\ SemTryTake(hold[t])
  /\ pc' = [pc EXCEPT ![t] = "idle"]
  /\ hold' = [hold EXCEPT ![t] = NoMsg]
  /\ UNCHANGED <<semWait, q, qWait, nextMsg, got>>

\* sys_mbox_trypost_fromisr, run to completion by an interrupt handler.
TryPostFromISR(t) ==
  /\ "isr_trypost" \in Ops[t]
  /\ nextMsg <= MaxMsgs
  /\ nextMsg' = nextMsg + 1
  /\ \/ QPostOk(t, nextMsg, "idle", NoMsg) /\ SemTryTake(nextMsg)
     \/ /\ QFull
        /\ refused' = refused \cup {nextMsg}
        /\ UNCHANGED <<pc, hold, q, qWait, sem, accepted>>
  /\ UNCHANGED <<semWait, got>>

\* sys_arch_mbox_fetch, first half: blocking OSQPend, with a finite
\* timeout or none (timeout 0 waits forever).
Fetch(t) ==
  /\ pc[t] = "idle"
  /\ "fetch" \in Ops[t]
  /\ \/ /\ q # <<>>
        /\ hold' = [hold EXCEPT ![t] = Head(q)]
        /\ q' = Tail(q)
        /\ pc' = [pc EXCEPT ![t] = "fetch_sem"]
        /\ UNCHANGED qWait
     \/ /\ q = <<>>
        /\ qWait' = qWait \cup {t}
        /\ \E w \in {"fetch_wait", "fetch_wait_timed"} :
             pc' = [pc EXCEPT ![t] = w]
        /\ UNCHANGED <<q, hold>>
  /\ UNCHANGED <<sem, semWait, nextMsg, accepted, refused, got>>

\* sys_arch_mbox_fetch: the timeout expires; returns SYS_ARCH_TIMEOUT.
FetchTimeout(t) ==
  /\ pc[t] = "fetch_wait_timed"
  /\ qWait' = qWait \ {t}
  /\ pc' = [pc EXCEPT ![t] = "idle"]
  /\ UNCHANGED <<sem, semWait, q, hold, nextMsg, accepted, refused, got>>

\* A fetch that dequeued hold[t] frees the slot with OSSemPost and
\* returns the message.
Release(t) ==
  /\ SemPost(t)
  /\ got' = got \cup {hold[t]}
  /\ hold' = [hold EXCEPT ![t] = NoMsg]
  /\ UNCHANGED <<q, qWait, nextMsg, accepted, refused>>

\* sys_arch_mbox_fetch, second half.
FetchRelease(t) == pc[t] = "fetch_sem" /\ Release(t)

\* sys_arch_mbox_tryfetch, first half: non-blocking OSQPend; an empty
\* queue returns SYS_MBOX_EMPTY and changes nothing.
TryFetch(t) ==
  /\ pc[t] = "idle"
  /\ "tryfetch" \in Ops[t]
  /\ \/ /\ q # <<>>
        /\ hold' = [hold EXCEPT ![t] = Head(q)]
        /\ q' = Tail(q)
        /\ pc' = [pc EXCEPT ![t] = "tryfetch_sem"]
     \/ /\ q = <<>>
        /\ UNCHANGED <<q, hold, pc>>
  /\ UNCHANGED <<sem, semWait, qWait, nextMsg, accepted, refused, got>>

\* sys_arch_mbox_tryfetch, second half.
TryFetchRelease(t) == pc[t] = "tryfetch_sem" /\ Release(t)

Next ==
  \E t \in Tasks :
    \/ Post(t) \/ PostEnqueue(t)
    \/ TryPost(t) \/ TryPostPend(t) \/ TryPostFromISR(t)
    \/ Fetch(t) \/ FetchTimeout(t) \/ FetchRelease(t)
    \/ TryFetch(t) \/ TryFetchRelease(t)

(***************************************************************************)
(* Fairness.  A task that is inside a call and ready to run finishes its   *)
(* next kernel call: uC/OS-III is preemptive and every other task in this  *)
(* model blocks or returns, so a ready task is not starved.  A task that   *)
(* fetches does so again whenever it is idle: the tcpip thread loops on    *)
(* sys_arch_mbox_fetch forever.  Posting is up to the caller, and a timed  *)
(* wait may or may not expire, so neither is fair.                         *)
(***************************************************************************)
Fairness ==
  \A t \in Tasks :
    /\ WF_vars(PostEnqueue(t))
    /\ WF_vars(TryPostPend(t))
    /\ WF_vars(FetchRelease(t))
    /\ WF_vars(TryFetchRelease(t))
    /\ WF_vars(Fetch(t))

Spec == Init /\ [][Next]_vars
FairSpec == Spec /\ Fairness

-----------------------------------------------------------------------------
(* Properties.                                                             *)

Reserving == {t \in Tasks : pc[t] = "post_q"}
Queuing   == {t \in Tasks : pc[t] = "trypost_sem"}

\* Admission accounting: msg_sem counts the slots of msg_queen not taken by
\* a queued message, by a post that has passed msg_sem but not yet queued,
\* or by a fetch that has dequeued but not yet posted msg_sem back; a
\* task-context trypost holds its slot in msg_queen before it takes its
\* unit of msg_sem.  The count drifts only through the two races of the
\* post paths: up by one for each message queued by a trypost that then
\* reported ERR_MEM, down by one for each message sys_mbox_post dropped.
\* Any other drift lets sys_mbox_post pass msg_sem with msg_queen full, or
\* block with a slot free.
SlotAccounting ==
  sem + Len(q) + Cardinality(Reserving) + Cardinality(Fetching)
    = Cap + Cardinality(Queuing)
          + Cardinality(refused \cap Entered) - Cardinality(accepted \ Entered)

\* A trypost that returned ERR_MEM left the mailbox unchanged (spec 4.4):
\* its message never reaches msg_queen or a fetcher.  lwIP's tcpip_inpkt
\* frees the message when sys_mbox_trypost returns ERR_MEM.
RefusedNeverEntered == refused \cap Entered = {}

\* A message whose sys_mbox_post returned has reached msg_queen or a
\* fetcher; sys_mbox_post returns void, so a message it drops is lost.
AcceptedNotLost == accepted \subseteq Entered

\* Every sys_mbox_post that started returns.
PostsComplete ==
  \A t \in Tasks : pc[t] \in {"post_wait", "post_q"} ~> pc[t] = "idle"

\* Every message whose post succeeded is eventually returned by a fetch.
AcceptedDelivered == \A m \in Msgs : m \in accepted ~> m \in got

\* The mailbox implements MailboxSpec: msg_queen is the box, and the
\* messages that entered are those queued, in a fetcher's hands or fetched.
Abstract == INSTANCE MailboxSpec WITH box <- q, put <- Entered
MailboxRefinement == Abstract!Spec

=============================================================================
