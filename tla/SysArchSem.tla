------------------------------ MODULE SysArchSem ------------------------------
(***************************************************************************)
(* The lwIP semaphore of src/Lwip-2.1.2/arch/sys_arch.c on uC/OS-III:     *)
(* sys_sem_new, sys_sem_signal and sys_arch_sem_wait, with the tick        *)
(* counter OSTickCtr.  The tick counter is an OS_TICK of TickBits bits     *)
(* that wraps; sys_arch_sem_wait returns OSTickCtr - starttick computed    *)
(* in that width, or SYS_ARCH_TIMEOUT, the all-ones value, when the pend   *)
(* fails.  A timeout of 0 waits forever (uC/OS-III and lwIP agree).        *)
(*                                                                         *)
(* OSSemPend and OSSemPost are atomic.  The tick interrupt advances        *)
(* OSTickCtr and expires pending timeouts; a task readied by a post or a   *)
(* timeout returns later, when it runs again, and ticks may pass between. *)
(***************************************************************************)
EXTENDS Naturals, FiniteSets

CONSTANTS Waiters,     \* tasks calling sys_arch_sem_wait
          InitCount,   \* initial_count passed to sys_sem_new
          Timeouts,    \* timeout arguments the waiters pass (0 = forever)
          TickBits,    \* width of OS_TICK
          MaxSignals   \* bound on the number of sys_sem_signal calls

Modulus == 2^TickBits
SYS_ARCH_TIMEOUT == Modulus - 1     \* 0xffffffff for a 32-bit OS_TICK
NoRet == Modulus                    \* no value returned yet

ASSUME /\ InitCount \in {0, 1}      \* sys_sem_new asserts 0 or 1
       /\ Timeouts \subseteq 0..SYS_ARCH_TIMEOUT
       /\ TickBits \in Nat \ {0}
       /\ MaxSignals \in Nat

VARIABLES
  tick,      \* OSTickCtr
  count,     \* the semaphore count
  pending,   \* tasks pending on the semaphore
  left,      \* ticks before a pending task's timeout expires (0 = none)
  pc,        \* "idle", "pending", "readied" (posted) or "expired"
  start,     \* starttick of each waiter
  ret,       \* the value sys_arch_sem_wait returned last
  got,       \* whether that wait obtained the semaphore
  signals    \* sys_sem_signal calls made

vars == <<tick, count, pending, left, pc, start, ret, got, signals>>

TypeOK ==
  /\ tick \in 0..Modulus - 1
  /\ count \in Nat
  /\ pending \subseteq Waiters
  /\ left \in [Waiters -> Nat]
  /\ pc \in [Waiters -> {"idle", "pending", "readied", "expired"}]
  /\ start \in [Waiters -> 0..Modulus - 1]
  /\ ret \in [Waiters -> 0..Modulus]
  /\ got \in [Waiters -> BOOLEAN]
  /\ signals \in 0..MaxSignals

\* sys_sem_new(sem, InitCount), with OSTickCtr anywhere in its range.
Init ==
  /\ tick \in 0..Modulus - 1
  /\ count = InitCount
  /\ pending = {}
  /\ left = [t \in Waiters |-> 0]
  /\ pc = [t \in Waiters |-> "idle"]
  /\ start = [t \in Waiters |-> 0]
  /\ ret = [t \in Waiters |-> NoRet]
  /\ got = [t \in Waiters |-> FALSE]
  /\ signals = 0

\* OSTickCtr - starttick as an OS_TICK.
Elapsed(t) == (tick + Modulus - start[t]) % Modulus

\* Pending tasks whose timeout runs out at the next tick.
Expiring == {t \in pending : left[t] = 1}

-----------------------------------------------------------------------------
(* Mutations: plausible bugs in the actions below, each with the           *)
(* parameters of the definition it replaces.                               *)

\* OSSemPend taking a unit without checking that one is available.
WaitNoCheck(t) ==
  /\ pc[t] = "idle"
  /\ count' = count - 1
  /\ ret' = [ret EXCEPT ![t] = 0]
  /\ got' = [got EXCEPT ![t] = TRUE]
  /\ start' = [start EXCEPT ![t] = tick]
  /\ UNCHANGED <<pending, left, pc, tick, signals>>

\* sys_arch_sem_wait pending again, forever, after a timeout instead of
\* returning SYS_ARCH_TIMEOUT.
WaitReturnRetry(t) ==
  /\ pc[t] \in {"readied", "expired"}
  /\ \/ /\ pc[t] = "readied"
        /\ pc' = [pc EXCEPT ![t] = "idle"]
        /\ ret' = [ret EXCEPT ![t] = Elapsed(t)]
        /\ got' = [got EXCEPT ![t] = TRUE]
              /\ UNCHANGED <<pending, left>>
     \/ /\ pc[t] = "expired"
        /\ pc' = [pc EXCEPT ![t] = "pending"]
        /\ pending' = pending \cup {t}
        /\ left' = [left EXCEPT ![t] = 0]
        /\ UNCHANGED <<ret, got>>
  /\ UNCHANGED <<tick, count, start, signals>>

-----------------------------------------------------------------------------

\* sys_arch_sem_wait: record starttick, then OSSemPend with the timeout.
\* A positive count is taken at once and the call returns.
Wait(t) ==
  /\ pc[t] = "idle"
  /\ \E to \in Timeouts :
       \/ /\ count > 0
          /\ count' = count - 1
                  /\ ret' = [ret EXCEPT ![t] = 0]
          /\ got' = [got EXCEPT ![t] = TRUE]
          /\ start' = [start EXCEPT ![t] = tick]
          /\ UNCHANGED <<pending, left, pc>>
       \/ /\ count = 0
          /\ pending' = pending \cup {t}
          /\ left' = [left EXCEPT ![t] = to]
          /\ pc' = [pc EXCEPT ![t] = "pending"]
          /\ start' = [start EXCEPT ![t] = tick]
          /\ UNCHANGED <<count, ret, got>>
  /\ UNCHANGED <<tick, signals>>

\* sys_sem_signal: OSSemPost(OS_OPT_POST_1) readies one pending task, or
\* counts the unit; callable from a task or an interrupt handler.
Signal ==
  /\ signals < MaxSignals
  /\ signals' = signals + 1
  /\ \/ \E w \in pending :
          /\ pending' = pending \ {w}
          /\ pc' = [pc EXCEPT ![w] = "readied"]
          /\ left' = [left EXCEPT ![w] = 0]
          /\ UNCHANGED count
     \/ /\ pending = {}
        /\ count' = count + 1
        /\ UNCHANGED <<pending, pc, left>>
  /\ UNCHANGED <<tick, start, ret, got>>

\* The tick interrupt: OSTickCtr wraps at the OS_TICK width; a pending
\* task whose timeout runs out is readied with OS_ERR_TIMEOUT.
Tick ==
  /\ tick' = (tick + 1) % Modulus
  /\ left' = [t \in Waiters |-> IF t \in pending /\ left[t] > 0
                                  THEN left[t] - 1 ELSE left[t]]
  /\ pending' = pending \ Expiring
  /\ pc' = [t \in Waiters |-> IF t \in Expiring THEN "expired" ELSE pc[t]]
  /\ UNCHANGED <<count, start, ret, got, signals>>

\* sys_arch_sem_wait resumes after the pend: OS_ERR_NONE returns the
\* elapsed ticks, any error returns SYS_ARCH_TIMEOUT.
WaitReturn(t) ==
  /\ pc[t] \in {"readied", "expired"}
  /\ pc' = [pc EXCEPT ![t] = "idle"]
  /\ ret' = [ret EXCEPT ![t] = IF pc[t] = "readied" THEN Elapsed(t)
                                                   ELSE SYS_ARCH_TIMEOUT]
  /\ got' = [got EXCEPT ![t] = pc[t] = "readied"]
  /\ UNCHANGED <<tick, count, pending, left, start, signals>>

Next ==
  \/ \E t \in Waiters : Wait(t) \/ WaitReturn(t)
  \/ Signal
  \/ Tick

\* The tick interrupt keeps firing, and a readied task eventually runs.
Fairness == WF_vars(Tick) /\ \A t \in Waiters : WF_vars(WaitReturn(t))

Spec == Init /\ [][Next]_vars
FairSpec == Spec /\ Fairness

-----------------------------------------------------------------------------
(* Properties.                                                             *)

\* A wait with a finite timeout returns.
WaitTerminates ==
  \A t \in Waiters : (pc[t] = "pending" /\ left[t] > 0) ~> pc[t] = "idle"

\* SYS_ARCH_TIMEOUT is returned only by a wait that did not obtain the
\* semaphore (lwIP's sys.h contract, and spec sections 3 and 9).
TimeoutMeansNoUnit ==
  \A t \in Waiters : ret[t] = SYS_ARCH_TIMEOUT => ~got[t]

=============================================================================
