------------------------------- MODULE DynTick -------------------------------
(***************************************************************************)
(* The uC/OS-III dynamic tick of src/User/Bsp/Src/bsp_os.c (compiled when *)
(* OS_CFG_DYN_TICK_EN is enabled): TIM5 counts at TIMER_COUNT_HZ, the      *)
(* kernel programs the next interrupt with OS_DynTickSet and reads the     *)
(* ticks elapsed since then with OS_DynTickGet, and TIM5_IRQHandler        *)
(* reports TickDelta ticks to the kernel on each update event.             *)
(*                                                                         *)
(* OS_TICK, CPU_INT32U and TIM5's counter are Bits wide (32 on the board). *)
(* The conversions are computed in CPU_INT64U, which does not overflow for *)
(* these operands, and assigned to a Bits-wide CPU_INT32U.  The kernel     *)
(* calls OS_DynTickSet and OS_DynTickGet with interrupts disabled, so each *)
(* call is one step.                                                       *)
(***************************************************************************)
EXTENDS Naturals

CONSTANTS Bits,               \* width of OS_TICK and of the timer
          OS_CFG_TICK_RATE_HZ, \* kernel ticks per second
          TIMER_COUNT_HZ,      \* timer counts per second
          Requests             \* the delays the kernel asks for

Word == 2^Bits
DEF_INT_32U_MAX_VAL == Word - 1
NoRequest == Word                \* OS_DynTickSet not called yet

TIMER_TO_OSTICK(count) == (count * OS_CFG_TICK_RATE_HZ) \div TIMER_COUNT_HZ
OSTICK_TO_TIMER(ostick) == (ostick * TIMER_COUNT_HZ) \div OS_CFG_TICK_RATE_HZ

\* The max timer count ends on a one-tick boundary.
TIMER_COUNT_MAX ==
  DEF_INT_32U_MAX_VAL - (DEF_INT_32U_MAX_VAL % OSTICK_TO_TIMER(1))

ASSUME /\ Bits \in Nat \ {0}
       /\ TIMER_COUNT_HZ % OS_CFG_TICK_RATE_HZ = 0
       /\ OSTICK_TO_TIMER(1) \in 1..DEF_INT_32U_MAX_VAL
       /\ Requests \subseteq 0..Word - 1

VARIABLES
  cnt,        \* TIM5->CNT
  arr,        \* TIM5->ARR, the auto-reload value
  uif,        \* the update flag TIM_FLAG_UPDATE
  TickDelta,  \* bsp_os.c's TickDelta
  req         \* the argument of the last OS_DynTickSet (history)

vars == <<cnt, arr, uif, TickDelta, req>>

\* BSP_OS_DynamicTickInit: the timer runs freely with period
\* TIMER_COUNT_MAX from 0; TickDelta is statically 0.
Init ==
  /\ cnt = 0
  /\ arr = TIMER_COUNT_MAX
  /\ uif = FALSE
  /\ TickDelta = 0
  /\ req = NoRequest

\* The timer count OS_DynTickSet programs for `ticks`: the 64-bit
\* conversion assigned to the 32-bit tmrcnt, widened to the maximum when it
\* is too large or zero.
SetCount(ticks) ==
  LET tmrcnt == OSTICK_TO_TIMER(ticks) % Word
  IN  IF tmrcnt >= TIMER_COUNT_MAX \/ tmrcnt = 0 THEN TIMER_COUNT_MAX
                                                  ELSE tmrcnt

\* OS_DynTickGet: TickDelta once the counter has overflowed, else the
\* counter converted to ticks.
OS_DynTickGet == IF uif THEN TickDelta ELSE TIMER_TO_OSTICK(cnt)

-----------------------------------------------------------------------------

\* OS_DynTickSet(ticks): TickDelta is the programmed count in ticks; the
\* timer is stopped, its update flag cleared, reloaded, reset and started.
Set(ticks) ==
  /\ arr' = SetCount(ticks)
  /\ TickDelta' = TIMER_TO_OSTICK(SetCount(ticks))
  /\ uif' = FALSE
  /\ cnt' = 0
  /\ req' = ticks

\* The kernel asks for the next interrupt.
KernelSet == \E ticks \in Requests : Set(ticks)

\* TIM5 counts up; on reaching ARR it restarts from 0 with an update
\* event.  A counter above ARR counts on to the top and wraps to 0.
Count ==
  /\ cnt' = IF cnt = arr THEN 0 ELSE (cnt + 1) % Word
  /\ uif' = (uif \/ cnt = arr)
  /\ UNCHANGED <<arr, TickDelta, req>>

\* TIM5_IRQHandler: on an update event, clear the flag and announce
\* TickDelta ticks with OSTimeDynTick.
TIM5_IRQHandler ==
  /\ uif
  /\ uif' = FALSE
  /\ UNCHANGED <<cnt, arr, TickDelta, req>>

Next == KernelSet \/ Count \/ TIM5_IRQHandler

Spec == Init /\ [][Next]_vars

-----------------------------------------------------------------------------
(* Properties.                                                             *)

\* OS_DynTickSet's note 3: a delay too large for the timer, or an
\* indefinite one (0), programs the timer's maximum; any other delay is
\* programmed as asked, so TickDelta is the requested delay.
MaxTicks == TIMER_TO_OSTICK(TIMER_COUNT_MAX)
DeltaHonoursRequest ==
  req # NoRequest =>
    TickDelta = IF req = 0 \/ req > MaxTicks THEN MaxTicks ELSE req

=============================================================================
