# TLA+ models of the uC/OS-III lwIP port (ExploreF407)

This directory models the firmware under `src/` for the TLC model checker: an
STM32F407 board running uC/OS-III 3.08, lwIP 2.1.2 and a debug LCD. The
concurrency lives in the **lwIP operating-system adapter**,
`src/Lwip-2.1.2/arch/sys_arch.c`. It builds lwIP's mutex, semaphore, mailbox
and thread services from uC/OS-III kernel objects, and both tasks and
interrupt handlers call it. Everything else is sequential glue around it.

## 1. Inventory

### Components, their state and their operations

| Component | Source | State | Operations |
|---|---|---|---|
| Critical-section guard | `sys_arch.c` 46-110 | global `LwIP_Mutex_Arch` (a uC/OS mutex: owner, nesting count, pend list) | `sys_init`, `sys_arch_protect`, `sys_arch_unprotect` |
| Mutex | `sys_arch.c` 112-175 | an `OS_MUTEX` per lwIP mutex | `sys_mutex_new/lock/unlock/free` |
| Semaphore | `sys_arch.c` 177-271 | an `OS_SEM`: count and pend list; `OSTickCtr` | `sys_sem_new/signal/free`, `sys_arch_sem_wait`, `sys_sem_valid/set_invalid` |
| Mailbox | `sys_arch.c` 273-499 | `msg_sem` (an `OS_SEM` seeded with the size, counting free slots) and `msg_queen` (an `OS_Q` of that depth holding the pointers) | `sys_mbox_new/post/trypost/trypost_fromisr/free`, `sys_arch_mbox_fetch/tryfetch`, `sys_mbox_valid/set_invalid` |
| Time | `sys_arch.c` 67-77 | `OSTickCtr` | `sys_now`, `sys_jiffies` |
| Thread spawner | `sys_arch.c` 501-533 | one static TCB and stack for the tcpip thread | `sys_thread_new` |
| Per-thread semaphore registry | `sys_arch.c` 535-589 | one thread-local pointer per task | `sys_arch_netconn_sem_get/alloc/free`. The code calls FreeRTOS APIs, so it is compiled only with `LWIP_NETCONN_SEM_PER_THREAD`. |
| Core-lock check | `sys_arch.c` 591-657 | lock count, holder, tcpip thread id | `sys_lock_tcpip_core`, `sys_unlock_tcpip_core`, `sys_mark_tcpip_thread`, `sys_check_core_locking`. The code is under `#if 0`. |
| Application tasks | `app.c` | start task, Ethernet client task (`conn`, `buf`) and a debug timer | `App_Start`, `App_StartTask`, `App_EthTask`, `App_ObjectInit` |
| Debug LCD UI | `app_dbg.c`, `app_dbg.h`, `app_lcd.h` | table layout, per-row maximum stack and CPU usage | `APP_DBGLCDInit`, `APP_DBGLCDFresh` |
| OS tick BSP | `bsp_os.c` | SysTick setup; with dynamic tick, `TickDelta` and TIM5 | `BSP_OS_TickInit/Enable/Disable`, `OS_DynTickGet/Set`, `TIM5_IRQHandler` |
| LCD driver interface | `bsp.h`, `system.h` | declarations only | the implementations are not in `src/` |

### How they interact

lwIP's tcpip thread loops on `sys_arch_mbox_fetch` over its mailbox. Other
tasks post to that mailbox with `sys_mbox_post`, which blocks when the
mailbox is full (`tcpip_callback`, `netconn_*` API calls). The Ethernet
receive path posts with `sys_mbox_trypost` or `sys_mbox_trypost_fromisr`.
When one of those returns ERR_MEM, lwIP's `tcpip_inpkt` frees the message.
Each netconn also owns mailboxes and semaphores (`recvmbox`, `op_completed`).
The API task waits on them and the tcpip thread signals them. All of these
share kernel objects and nothing else. `sys_arch_protect` serialises lwIP's
memory pools through one global mutex. The start task polls the debug LCD
every 500 ticks. `App_EthTask` drives one TCP connection through the netconn
API.

### What is hard

* **Interleaving inside a call.** Each mailbox call is two kernel calls
  (`OSSemPend`+`OSQPost` to post, `OSQPend`+`OSSemPost` to fetch). Each
  kernel call is atomic, but a task can be preempted between the two. An
  interrupt handler can also run between them.
* **Two post paths with opposite orders.** `sys_mbox_post` takes a slot
  from `msg_sem` first and then queues. `sys_mbox_trypost` queues first and
  then tries to take the slot. The two disagree about who owns a free slot.
* **Timeouts.** A wait can be readied by a post or expire at a tick. The
  return value is `OSTickCtr - starttick` in the tick width, with the
  all-ones value reserved for a timeout.
* **Interrupt context.** `trypost_fromisr` runs to completion. The blocking
  calls must never run from an ISR.
* **Lifecycle.** `*_free` with tasks still pending, and `*_set_invalid`
  leaving the handle unchanged (see the findings).

### What makes each component correct

* Mailbox: at most Cap messages outstanding; strict FIFO; no message lost,
  duplicated or delivered after ERR_MEM; `msg_sem` counts exactly the free
  slots; every blocked post eventually completes while someone fetches.
* Semaphore: no signal lost or counted twice; a finite wait returns;
  SYS_ARCH_TIMEOUT means the semaphore was not obtained.
* Critical section / mutex: mutual exclusion; nested protect/unprotect
  (lwIP nests `SYS_ARCH_PROTECT`) releases only at the outermost level.
* Thread spawner: every request creates a thread or reports an error.
* Application task: a netbuf's data is not used after `netbuf_delete`; a
  failed connection is retried.
* Dynamic tick: the programmed delay is never shorter than requested (up to
  the timer's range).

## 2. Plan

Modules, in order of importance (✓ = written in this sitting):

1. ✓ `MailboxSpec`: the abstract mailbox (spec §4.4). A bounded FIFO in
   which a success is reported only for a message that entered and ERR_MEM
   only for one that never enters.
2. ✓ `SysArchMbox`: the mailbox, with every post and fetch path split at its
   kernel calls, and an ISR poster. It refines `MailboxSpec` (checked as
   `MailboxRefinement`). `MCSysArchMbox` holds the instances.
3. ✓ `SysArchSem`: semaphore signal/wait with a wrapping tick counter,
   timeouts and the SYS_ARCH_TIMEOUT sentinel. `MCSysArchSem` holds the
   instances.
4. ✓ `SysArchProtect`: `sys_init`, `sys_arch_protect/unprotect` and
   `sys_mutex_*` over the uC/OS-III mutex, including its owner nesting
   (`OS_ERR_MUTEX_OWNER` / `OS_ERR_MUTEX_NESTING`) and calls from
   interrupt handlers. It checks nesting.
5. ✓ `SysArchHandles`: `*_new`, `*_free`, `*_valid` and `*_set_invalid`
   for mutexes, semaphores and mailboxes, driven by lwIP's guarded teardown
   idiom. It checks that the handles and the kernel objects stay in step.
6. ✓ `sys_thread_new`: role dispatch, as an operator of `DbgLCD` that
   decides which lwIP threads exist when the debug screen walks the task
   list.
7. ✓ `EthTask`: the connection loop of `App_EthTask` over an abstract netconn:
   connect failures, close, receive errors, and the netbuf freed before its
   data is written.
8. ✓ `DynTick`: `OS_DynTickSet/Get` and the TIM5 handler, with the timer
   and OS_TICK narrowed to 8 bits, checked against the functions' header
   contracts.
9. ✓ `DbgLCD`: `APP_DBGLCDInit` and `APP_DBGLCDFresh`, driven by
   `App_StartTask`, walking a task list of bounded length.
10. Later: the per-thread registry and the core-lock check, both compiled
    out, modelled against the spec and marked `spec_modelled`.

The project holds at most 12 runs, and 11 are used: mailbox 4,
semaphore 2, protect 1, EthTask 1, DynTick 1, DbgLCD 1, handles 1. The
former `mbox_capacity_leak` run showed a consequence of the `mbox_post_lost`
defect and has been folded into that finding. The former `dyntick_get` run
checked `OS_DynTickGet`'s header contract, a plain property of code that is
compiled only with `OS_CFG_DYN_TICK_EN`. It was retired so that
`handles_teardown` could have a run.
`EthTask` needs a passing run once it models the tcpip-thread side of a
netconn. That model would let it check that the loop neither leaks nor
dangles a netconn.

## 3. Modules and runs so far

### `SysArchMbox` (mailbox, `sys_arch.c` 273-468)

State: `sem` (the count of `msg_sem`), `semWait` (tasks pending on it), `q`
(the contents of `msg_queen`), `qWait` (tasks pending in `OSQPend`), and `pc`
and `hold` per task (the point reached inside a call, and the message it
holds). History variables record `accepted` (the post reported success),
`refused` (the trypost returned ERR_MEM) and `got` (a fetch returned the
message). Each action is one kernel call with the code around it:

| Action | Code |
|---|---|
| `Post` / `PostEnqueue` | `sys_mbox_post`: `OSSemPend` blocking / `OSQPost` |
| `TryPost` / `TryPostPend` | `sys_mbox_trypost`: `OSQPost` / non-blocking `OSSemPend` |
| `TryPostFromISR` | `sys_mbox_trypost_fromisr`, one atomic step (an ISR runs to completion) |
| `Fetch` / `FetchTimeout` / `FetchRelease` | `sys_arch_mbox_fetch`: `OSQPend` / its timeout / `OSSemPost` |
| `TryFetch` / `TryFetchRelease` | `sys_arch_mbox_tryfetch`: `OSQPend` non-blocking / `OSSemPost` |

The kernel calls follow uC/OS-III's documented semantics. `OSQPost` hands
the message directly to a pending task. `OSSemPost` readies a pending task
instead of counting. Which pending task is readied depends on priority, and
the model lets it be any of them. A failed `LWIP_ASSERT` is modelled as
reporting only: `sys_arch_sem_wait` asserts on every ordinary timeout, so a
halting assert would stop the stack.

Runs (`MCSysArchMbox`; Tasks are model values):

* `mbox_blocking` (pass): two blocking posters, one `fetch` and one
  `tryfetch` task, Cap = 2, 4 messages. It checks `SlotAccounting`,
  `MailboxRefinement` (the abstract mailbox, which also gives FIFO order
  and no duplication), `PostsComplete` and `AcceptedDelivered` under
  fairness. With blocking posts only, the mailbox is correct.
* `mbox_all_paths` (pass): every call, including an ISR poster and a
  task-context trypost racing a blocking post, with Cap = 1 and 4 messages.
  It checks `SlotAccounting`: `msg_sem` drifts only through the two races
  below, one unit per occurrence. The drift terms absorb those races by
  design. The two violation runs below show what each race does.
* `mbox_isr_refused` (violation of `RefusedNeverEntered`): the tcpip thread
  dequeues and, before it posts `msg_sem` back, the Ethernet ISR calls
  `sys_mbox_trypost_fromisr`. `OSQPost` finds room and queues the message.
  The non-blocking `OSSemPend` finds 0, so the call returns ERR_MEM.
  `tcpip_inpkt` then frees a message that the tcpip thread will still
  process (use after free).
* `mbox_post_lost` (violation of `AcceptedNotLost`): a blocking post takes
  the last unit of `msg_sem`. A task-context trypost fills that slot in
  `msg_queen`. The post's `OSQPost` then fails with `OS_ERR_Q_MAX` and
  `sys_mbox_post` returns normally: the message is lost.
  After such a loss `msg_sem` is also one unit short for good. With
  Cap = 1, a later `sys_mbox_post` blocks forever on an empty mailbox
  while the tcpip thread blocks forever in fetch. `FairSpec` with
  `PostsComplete` under the same constants shows this.

Bounds: Cap 1-2 and 3-4 messages are enough for every race above. The
violations need one slot, one poster of each kind and one fetcher. The
passing runs fill the mailbox and block posters.

Fairness (`Fairness`): a task inside a call finishes its next kernel call.
Every other task in the model blocks or returns, so a preemptive priority
scheduler runs it. A task that fetches fetches again whenever idle, because
the tcpip thread loops on fetch. Posting and timing out are not fair.
`CHECK_DEADLOCK FALSE` is used on the fair runs because an idle system, in
which every fetcher waits forever on an empty mailbox, is a real final state.
Stuck posters are caught by `PostsComplete` instead.

### `SysArchSem` (semaphore, `sys_arch.c` 177-239)

State: `tick` (`OSTickCtr`, TickBits wide), `count`, `pending`, `left` (the
ticks left before each pending timeout), `pc`, `start` (starttick) and
`ret`/`got` (the last return value, and whether the wait obtained the
semaphore). `Wait` is `sys_arch_sem_wait` up to `OSSemPend`. `Signal` is
`sys_sem_signal`, from a task or an ISR. `Tick` is the tick interrupt.
`WaitReturn` is the code after the pend.

* `sem_wait` (pass): two waiters with timeouts 0 (forever) or 2, 2 signals
  and a 2-bit tick counter. It checks `WaitTerminates`: a finite wait
  returns, however the timeout expiry and a signal race to ready it. Ticks
  are fair because SysTick keeps firing, and a readied task runs. Counting
  signals against units taken is left out: that balance is the kernel's
  atomic `OSSemPost`/tick, not the port's code.
* `sem_timeout_sentinel` (violation of `TimeoutMeansNoUnit`, 3-bit ticks):
  a waiter is readied by a signal but runs only 7 ticks after its starttick.
  `OSTickCtr - starttick` is then the all-ones value, so the successful wait
  returns SYS_ARCH_TIMEOUT. With 32-bit ticks the same happens after
  2^32-1 ticks (49.7 days at 1 kHz) of waiting forever, or of preemption.
  This is the collision spec §9 leaves open. `sys_arch_mbox_fetch` (line
  412) computes its return value the same way.

### `SysArchProtect` (critical-section guard, `sys_arch.c` 46-108)

State: `created` (sys_init ran), `owner` and `nest` (the OS_MUTEX's owner
and nesting counter), `waiting` (tasks pending on it), `depth` (how many
protects each caller has open) and `isr` (the interrupt handler now
running). `Protect`/`Unprotect` are the task-side calls. They are also
`sys_mutex_lock`/`unlock`, which make the same kernel calls on another
mutex. `IsrProtect`/`IsrUnprotect` are the same calls from an interrupt
handler. The kernel answers those with OS_ERR_PEND_ISR / OS_ERR_POST_ISR
and changes nothing. While a handler is active, no task runs.

* `protect_tasks` (pass): 3 tasks, nesting up to 3, 2 interrupt
  handlers. It checks `OwnerMatchesNesting`: the mutex's owner and
  nesting counter match exactly who is inside, so only the outermost
  unprotect releases.

Interrupt-level callers stay in the environment because lwIP's core may
free a pbuf from an ISR. No interrupt handler under `src/` calls the guard,
and spec §4.1 forbids calling a guard backed by a blocking primitive from
one. No run checks exclusion against interrupt handlers. The hand-over to
a pending task at the outermost unprotect is `OSMutexPost`'s own semantics,
so no property restates it.

`sys_init` asserts `err != OS_ERR_NONE` (line 63), the inverse of what it
means. Whether this halts the board depends on `LWIP_PLATFORM_ASSERT`,
which is outside `src/`. It is listed as a hazard.

### `EthTask` (`app.c` 175-241)

State: `pc`, `conn`, `data` (the netbuf the `data` pointer points into),
and the netconn and netbuf pools. lwIP's calls are environment choices:
`netconn_new` returns NULL once the pool is empty, connect, recv and
delete may fail, and a failed `netconn_delete` frees nothing.

* `eth_write_freed` (violation of `WriteDataLive`): after a successful
  `netconn_recv`, the task calls `netbuf_delete(buf)` and then
  `netconn_write(conn, data, ...)` with `data` pointing into the freed
  buffer. With `NETCONN_COPY` the write reads freed memory. A single
  sequential task has too few states for a passing run. The module's
  other actions are listed in the map, and the run's trace fires them.

### `DynTick` (dynamic tick, `bsp_os.c` 56-443)

State: TIM5's `cnt`, `arr` and update flag `uif`, plus `TickDelta` and the
last request `req`. `Set` is `OS_DynTickSet`, `OS_DynTickGet` is an
operator, `Count` is the timer hardware, `TIM5_IRQHandler` is the handler,
and `KernelSet` stands for the kernel asking for a delay. Widths are 8 bits,
with 1 kHz ticks and 10 kHz timer counts. 2^8 ≡ 2^32 (mod 10), so the
conversions wrap in the same places relative to the maximum.

* `dyntick_wrap` (violation of `DeltaHonoursRequest`, all 256 delays):
  26 ticks are 260 counts, which wrap to 4. That passes both range checks,
  and TickDelta becomes 0. On the board, 429 496 730 ticks give the same
  result. The function's note 3 says an oversized delay programs the
  timer's maximum. A TickDelta of 0 reports no progress at the interrupt.
  This code is compiled only with `OS_CFG_DYN_TICK_EN`, whose setting is
  outside `src/`.

### `DbgLCD` (debug screen, `app_dbg.c` 80-418, `app.c` 115-172)

The kernel's debug list of tasks (`OSTaskDbgListPtr`, newest first) is the
positions 1..n. A pointer is a position, `NULL` (0), or `Wild`: the word
read through a pointer that is not a TCB. On the STM32F407, address 0 is
the flash vector table, so that read returns a code address rather than
faulting. `lcdOk` records whether `App_LCDObjectInit` succeeded.
`App_StartTask` ignores its error, and every `App_LCDPend` then fails.

| Action | Code |
|---|---|
| `InitTitles` | `APP_DBGLCDInit` 80-158: three strings, each between `App_LCDPend`/`App_LCDPost`, with an early return |
| `InitTable` | 160-305: table, line, row and header cells, frame and header strings |
| `InitName` / `InitCount` | the name loop 307-329 (rows 1..7, all tasks counted) / the count string 331-345 |
| `FreshCell` | one cell of `APP_DBGLCDFresh` 357-418, including the running maxima and `ptr = ptr->DbgNextPtr` |
| `Sleep` | `App_StartTask`'s `OSTimeDly(500)`; the statistic task updates the usages |

The task count is computed, not assumed. `App_StartTask` runs
`LWIP_TCPIPInit`, which starts the tcpip thread through `sys_thread_new`
and, by app.c:130's comment, an ethrx thread, and then creates App Eth. The operator `sys_thread_new(tcbs, name)` (sys_arch.c
501-533) adds `TCPIP_TaskTCB` when the name matches `TCPIP_THREAD_NAME` in
its first 5 bytes, and creates nothing otherwise. `SNMP_THREAD_NAME` is
read into a local and never compared. `TaskCounts` folds the operator over
each spawn sequence in `Spawns`. It then adds App Start, App Eth, the
kernel's own tasks (`KernelTasks`), and the tasks LWIP_TCPIPInit creates
without `sys_thread_new` (`GlueTasks`). This port's `sys_thread_new`
cannot create the ethrx thread, so that thread is created directly. The names are model values, defined in
`MCDbgLCD`. A second tcpip-named request would re-create the live TCB, and
an `ASSUME` excludes it.

* `dbg_fresh_walk` (module `MCDbgLCD`, violation of `NoWildRead`). The
  kernel runs 1-3 tasks: the idle task, and the statistic and timer tasks
  when enabled. With App Start, tcpip, ethrx and App Eth, the list has
  5-7 tasks. The 7-task build is safe. With n < 7, row n+1 of each column
  reads through NULL. The name loop stops at NULL, but the refresh loop
  always walks 7 rows.

### `SysArchHandles` (handle lifecycle, `sys_arch.c` 114-173, 177-201, 241-295, 470-499)

A mutex, semaphore or mailbox handle is storage embedded in one of lwIP's
structures, such as a netconn taken from a memp pool. The storage is reused
after lwIP frees the structure.

State:

* `live[o]`: kernel object o (`mutex`, `sem`, `msg_sem`, `msg_queen`) is
  created and not yet deleted.
* `lw[h]`: lwIP's view of handle h, one of unused, created or freed.
* `misuse`: the adapter created an object over a live one, or deleted a dead
  one.

The environment is sys.h's teardown idiom,
`if (sys_X_valid(&h)) { sys_X_free(&h); sys_X_set_invalid(&h); }`. lwIP
runs it on every path that may own the handle, so it can run more than once
on one handle. The port has no `sys_mutex_valid`, so a mutex is freed once,
without the guard.

| Action | Code |
|---|---|
| `SemNew`, `MutexNew` | `sys_sem_new` 177-201, `sys_mutex_new` 114-131 |
| `MboxNew` | `sys_mbox_new` 273-295: `OSQCreate` (fails for size 0), then `OSSemCreate`; `ERR_MEM` if either failed |
| `SemTeardown`, `MutexFree` (via `DelNoPend`) | `sys_sem_free` 241-258, `sys_mutex_free` 158-173: `OS_OPT_DEL_NO_PEND` |
| `MboxTeardown` | `sys_mbox_free` 470-486: both objects with `OS_OPT_DEL_ALWAYS` |
| `Release` | lwIP frees the structure that holds the handle |

`sys_sem_valid` and `sys_mbox_valid` are `TRUE`: they test the handle's
address, which is never NULL. `sys_*_set_invalid` changes nothing: it
assigns NULL to its own parameter.

* `handles_teardown` (violation of `HandlesInStep`, Sizes = {2}). The
  semaphore is created and torn down. The guard still answers valid, so a
  second teardown calls `OSSemDel` on a deleted semaphore. spec §4.3 says
  this must not happen: after `set_invalid`, `valid` returns 0. The same
  invariant is also broken by `sys_mbox_new` with size 0, which leaves
  `msg_sem` created after it returns `ERR_MEM`.

  lwIP's mailbox sizes are positive, so the run uses size 2. A size of 0
  fails `OSQCreate` and is caught by the same property.

lwIP frees a handle only when no task is blocked on it (spec §4.4), so the
model has no pending task at a delete.

## 4. Not modelled (yet) and why

* LCD drawing, table layout, fonts and number formatting (the rectangle
  arithmetic in `app_dbg.c`, abstracted into `DbgLCD`'s steps; `bsp.h`,
  `system.h`): pure I/O, whose implementations are
  outside `src/`.
* Tick and clock setup (`BSP_OS_TickInit/Enable/Disable`): register writes.
* Time (`sys_now`, `sys_jiffies`, 67-78): plain reads of `OSTickCtr`. Their
  wrap is the wrap `SysArchSem` models.
* The statistics `APP_DBGLCDFresh` shows (`StkUsed`, `CPUUsage`) are
  written by the kernel's statistic task. `DbgLCD` keeps them and the
  running maxima, but its run fixes them to one value. The walk does not
  depend on them, and 7 rows of maxima over two values give 2^28 states.
* The per-thread semaphore registry (`sys_arch.c` 535-589) calls FreeRTOS
  APIs and is compiled only with `LWIP_NETCONN_SEM_PER_THREAD`. The
  core-lock check (591-657) is under `#if 0`.
* uC/OS-III itself and lwIP's core: outside `src/`. Only the kernel-call
  semantics the adapter relies on are modelled.
* The ms-to-tick conversion: `timeout_ms` is passed to the kernel as ticks,
  which is right only at a 1 kHz tick. The tick rate is configured outside
  `src/`.
