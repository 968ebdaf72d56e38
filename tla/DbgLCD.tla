------------------------------- MODULE DbgLCD -------------------------------
(***************************************************************************)
(* The debug screen of src/User/Src/app_dbg.c, driven by App_StartTask in  *)
(* src/User/Src/app.c: APP_DBGLCDInit(OSTaskDbgListPtr) draws the table    *)
(* and fills the name column by walking the kernel's list of task control  *)
(* blocks; APP_DBGLCDFresh(OSTaskDbgListPtr) then runs every 500 ticks and *)
(* fills columns 1..5 of table rows 1..7, following DbgNextPtr once per     *)
(* row.                                                                    *)
(*                                                                         *)
(* The task list is positions 1..n from OSTaskDbgListPtr; no task is       *)
(* created or deleted once the loop runs.  A pointer is a position, NULL   *)
(* past the last task, or Wild: the word read through a pointer that is    *)
(* not a TCB (address 0 on this part is the flash vector table, so the     *)
(* read returns a code address, not a fault).  Statistics read through     *)
(* such a pointer are any value.  Every App_LCDPend fails when             *)
(* App_LCDObjectInit failed (its error is ignored) and succeeds otherwise; *)
(* each failure makes the function return, and App_StartTask ignores the   *)
(* result.  The LCD drawing itself is left out.                            *)
(*                                                                         *)
(* The list holds the kernel's own tasks, App Start, the tasks that        *)
(* LWIP_TCPIPInit starts, and App Eth, all created before APP_DBGLCDInit   *)
(* runs.  LWIP_TCPIPInit starts the tcpip thread through sys_thread_new    *)
(* and, by app.c's comment, an ethrx thread, which this sys_thread_new     *)
(* cannot create and so is created by the Ethernet glue directly.  Thread  *)
(* names are model values; which of them match TCPIP_THREAD_NAME in        *)
(* memcmp's first 5 bytes is a constant.                                   *)
(***************************************************************************)
EXTENDS Integers, FiniteSets, SequencesExt

CONSTANTS KernelTasks, \* numbers of kernel tasks (idle, statistic, timer)
          Spawns,      \* sequences of names LWIP_TCPIPInit passes to
                       \* sys_thread_new
          TcpipNames,  \* names whose first 5 bytes are TCPIP_THREAD_NAME's
          GlueTasks,   \* tasks LWIP_TCPIPInit creates without sys_thread_new
          Usages       \* values of StkUsed/StkSize and CPUUsage, scaled

LCDTABLE_DBG_LINE_CNT == 8
LCDTABLE_DBG_ROW_CNT == 6
Lines == 1..LCDTABLE_DBG_LINE_CNT - 1   \* table rows showing a task
NULL == 0
Wild == -1

\* A second tcpip-named thread would re-create the live TCPIP_TaskTCB; its
\* effect on the kernel's lists is not modelled, so no spawn sequence has
\* two.
ASSUME /\ KernelTasks \subseteq Nat \ {0}   \* the idle task always exists
       /\ GlueTasks \subseteq Nat
       /\ \A s \in Spawns : Cardinality({i \in DOMAIN s : s[i] \in TcpipNames}) <= 1
       /\ Usages \subseteq Nat /\ 0 \in Usages

\* sys_thread_new(name, ...): OSTaskCreate on the one static TCPIP_TaskTCB
\* and stack when the name's first 5 bytes match TCPIP_THREAD_NAME;
\* otherwise nothing is created (err is read uninitialised by an
\* assertion that only reports, and no handle is returned).  tcbs is the
\* set of control blocks sys_thread_new has created so far.
sys_thread_new(tcbs, name) ==
  IF name \in TcpipNames THEN tcbs \cup {"TCPIP_TaskTCB"} ELSE tcbs

\* App_StartTask: LWIP_TCPIPInit's calls of sys_thread_new and the tasks
\* it creates directly, then OSTaskCreate of App Eth.  With App Start and
\* the kernel's tasks, these are the tasks of the list.
TaskCounts ==
  {k + 1 + Cardinality(FoldLeft(sys_thread_new, {}, s)) + g + 1 :
     k \in KernelTasks, s \in Spawns, g \in GlueTasks}

VARIABLES
  n,         \* length of the task list
  lcdOk,     \* App_LCDObjectInit succeeded
  pc,        \* "init", "table", "names", "fresh" or "sleep"
  p_tcb,     \* APP_DBGLCDInit's walk pointer
  temp,      \* APP_DBGLCDInit's task counter
  name,      \* the task whose name TableDBG_Cell[line][0] shows, or NULL
  temp0,     \* APP_DBGLCDFresh's column
  temp1,     \* APP_DBGLCDFresh's row
  ptr,       \* APP_DBGLCDFresh's walk pointer
  stk,       \* each task's stack usage (StkUsed / StkSize)
  cpu,       \* each task's CPUUsage
  StackUsageMax,
  CPUUsageMax,
  wild       \* a field was read through a pointer that is not a TCB

vars == <<n, lcdOk, pc, p_tcb, temp, name, temp0, temp1, ptr, stk, cpu,
          StackUsageMax, CPUUsageMax, wild>>

Tcbs == 1..n
IsTcb(p) == p \in Tcbs

\* p->DbgNextPtr: the next task, NULL after the last, and the vector-table
\* word when p is not a TCB.
DbgNext(p) == IF ~IsTcb(p) THEN Wild ELSE IF p < n THEN p + 1 ELSE NULL

TypeOK ==
  /\ n \in TaskCounts
  /\ lcdOk \in BOOLEAN
  /\ pc \in {"init", "table", "names", "fresh", "sleep"}
  /\ p_tcb \in Tcbs \cup {NULL}
  /\ temp \in 0..n
  /\ name \in [Lines -> Tcbs \cup {NULL}]
  /\ temp0 \in 1..LCDTABLE_DBG_ROW_CNT - 1
  /\ temp1 \in Lines
  /\ ptr \in Tcbs \cup {NULL, Wild}
  /\ stk \in [Tcbs -> Usages] /\ cpu \in [Tcbs -> Usages]
  /\ StackUsageMax \in [Lines -> Usages] /\ CPUUsageMax \in [Lines -> Usages]
  /\ wild \in BOOLEAN

Init ==
  /\ n \in TaskCounts
  /\ lcdOk \in BOOLEAN
  /\ pc = "init"
  /\ p_tcb = NULL /\ temp = 0
  /\ name = [l \in Lines |-> NULL]
  /\ temp0 = 1 /\ temp1 = 1 /\ ptr = NULL
  /\ stk \in [Tcbs -> Usages] /\ cpu \in [Tcbs -> Usages]
  /\ StackUsageMax = [l \in Lines |-> 0] /\ CPUUsageMax = [l \in Lines |-> 0]
  /\ wild = FALSE

\* The rest of App_StartTask, APP_DBGLCDInit's result ignored.
EnterLoop ==
  /\ pc' = "fresh"
  /\ ptr' = 1 /\ temp0' = 1 /\ temp1' = 1

-----------------------------------------------------------------------------

\* APP_DBGLCDInit, first part: the title, "ErrorCode:" and "TaskCount:"
\* strings, each printed between App_LCDPend and App_LCDPost; the first
\* failing pend returns.
InitTitles ==
  /\ pc = "init"
  /\ IF lcdOk THEN pc' = "table" /\ UNCHANGED <<ptr, temp0, temp1>>
              ELSE EnterLoop
  /\ UNCHANGED <<n, lcdOk, p_tcb, temp, name, stk, cpu, StackUsageMax,
                 CPUUsageMax, wild>>

\* APP_DBGLCDInit, second part: the table, line and row objects, the
\* header cells, the frame and the six header strings; then the name walk
\* starts at p_tcb = OSTaskDbgListPtr with temp = 0.
InitTable ==
  /\ pc = "table"
  /\ pc' = "names"
  /\ p_tcb' = 1 /\ temp' = 0
  /\ UNCHANGED <<n, lcdOk, name, temp0, temp1, ptr, stk, cpu, StackUsageMax,
                 CPUUsageMax, wild>>

\* One iteration of the name loop: count the task and, while temp is
\* below LCDTABLE_DBG_LINE_CNT, put its name in row temp.
InitName ==
  /\ pc = "names" /\ p_tcb # NULL
  /\ temp' = temp + 1
  /\ name' = IF temp + 1 < LCDTABLE_DBG_LINE_CNT
               THEN [name EXCEPT ![temp + 1] = p_tcb] ELSE name
  /\ p_tcb' = DbgNext(p_tcb)
  /\ UNCHANGED <<n, lcdOk, pc, temp0, temp1, ptr, stk, cpu, StackUsageMax,
                 CPUUsageMax, wild>>

\* The list ended: the task count is printed and APP_DBGLCDInit returns.
InitCount ==
  /\ pc = "names" /\ p_tcb = NULL
  /\ EnterLoop
  /\ UNCHANGED <<n, lcdOk, p_tcb, temp, name, stk, cpu, StackUsageMax,
                 CPUUsageMax, wild>>

\* StackUsage or CPUUsage read through ptr.
Reads(f) == IF IsTcb(ptr) THEN {f[ptr]} ELSE Usages

\* One cell of APP_DBGLCDFresh: column temp0 of row temp1 is set from ptr
\* (Prio, stack usage and its running maximum, CPU usage and its running
\* maximum), printed, and ptr = ptr->DbgNextPtr.  After row 7 ptr goes
\* back to p_tcb and the next column starts; after column 5 the function
\* returns.  A failing App_LCDPend returns before the print.
FreshCell ==
  /\ pc = "fresh"
  /\ \E su \in Reads(stk), cu \in Reads(cpu) :
       /\ StackUsageMax' =
            IF temp0 = 2 /\ su > StackUsageMax[temp1]
              THEN [StackUsageMax EXCEPT ![temp1] = su] ELSE StackUsageMax
       /\ CPUUsageMax' =
            IF temp0 = 4 /\ cu > CPUUsageMax[temp1]
              THEN [CPUUsageMax EXCEPT ![temp1] = cu] ELSE CPUUsageMax
  /\ IF ~lcdOk
       THEN /\ pc' = "sleep"
            /\ UNCHANGED <<temp0, temp1, ptr, wild>>
       ELSE /\ wild' = (wild \/ ~IsTcb(ptr))
            /\ IF temp1 < LCDTABLE_DBG_LINE_CNT - 1
                 THEN /\ temp1' = temp1 + 1 /\ ptr' = DbgNext(ptr)
                      /\ UNCHANGED <<pc, temp0>>
                 ELSE /\ temp1' = 1 /\ ptr' = 1
                      /\ IF temp0 < LCDTABLE_DBG_ROW_CNT - 1
                           THEN temp0' = temp0 + 1 /\ UNCHANGED pc
                           ELSE pc' = "sleep" /\ UNCHANGED temp0
  /\ UNCHANGED <<n, lcdOk, p_tcb, temp, name, stk, cpu>>

\* App_StartTask's loop: OSTimeDly(500, ...); meanwhile OS_StatTask
\* updates every task's StkUsed and CPUUsage.  Then APP_DBGLCDFresh again.
Sleep ==
  /\ pc = "sleep"
  /\ stk' \in [Tcbs -> Usages] /\ cpu' \in [Tcbs -> Usages]
  /\ EnterLoop
  /\ UNCHANGED <<n, lcdOk, p_tcb, temp, name, StackUsageMax, CPUUsageMax,
                 wild>>

Next == InitTitles \/ InitTable \/ InitName \/ InitCount \/ FreshCell \/ Sleep

Spec == Init /\ [][Next]_vars

-----------------------------------------------------------------------------
(* Properties.                                                             *)

\* APP_DBGLCDFresh reads Prio, StkUsed, StkSize, CPUUsage and DbgNextPtr
\* only through pointers to task control blocks: its row loop follows
\* DbgNextPtr seven times per column whatever the number of tasks.
NoWildRead == ~wild

=============================================================================
