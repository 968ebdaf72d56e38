\* The kernel runs the idle task, and the statistic and timer tasks when it
\* enables them.  LWIP_TCPIPInit starts tcpip_thread through sys_thread_new
\* and the ethrx thread directly, so the list holds 5 to 7 tasks.  The walk
\* does not depend on the statistics, so one usage value is enough.
CONSTANTS
  tcpip_thread = tcpip_thread
  KernelTasks = {1, 2, 3}
  Spawns <- SpawnsStartup
  TcpipNames = {tcpip_thread}
  GlueTasks = {1}
  Usages = {0}
SPECIFICATION Spec
INVARIANT NoWildRead
