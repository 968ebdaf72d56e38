------------------------------- MODULE MCDbgLCD -------------------------------
(* An instance of DbgLCD for TLC: the names lwIP's start-up passes to      *)
(* sys_thread_new.                                                         *)
EXTENDS DbgLCD

CONSTANTS tcpip_thread

\* LWIP_TCPIPInit starts the tcpip thread through sys_thread_new.
SpawnsStartup == {<<tcpip_thread>>}
===============================================================================
