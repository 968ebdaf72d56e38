------------------------------- MODULE EthTask -------------------------------
(***************************************************************************)
(* App_EthTask of src/User/Src/app.c: a TCP client loop over lwIP's netconn *)
(* API.  lwIP is the environment.  netconn_new takes a netconn from the    *)
(* MEMP_NETCONN pool, or returns NULL when the pool is empty.  A call that *)
(* can fail (connect, recv, delete) returns an arbitrary outcome, and a    *)
(* received netbuf comes from the netbuf pool.  netconn_delete frees the   *)
(* netconn only when it returns ERR_OK, and netconn_delete(NULL) returns   *)
(* ERR_OK.                                                                 *)
(*                                                                         *)
(* The task reads conn->state, a field the tcpip thread writes, without    *)
(* synchronisation; the value it sees is either state.                     *)
(***************************************************************************)
EXTENDS Naturals, FiniteSets

CONSTANTS Conns,   \* the MEMP_NETCONN pool
          Bufs,    \* the netbuf pool
          NULL

ASSUME NULL \notin Conns \cup Bufs

VARIABLES
  pc,        \* "start", "loop", "recv" or "write"
  conn,      \* the task's struct netconn pointer
  data,      \* the netbuf whose payload `data` points into, or NULL
  liveConns, \* netconns allocated and not yet freed
  liveBufs   \* netbufs allocated and not yet freed

vars == <<pc, conn, data, liveConns, liveBufs>>

TypeOK ==
  /\ pc \in {"start", "loop", "recv", "write"}
  /\ conn \in Conns \cup {NULL}
  /\ data \in Bufs \cup {NULL}
  /\ liveConns \subseteq Conns
  /\ liveBufs \subseteq Bufs

Init ==
  /\ pc = "start"
  /\ conn = NULL
  /\ data = NULL
  /\ liveConns = {}
  /\ liveBufs = {}

\* netconn_delete(c) returned ERR_OK: c is freed and conn is set to NULL.
\* Any other return leaves c allocated and conn pointing to it.
Delete(c) ==
  \/ /\ conn' = NULL
     /\ liveConns' = liveConns \ {c}
  \/ /\ c # NULL
     /\ UNCHANGED <<conn, liveConns>>

\* IP4_ADDR(&server_ip, ...) and LWIP_NETIFInit(), before the loop.
Start ==
  /\ pc = "start"
  /\ pc' = "loop"
  /\ UNCHANGED <<conn, data, liveConns, liveBufs>>

\* conn == NULL: netconn_new, then netconn_connect.  On failure the conn
\* is deleted and the task sleeps 500 ticks before the next iteration; on
\* success SOF_KEEPALIVE is set and the task goes on to receive.
Connect ==
  /\ pc = "loop" /\ conn = NULL
  /\ \E c \in (Conns \ liveConns) \cup {NULL} :
       /\ (c = NULL) = (liveConns = Conns)
       /\ \/ /\ c # NULL
             /\ conn' = c
             /\ liveConns' = liveConns \cup {c}
             /\ pc' = "recv"
          \/ /\ pc' = "loop"
             /\ \/ /\ c = NULL
                   /\ UNCHANGED <<conn, liveConns>>
                \/ /\ c # NULL  \* netconn_delete(c) returned ERR_OK
                   /\ UNCHANGED <<conn, liveConns>>
                \/ /\ c # NULL  \* it failed: conn keeps c
                   /\ conn' = c
                   /\ liveConns' = liveConns \cup {c}
  /\ UNCHANGED <<data, liveBufs>>

\* conn != NULL: a conn in state NETCONN_CLOSE is deleted and the loop
\* starts over; in any other state the task goes on to receive.
CheckState ==
  /\ pc = "loop" /\ conn # NULL
  /\ \/ /\ Delete(conn)
        /\ pc' = "loop"
     \/ /\ pc' = "recv"
        /\ UNCHANGED <<conn, liveConns>>
  /\ UNCHANGED <<data, liveBufs>>

\* netconn_recv: ERR_OK gives a netbuf; netbuf_data points data into it
\* (it cannot fail on a received netbuf) and netbuf_delete frees it before
\* the write.  Any error deletes the connection.
Recv ==
  /\ pc = "recv"
  /\ \/ \E b \in Bufs \ liveBufs :
          /\ data' = b
          /\ pc' = "write"
          /\ UNCHANGED <<conn, liveConns, liveBufs>>
     \/ /\ Delete(conn)
        /\ pc' = "loop"
        /\ UNCHANGED <<data, liveBufs>>

\* netconn_write(conn, data, data_len, NETCONN_COPY) copies from data; its
\* result is ignored.
Write ==
  /\ pc = "write"
  /\ pc' = "loop"
  /\ data' = NULL
  /\ UNCHANGED <<conn, liveConns, liveBufs>>

Next == Start \/ Connect \/ CheckState \/ Recv \/ Write

Spec == Init /\ [][Next]_vars

-----------------------------------------------------------------------------
(* Properties.                                                             *)

\* netconn_write reads its data from a netbuf that is still allocated:
\* App_EthTask calls netbuf_delete(buf) and then netconn_write(conn, data,
\* ...) with data pointing into that netbuf's pbuf.
WriteDataLive == pc = "write" => data \in liveBufs

=============================================================================
