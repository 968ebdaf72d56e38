--------------------------- MODULE SysArchHandles ---------------------------
(***************************************************************************)
(* Creation and teardown of lwIP's mutex, semaphore and mailbox handles in *)
(* src/Lwip-2.1.2/arch/sys_arch.c.  sys_mutex_t is an OS_MUTEX, sys_sem_t  *)
(* an OS_SEM, and sys_mbox_t holds an OS_SEM msg_sem and an OS_Q           *)
(* msg_queen.  They are embedded in lwIP's own structures (a netconn from  *)
(* a memp pool), so a handle is a storage location that lwIP reuses once   *)
(* it frees the structure.                                                 *)
(*                                                                         *)
(* lwIP (the environment) creates a handle, and tears it down with sys.h's *)
(* guarded idiom                                                           *)
(*     if (sys_X_valid(&h)) { sys_X_free(&h); sys_X_set_invalid(&h); }     *)
(* on every path that may own it (netconn_drain, netconn_free, the error   *)
(* paths), so the idiom can run more than once on one handle; then it      *)
(* frees the storage, which a later create reuses.  The port defines no    *)
(* sys_mutex_valid, so lwIP frees a mutex once, unguarded.  lwIP frees a   *)
(* handle only when no task is blocked on it (spec 4.4), so the delete     *)
(* calls never meet a pending task.                                        *)
(*                                                                         *)
(* uC/OS-III semantics used: the Create calls initialise the object        *)
(* whatever it held; OSQCreate with size 0 fails (OS_ERR_Q_SIZE); the Del  *)
(* calls delete an object with no pending task, and report an error for    *)
(* one already deleted.  A failed LWIP_ASSERT only reports.                *)
(***************************************************************************)
EXTENDS Naturals

CONSTANTS Sizes   \* the mailbox sizes lwIP passes to sys_mbox_new

Objs == {"mutex", "sem", "msg_sem", "msg_queen"}  \* kernel objects in storage
Handles == {"mutex", "sem", "mbox"}                 \* lwIP's kinds of handle

ASSUME Sizes \subseteq Nat

VARIABLES
  live,     \* live[o]: kernel object o is created and not deleted
  lw,       \* lw[h]: "unused", "created" (new returned ERR_OK) or "freed"
  misuse    \* the adapter created over a live object or deleted a dead one

vars == <<live, lw, misuse>>

TypeOK ==
  /\ live \in [Objs -> BOOLEAN]
  /\ lw \in [Handles -> {"unused", "created", "freed"}]
  /\ misuse \in BOOLEAN

Init ==
  /\ live = [o \in Objs |-> FALSE]
  /\ lw = [h \in Handles |-> "unused"]
  /\ misuse = FALSE

\* sys_sem_valid and sys_mbox_valid compare the handle's address with NULL;
\* the address of a handle embedded in a structure is never NULL.
sys_sem_valid == TRUE
sys_mbox_valid == TRUE

\* sys_sem_set_invalid and sys_mbox_set_invalid assign NULL to their own
\* parameter, which nothing reads afterwards: no state changes.
sys_sem_set_invalid == TRUE
sys_mbox_set_invalid == TRUE

-----------------------------------------------------------------------------

\* sys_sem_new: OSSemCreate on the storage, which always succeeds from a
\* task with a count of 0 or 1.
SemNew ==
  /\ lw["sem"] = "unused"
  /\ misuse' = (misuse \/ live["sem"])
  /\ live' = [live EXCEPT !["sem"] = TRUE]
  /\ lw' = [lw EXCEPT !["sem"] = "created"]

\* OSSemDel or OSMutexDel with OS_OPT_DEL_NO_PEND on object o, which no
\* task pends on: the object is deleted (an error if it already was).
DelNoPend(o) ==
  /\ misuse' = (misuse \/ ~live[o])
  /\ live' = [live EXCEPT ![o] = FALSE]
  /\ lw' = [lw EXCEPT ![o] = "freed"]

\* The guarded idiom over sys_sem_free, then sys_sem_set_invalid.
SemTeardown ==
  /\ lw["sem"] # "unused" /\ sys_sem_valid
  /\ DelNoPend("sem")
  /\ sys_sem_set_invalid

\* sys_mutex_new: OSMutexCreate on the storage.
MutexNew ==
  /\ lw["mutex"] = "unused"
  /\ misuse' = (misuse \/ live["mutex"])
  /\ live' = [live EXCEPT !["mutex"] = TRUE]
  /\ lw' = [lw EXCEPT !["mutex"] = "created"]

\* sys_mutex_free: OSMutexDel(OS_OPT_DEL_NO_PEND), called once.
MutexFree ==
  /\ lw["mutex"] = "created"
  /\ DelNoPend("mutex")

\* sys_mbox_new(mbox, size): OSQCreate then OSSemCreate, both on the
\* storage; ERR_MEM when OSQCreate failed, and lwIP then frees the storage
\* without sys_mbox_free.
MboxNew ==
  /\ lw["mbox"] = "unused"
  /\ \E size \in Sizes :
       LET qOk == size > 0 IN
       /\ misuse' = (misuse \/ (qOk /\ live["msg_queen"]) \/ live["msg_sem"])
       /\ live' = [live EXCEPT !["msg_queen"] = @ \/ qOk, !["msg_sem"] = TRUE]
       /\ lw' = [lw EXCEPT !["mbox"] = IF qOk THEN "created" ELSE "unused"]

\* The guarded idiom over sys_mbox_free: OSSemDel and OSQDel with
\* OS_OPT_DEL_ALWAYS (pending posters and fetchers are readied); then
\* sys_mbox_set_invalid.
MboxTeardown ==
  /\ lw["mbox"] # "unused" /\ sys_mbox_valid
  /\ misuse' = (misuse \/ ~live["msg_sem"] \/ ~live["msg_queen"])
  /\ live' = [live EXCEPT !["msg_sem"] = FALSE, !["msg_queen"] = FALSE]
  /\ lw' = [lw EXCEPT !["mbox"] = "freed"]
  /\ sys_mbox_set_invalid

\* lwIP frees the structure holding a torn-down handle; the storage can be
\* handed out again.
Release(h) ==
  /\ lw[h] = "freed"
  /\ lw' = [lw EXCEPT ![h] = "unused"]
  /\ UNCHANGED <<live, misuse>>

Next ==
  \/ MutexNew \/ MutexFree \/ SemNew \/ SemTeardown
  \/ MboxNew \/ MboxTeardown
  \/ \E h \in Handles : Release(h)

Spec == Init /\ [][Next]_vars

-----------------------------------------------------------------------------
(* Properties.                                                             *)

\* The handle lifecycle keeps lwIP and the kernel in step (sys.h: after
\* sys_X_set_invalid, sys_X_valid returns 0; spec 4.3): the adapter never
\* deletes a kernel object that is already deleted, nor creates one over an
\* object that is still live.
HandlesInStep == ~misuse

=============================================================================
