-------------------------- MODULE ManagedService --------------------------
(***************************************************************************)
(* ManagedService of src/node/src/plugin/service.rs: the lifecycle wrapper *)
(* a host shares between tasks (every method takes &self).  start() writes *)
(* started_at = Some(now) under the write lock; stop() first sends true on *)
(* its shutdown channel and then writes None under the write lock; the    *)
(* uptime query reads started_at under the read lock.  Each lock is held  *)
(* for one assignment, so a locked block is one step, and the calls of     *)
(* different callers interleave between the two steps of stop().  The     *)
(* instant itself is abstracted to Some/None.                              *)
(***************************************************************************)
CONSTANT Caller   \* tasks calling the shared ManagedService

VARIABLES
    startedAt,   \* started_at.is_some()
    shutdown,    \* the value of the shutdown watch channel
    spc          \* spc[c]: "idle", or "stopping" between send and write

msVars == <<startedAt, shutdown, spc>>

MsTypeOK ==
    /\ startedAt \in BOOLEAN /\ shutdown \in BOOLEAN
    /\ spc \in [Caller -> {"idle", "stopping"}]

(* new / wrap: watch::channel(false) and started_at = None.                *)
MsInit ==
    /\ startedAt = FALSE /\ shutdown = FALSE
    /\ spc = [c \in Caller |-> "idle"]

(* start(ctx): the context is dropped; started_at = Some(now).             *)
Start(c) ==
    /\ spc[c] = "idle"
    /\ startedAt' = TRUE
    /\ UNCHANGED <<shutdown, spc>>

(* stop(), first step: shutdown_tx.send(true); the struct keeps a receiver *)
(* of its own, so the value is always stored.                               *)
StopSignal(c) ==
    /\ spc[c] = "idle"
    /\ shutdown' = TRUE /\ spc' = [spc EXCEPT ![c] = "stopping"]
    /\ UNCHANGED startedAt

(* stop(), second step: started_at = None under the write lock.           *)
StopClear(c) ==
    /\ spc[c] = "stopping"
    /\ startedAt' = FALSE /\ spc' = [spc EXCEPT ![c] = "idle"]
    /\ UNCHANGED shutdown

MsNext == \E c \in Caller : Start(c) \/ StopSignal(c) \/ StopClear(c)
=============================================================================
