---------------------------- MODULE TrackedAction ----------------------------
(***************************************************************************)
(* TrackedAction of src/node/src/plugin/action.rs: usage statistics kept   *)
(* in three counters, each behind its own tokio RwLock.  execute_tracked   *)
(* runs the inner action and then takes the locks one after the other:     *)
(* execution_count, total_duration_ms and, on an error, error_count.       *)
(* stats() reads the three under separate read locks.  Each locked block   *)
(* is one atomic step; the tasks (Task) and the stats callers (Reader)     *)
(* interleave between blocks.  The action's output and the context are     *)
(* left out: only the outcome (Ok or Err) and the duration matter here.    *)
(***************************************************************************)
EXTENDS Naturals, FiniteSets

CONSTANTS
    Task,       \* concurrent execute_tracked calls (model values)
    Reader,     \* concurrent stats() calls (model values)
    Durations,  \* the durations in ms an execution may take
    MaxExec     \* bound on execution_count

ASSUME TrackedAssumption ==
    IsFiniteSet(Task) /\ Durations \subseteq Nat /\ MaxExec \in Nat

VARIABLES
    execution_count, total_duration_ms, error_count,
    tpc,      \* tpc[t]: the next locked block task t runs
    failed,   \* failed[t]: the inner execute returned Err
    dur,      \* dur[t]: the duration of task t's execution
    rpc,      \* rpc[r]: the next read of stats caller r
    snap      \* snap[r]: the values r has read so far

vars == <<execution_count, total_duration_ms, error_count, tpc, failed, dur, rpc, snap>>

TaskStage == {"idle", "count", "total", "errors"}
ReaderStage == {"idle", "total", "errors", "ret"}

TypeOK ==
    /\ execution_count \in Nat /\ total_duration_ms \in Nat /\ error_count \in Nat
    /\ tpc \in [Task -> TaskStage]
    /\ failed \in [Task -> BOOLEAN]
    /\ dur \in [Task -> Durations \cup {0}]
    /\ rpc \in [Reader -> ReaderStage]
    /\ snap \in [Reader -> [count : Nat, total : Nat, errors : Nat]]

Init ==
    /\ execution_count = 0 /\ total_duration_ms = 0 /\ error_count = 0
    /\ tpc = [t \in Task |-> "idle"]
    /\ failed = [t \in Task |-> FALSE]
    /\ dur = [t \in Task |-> 0]
    /\ rpc = [r \in Reader |-> "idle"]
    /\ snap = [r \in Reader |-> [count |-> 0, total |-> 0, errors |-> 0]]

(* execute_tracked: the inner action runs to completion with an outcome   *)
(* and a duration; the statistics are updated afterwards.                 *)
Execute(t, err, d) ==
    /\ tpc[t] = "idle"
    /\ execution_count < MaxExec
    /\ tpc' = [tpc EXCEPT ![t] = "count"]
    /\ failed' = [failed EXCEPT ![t] = err]
    /\ dur' = [dur EXCEPT ![t] = d]
    /\ UNCHANGED <<execution_count, total_duration_ms, error_count, rpc, snap>>

(* A count update that only counts successful executions.                 *)
IncCountOnSuccess(t) ==
    /\ tpc[t] = "count"
    /\ execution_count' = IF failed[t] THEN execution_count ELSE execution_count + 1
    /\ tpc' = [tpc EXCEPT ![t] = "total"]
    /\ UNCHANGED <<total_duration_ms, error_count, failed, dur, rpc, snap>>

(* *count += 1 under the execution_count write lock.                      *)
IncCount(t) ==
    /\ tpc[t] = "count"
    /\ execution_count' = execution_count + 1
    /\ tpc' = [tpc EXCEPT ![t] = "total"]
    /\ UNCHANGED <<total_duration_ms, error_count, failed, dur, rpc, snap>>

(* *total += duration; then the error block runs only for an Err result.  *)
IncTotal(t) ==
    /\ tpc[t] = "total"
    /\ total_duration_ms' = total_duration_ms + dur[t]
    /\ tpc' = [tpc EXCEPT ![t] = IF failed[t] THEN "errors" ELSE "idle"]
    /\ UNCHANGED <<execution_count, error_count, failed, dur, rpc, snap>>

(* *errors += 1 under the error_count write lock; the result is returned. *)
IncErrors(t) ==
    /\ tpc[t] = "errors"
    /\ error_count' = error_count + 1
    /\ tpc' = [tpc EXCEPT ![t] = "idle"]
    /\ UNCHANGED <<execution_count, total_duration_ms, failed, dur, rpc, snap>>

(* stats(): the three reads, each under its own read lock.                *)
ReadCount(r) ==
    /\ rpc[r] = "idle"
    /\ snap' = [snap EXCEPT ![r].count = execution_count]
    /\ rpc' = [rpc EXCEPT ![r] = "total"]
    /\ UNCHANGED <<execution_count, total_duration_ms, error_count, tpc, failed, dur>>

ReadTotal(r) ==
    /\ rpc[r] = "total"
    /\ snap' = [snap EXCEPT ![r].total = total_duration_ms]
    /\ rpc' = [rpc EXCEPT ![r] = "errors"]
    /\ UNCHANGED <<execution_count, total_duration_ms, error_count, tpc, failed, dur>>

ReadErrors(r) ==
    /\ rpc[r] = "errors"
    /\ snap' = [snap EXCEPT ![r].errors = error_count]
    /\ rpc' = [rpc EXCEPT ![r] = "ret"]
    /\ UNCHANGED <<execution_count, total_duration_ms, error_count, tpc, failed, dur>>

(* stats() builds ActionStats from its snapshot and returns.              *)
ReturnStats(r) ==
    /\ rpc[r] = "ret"
    /\ rpc' = [rpc EXCEPT ![r] = "idle"]
    /\ UNCHANGED <<execution_count, total_duration_ms, error_count, tpc, failed, dur, snap>>

Next ==
    \/ \E t \in Task :
         \/ \E err \in BOOLEAN, d \in Durations : Execute(t, err, d)
         \/ IncCount(t) \/ IncTotal(t) \/ IncErrors(t)
    \/ \E r \in Reader : ReadCount(r) \/ ReadTotal(r) \/ ReadErrors(r) \/ ReturnStats(r)

Spec == Init /\ [][Next]_vars

-----------------------------------------------------------------------------
(* The executions that have passed the count block but not yet the error  *)
(* block, and will add an error.                                           *)
PendingErrors == {t \in Task : failed[t] /\ tpc[t] \in {"total", "errors"}}

(* The shared counters agree with each other: every failed execution was   *)
(* counted before its error was, whatever the interleaving of concurrent  *)
(* execute_tracked calls, so error_count never exceeds execution_count.   *)
ErrorsWithinExecutions == error_count <= execution_count

(* The inductive form: the errors still to be added fit as well.          *)
CountsCover ==
    /\ TypeOK
    /\ \A t \in Task : tpc[t] = "errors" => failed[t]
    /\ error_count + Cardinality(PendingErrors) <= execution_count

(* stats() computes execution_count - error_count as u64 (action.rs)    *)
(* when the execution_count it read is positive: the values it read must  *)
(* then satisfy errors <= count, or the subtraction underflows (a panic in *)
(* a debug build, a wrapped success_rate in a release build).             *)
StatsNoUnderflow ==
    \A r \in Reader :
        (rpc[r] = "ret" /\ snap[r].count > 0) => snap[r].errors <= snap[r].count
=============================================================================
