-------------------------- MODULE GlobalRateLimiter --------------------------
(***************************************************************************)
(* GlobalConnectionRateLimiter of src/node/src/network/security.rs: the    *)
(* sliding-window cap on new connections from all addresses (spec.md      *)
(* 4.3).  Time is the tick counter now; Instant::now() is now and          *)
(* now.duration_since(t) is now - t.  record_new_connection reads the      *)
(* clock twice (in cleanup_expired and for the push); both reads fall in   *)
(* the same tick here.                                                     *)
(*                                                                         *)
(* The code only ever filters, counts and pushes the Vec, so its order     *)
(* never matters.  connection_times is therefore the set of the admissions *)
(* the Vec holds, each named by its position in the history admitted,      *)
(* whose entry is the Instant pushed for it.                               *)
(***************************************************************************)
EXTENDS Naturals, Sequences, FiniteSets

CONSTANTS
    MaxPerWindow,    \* max_per_window
    WindowDuration,  \* window_duration, in ticks
    MaxTime          \* bound on now (the model's clock)

(* The values of the constants the code can be configured with; the     *)
(* modules that run this one assume it.                                   *)
GlobalAssumption ==
    /\ MaxPerWindow \in Nat
    /\ WindowDuration \in Nat \ {0}
    /\ MaxTime \in Nat

VARIABLES
    connection_times,  \* Vec<Instant>: the admissions it holds
    now,               \* Instant::now()
    result,            \* what record_new_connection last returned in this tick
    admitted           \* the times of all admissions so far, in order

vars == <<connection_times, now, result, admitted>>

TypeOK ==
    /\ admitted \in Seq(0..MaxTime)
    /\ connection_times \subseteq 1..Len(admitted)
    /\ now \in 0..MaxTime
    /\ result \in {"none", "admitted", "rejected"}

Init ==
    /\ connection_times = {}
    /\ now = 0
    /\ result = "none"
    /\ admitted = << >>

(* A window test that expires a timestamp one tick early.                 *)
InWindowShort(t) == now - t + 1 < WindowDuration

(* now.duration_since(t) < window_duration                                 *)
InWindow(t) == now - t < WindowDuration

(* cleanup_expired: retain the timestamps still inside the window.        *)
Pruned == {k \in connection_times : InWindow(admitted[k])}

(* can_accept_new_connection: count the timestamps in the window without  *)
(* pruning.                                                                *)
CanAcceptNewConnection ==
    Cardinality({k \in connection_times : InWindow(admitted[k])}) < MaxPerWindow

(* A current_count that counts the stored timestamps, expired or not.     *)
CurrentCountStale == Cardinality(connection_times)

(* current_count: the stored timestamps still inside the window.          *)
CurrentCount == Cardinality({k \in connection_times : InWindow(admitted[k])})

(* remaining_capacity: max_per_window.saturating_sub(current_count()).    *)
RemainingCapacity ==
    IF MaxPerWindow > CurrentCount THEN MaxPerWindow - CurrentCount ELSE 0

(* A record_new_connection that checks the limit before pruning.          *)
RecordNewConnectionLate ==
    /\ IF Cardinality(connection_times) >= MaxPerWindow
       THEN /\ connection_times' = Pruned
            /\ result' = "rejected"
            /\ UNCHANGED admitted
       ELSE /\ connection_times' = Pruned \cup {Len(admitted) + 1}
            /\ result' = "admitted"
            /\ admitted' = Append(admitted, now)
    /\ UNCHANGED now

(* A record_new_connection that lets one connection past the limit.      *)
RecordNewConnectionOffByOne ==
    /\ IF Cardinality(Pruned) > MaxPerWindow
       THEN /\ connection_times' = Pruned
            /\ result' = "rejected"
            /\ UNCHANGED admitted
       ELSE /\ connection_times' = Pruned \cup {Len(admitted) + 1}
            /\ result' = "admitted"
            /\ admitted' = Append(admitted, now)
    /\ UNCHANGED now

(* record_new_connection: prune, then reject when the window is full,      *)
(* else push now and admit.  The pruning is kept on rejection as well.    *)
RecordNewConnection ==
    /\ IF Cardinality(Pruned) >= MaxPerWindow
       THEN /\ connection_times' = Pruned
            /\ result' = "rejected"
            /\ UNCHANGED admitted
       ELSE /\ connection_times' = Pruned \cup {Len(admitted) + 1}
            /\ result' = "admitted"
            /\ admitted' = Append(admitted, now)
    /\ UNCHANGED now

(* Time passes; no call has returned yet at the new instant.              *)
Tick ==
    /\ now < MaxTime
    /\ now' = now + 1
    /\ result' = "none"
    /\ UNCHANGED <<connection_times, admitted>>

Next == RecordNewConnection \/ Tick

Spec == Init /\ [][Next]_vars

-----------------------------------------------------------------------------
(* The number of admissions at times in the window (t - window, t].       *)
AdmittedIn(t) ==
    Cardinality({k \in 1..Len(admitted) :
                    t - admitted[k] < WindowDuration /\ admitted[k] <= t})

(* Sliding window (spec.md 4.3, 8): in no window of window_duration ticks *)
(* ending at any time up to now were more than max_per_window connections *)
(* admitted, however the calls and the clock interleave.                  *)
WindowCap == \A t \in 0..now : AdmittedIn(t) <= MaxPerWindow

(* The window is exact, not a fixed bucket (spec.md 4.3, 8): a rejection  *)
(* happens only when max_per_window admissions already lie in the window  *)
(* ending now.                                                             *)
NoSpuriousRejection == result = "rejected" => AdmittedIn(now) >= MaxPerWindow

(* The read-only queries tell the truth about the sliding window (spec.md *)
(* 4.3): remaining_capacity is what is left of max_per_window after the   *)
(* admissions of the window ending now, and can_accept_new_connection    *)
(* holds exactly when that is positive, so a pre-flight agrees with what  *)
(* record_new_connection would do at the same instant.                    *)
CapacityAdvice ==
    /\ RemainingCapacity = MaxPerWindow - AdmittedIn(now)
    /\ CanAcceptNewConnection <=> RemainingCapacity > 0

(* Memory bound: the timestamp vector never holds more than               *)
(* max_per_window entries, however long the node runs.                    *)
BoundedTimes == Cardinality(connection_times) <= MaxPerWindow
=============================================================================
