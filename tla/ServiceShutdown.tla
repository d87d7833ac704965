--------------------------- MODULE ServiceShutdown ---------------------------
(***************************************************************************)
(* ServiceContext::wait_for_shutdown of src/node/src/plugin/service.rs,    *)
(* against the tokio watch channel whose receiver the host handed to the   *)
(* context with with_shutdown_signal.  The channel holds a value and a     *)
(* version that every send bumps; a receiver remembers the version it has  *)
(* seen.  rx.changed() returns Ok (marking the version seen) when there is *)
(* an unseen version, even after the sender is gone; Err when the sender  *)
(* is gone and nothing is unseen; otherwise it sleeps.  The host keeps a  *)
(* receiver of its own, so a send always stores its value.                 *)
(***************************************************************************)
EXTENDS Naturals

CONSTANTS
    Signals,   \* whether the context has a shutdown receiver: subsets of BOOLEAN
    MaxSends   \* bound on the host's sends

ASSUME ShutdownAssumption == Signals \subseteq BOOLEAN /\ Signals /= {} /\ MaxSends \in Nat

VARIABLES
    value,        \* the channel's current value (true: shutdown requested)
    version,      \* the channel's version
    senderAlive,  \* the host still holds the watch::Sender
    hasRx,        \* shutdown_rx.is_some()
    seen,         \* the version the context's receiver has seen
    wpc,          \* "none" (no context yet), "idle", "check", "await", "done"
    retVal        \* history: the value *rx.borrow() read when the wait returned

vars == <<value, version, senderAlive, hasRx, seen, wpc, retVal>>

TypeOK ==
    /\ value \in BOOLEAN /\ version \in 0..MaxSends /\ senderAlive \in BOOLEAN
    /\ hasRx \in BOOLEAN /\ seen \in 0..MaxSends
    /\ wpc \in {"none", "idle", "check", "await", "done"}
    /\ retVal \in BOOLEAN

(* watch::channel(false): the host creates the channel.                    *)
Init ==
    /\ value = FALSE /\ version = 0 /\ senderAlive = TRUE
    /\ hasRx \in Signals /\ seen = 0
    /\ wpc = "none" /\ retVal = FALSE

(* The host sends a value: tx.send(v).                                     *)
Send(v) ==
    /\ senderAlive
    /\ version < MaxSends
    /\ value' = v /\ version' = version + 1
    /\ UNCHANGED <<senderAlive, hasRx, seen, wpc, retVal>>

(* The host drops its sender.                                              *)
DropSender ==
    /\ senderAlive
    /\ senderAlive' = FALSE
    /\ UNCHANGED <<value, version, hasRx, seen, wpc, retVal>>

(* ServiceContext::new(..).with_shutdown_signal(tx.subscribe()): the new   *)
(* receiver has seen the current version.                                  *)
Attach ==
    /\ wpc = "none"
    /\ wpc' = "idle" /\ seen' = version
    /\ UNCHANGED <<value, version, senderAlive, hasRx, retVal>>

(* A wait that starts by awaiting changed() before it reads the value.     *)
WaitBeginAwaitFirst ==
    /\ wpc = "idle"
    /\ wpc' = IF hasRx THEN "await" ELSE "done"
    /\ UNCHANGED <<value, version, senderAlive, hasRx, seen, retVal>>

(* wait_for_shutdown: with no receiver it returns at once.                 *)
WaitBegin ==
    /\ wpc = "idle"
    /\ wpc' = IF hasRx THEN "check" ELSE "done"
    /\ UNCHANGED <<value, version, senderAlive, hasRx, seen, retVal>>

(* while !*rx.borrow(): a true value ends the loop.                         *)
Check ==
    /\ wpc = "check"
    /\ wpc' = IF value THEN "done" ELSE "await"
    /\ retVal' = value
    /\ UNCHANGED <<value, version, senderAlive, hasRx, seen>>

(* A wait that returns after the first changed() instead of looping.      *)
ChangedReturns ==
    /\ wpc = "await"
    /\ version /= seen
    /\ seen' = version /\ wpc' = "done" /\ retVal' = value
    /\ UNCHANGED <<value, version, senderAlive, hasRx>>

(* let _ = rx.changed().await returning Ok: an unseen version.             *)
Changed ==
    /\ wpc = "await"
    /\ version /= seen
    /\ seen' = version /\ wpc' = "check"
    /\ UNCHANGED <<value, version, senderAlive, hasRx, retVal>>

(* rx.changed() returning Err once the sender is gone; the result is       *)
(* discarded and the loop reads the value again.                           *)
ChangedErr ==
    /\ wpc = "await"
    /\ version = seen /\ ~senderAlive
    /\ wpc' = "check"
    /\ UNCHANGED <<value, version, senderAlive, hasRx, seen, retVal>>

Host == (\E v \in BOOLEAN : Send(v)) \/ DropSender

Waiter == Attach \/ WaitBegin \/ Check \/ Changed \/ ChangedErr

Next == Host \/ Waiter

(* The waiting task is scheduled whenever it is runnable (tokio runs every *)
(* woken task); the host is under no obligation to send or drop.          *)
Spec == Init /\ [][Next]_vars /\ WF_vars(Waiter)

-----------------------------------------------------------------------------
(* The receiver can wake: changed() would return rather than sleep.        *)
CanWake == version /= seen \/ ~senderAlive

(* wait_for_shutdown on a context with a shutdown signal returns only when *)
(* it has read shutdown = true, whatever the host sent before and after.   *)
ReturnsOnShutdown == (wpc = "done" /\ hasRx) => retVal

(* A shutdown request is noticed: while the value stays true, a waiting    *)
(* wait_for_shutdown eventually returns.                                   *)
ShutdownNoticed == (value /\ wpc \in {"check", "await"}) ~> (wpc = "done" \/ ~value)

(* wait_for_shutdown eventually either returns or sleeps in changed(): it  *)
(* does not keep running without a new value to read.                      *)
WaitSettles == <>[](wpc \in {"none", "idle", "done"} \/ (wpc = "await" /\ ~CanWake))
=============================================================================
