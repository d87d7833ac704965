------------------------- MODULE AdmissionPipeline -------------------------
(***************************************************************************)
(* The whole admission path of spec.md section 2 over the components of    *)
(* src/node/src/network/security.rs: an inbound attempt from an address    *)
(* goes, in order, through GlobalConnectionRateLimiter                     *)
(* (record_new_connection), ConnectionRateLimiter (can_attempt and, when   *)
(* it passes, record_attempt), and then the tracker stages of Admission.   *)
(* Any rejection drops the attempt.  The two limiters read one clock.      *)
(* Every call is one atomic step on its own structure, as in Admission:    *)
(* the calls of different attempts interleave with each other, with the   *)
(* clock and with the caller's record_failure, record_success and cleanup  *)
(* calls, which it may make at any time for any address.                   *)
(***************************************************************************)
EXTENDS Admission

CONSTANTS
    MaxPerWindow, WindowDuration,                      \* the global limiter
    BaseDelay, MaxDelay, MaxFailures, MaxAges,         \* the per-IP limiter
    FailureBound,                                      \* bound on a failure count
    MaxTime                                            \* bound on the clock

VARIABLES
    connection_times, result, admitted,  \* GlobalRateLimiter
    attempts, banned,                    \* ConnectionRateLimiter
    now,                                 \* the clock both limiters read
    gated                                \* the attempts that passed the global
                                         \* limiter and wait for the per-IP one

G == INSTANCE GlobalRateLimiter
R == INSTANCE ConnectionRateLimiter

ASSUME GateAssumption == G!GlobalAssumption /\ R!LimiterAssumption

pipeVars == <<vars, connection_times, result, admitted, attempts, banned, now, gated>>

PipelineTypeOK ==
    /\ TypeOK /\ G!TypeOK /\ R!TypeOK
    /\ gated \subseteq Conn
    /\ \A c \in gated : pc[c] = "idle"

PipelineInit == Init /\ G!Init /\ R!Init /\ gated = {}

(* A gate that takes the handle of a connection still in the pipeline.    *)
GlobalGateAnyHandle(c, ip) ==
    /\ c \notin gated
    /\ G!RecordNewConnection
    /\ IF result' = "admitted"
       THEN gated' = gated \cup {c} /\ peer' = [peer EXCEPT ![c] = ip]
       ELSE UNCHANGED <<gated, peer>>
    /\ UNCHANGED <<sub24, sub16, total, pc, attempts, banned>>

(* An attempt from ip on a free handle: record_new_connection.  Admitted,  *)
(* it goes on to the per-IP limiter; rejected, it is dropped.             *)
GlobalGate(c, ip) ==
    /\ pc[c] = "idle" /\ c \notin gated
    /\ G!RecordNewConnection
    /\ IF result' = "admitted"
       THEN gated' = gated \cup {c} /\ peer' = [peer EXCEPT ![c] = ip]
       ELSE UNCHANGED <<gated, peer>>
    /\ UNCHANGED <<sub24, sub16, total, pc, attempts, banned>>

(* can_attempt(ip): a passing attempt is stamped with record_attempt and   *)
(* reaches the trackers; a blocked one is dropped.                         *)
PerIpGate(c) ==
    /\ c \in gated
    /\ gated' = gated \ {c}
    /\ IF R!CanAttempt(peer[c])
       THEN IncomingConnection(c, peer[c]) /\ R!RecordAttempt(peer[c])
       ELSE UNCHANGED <<vars, attempts, banned>>
    /\ UNCHANGED <<connection_times, result, admitted, now>>

(* A tracker step of Admission: the limiters are not involved.            *)
TrackerStep(c) ==
    /\ \/ AddSubnet24(c) \/ AddSubnet16(c) \/ AddTotal(c)
       \/ RemoveSubnet24(c) \/ RemoveSubnet16(c) \/ RemoveTotal(c)
    /\ UNCHANGED <<connection_times, result, admitted, attempts, banned, now, gated>>

(* The caller's other per-IP calls: the handshake's outcome and the        *)
(* periodic sweep.                                                          *)
LimiterCall ==
    /\ \/ \E ip \in IP : R!RecordFailure(ip) \/ R!RecordSuccess(ip)
       \/ \E a \in MaxAges : R!Cleanup(a)
    /\ UNCHANGED <<vars, connection_times, result, admitted, gated>>

(* One tick of the clock both limiters read.                               *)
Tick ==
    /\ G!Tick /\ R!Tick
    /\ UNCHANGED <<vars, gated>>

PipelineNext ==
    \/ \E c \in Conn :
          \/ \E ip \in IP : GlobalGate(c, ip)
          \/ PerIpGate(c)
          \/ TrackerStep(c)
    \/ LimiterCall
    \/ Tick

PipelineSpec == PipelineInit /\ [][PipelineNext]_pipeVars

-----------------------------------------------------------------------------
(* The limiters' properties, stated on the composed system: the sliding   *)
(* window admits at most max_per_window attempts in any window, ...        *)
WindowCap == G!WindowCap

(* ... rejects only when the window ending now is full, ...               *)
NoSpuriousRejection == G!NoSpuriousRejection

(* ... keeps at most max_per_window timestamps, ...                       *)
BoundedTimes == G!BoundedTimes

(* ... and its queries report that window truthfully, ...                  *)
CapacityAdvice == G!CapacityAdvice

(* ... the per-IP gate lets an address through only after the spec's      *)
(* backoff delay for its failure count, and ...                            *)
BackoffRespected == R!BackoffRespected

(* ... time_until_allowed agrees with the gate and with the spec's delay.  *)
WaitAdvice == R!WaitAdvice
=============================================================================
