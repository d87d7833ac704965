------------------------ MODULE ConnectionRateLimiter ------------------------
(***************************************************************************)
(* ConnectionRateLimiter of src/node/src/network/security.rs: the per-IP   *)
(* exponential-backoff gate (spec.md 4.2).  Time is a tick counter now;    *)
(* Instant::now() is now and last_attempt.elapsed() is now - last.  The    *)
(* caller (the network manager) may call every operation at any time, in  *)
(* any order, for any address; the limiter itself only reacts.            *)
(***************************************************************************)
EXTENDS Naturals

CONSTANTS
    IP,            \* the addresses that attempt to connect
    BaseDelay,     \* base_delay, in ticks
    MaxDelay,      \* max_delay, in ticks
    MaxFailures,   \* max_failures
    MaxAges,       \* the max_age arguments the periodic cleanup may use
    MaxTime,       \* bound on now (the model's clock)
    FailureBound   \* bound on a failure count (u32 saturation lies beyond it)

(* The values of the constants the code can be configured with; the     *)
(* modules that run this one assume it.                                   *)
LimiterAssumption ==
    /\ BaseDelay \in Nat /\ MaxDelay \in Nat /\ MaxFailures \in Nat
    /\ MaxDelay <= 2^30
    /\ MaxAges \subseteq Nat
    /\ MaxTime \in Nat /\ FailureBound \in Nat

VARIABLES
    attempts,  \* HashMap<IpAddr, (Instant, u32)>: a function on the tracked IPs
    now,       \* Instant::now()
    banned     \* history: the addresses that reached max_failures since their
               \* last record_success (no counterpart in the code)

vars == <<attempts, now, banned>>

Entry == [last : 0..MaxTime, failures : Nat]

TypeOK ==
    /\ DOMAIN attempts \subseteq IP
    /\ attempts \in [DOMAIN attempts -> Entry]
    /\ now \in 0..MaxTime
    /\ banned \subseteq IP

Init ==
    /\ attempts = [ip \in {} |-> [last |-> 0, failures |-> 0]]
    /\ now = 0
    /\ banned = {}

MinOf(a, b) == IF a <= b THEN a ELSE b

(* 2^k, capped at cap; exact whenever it is below cap <= 2^30.            *)
Pow2Capped(k, cap) == IF k >= 30 THEN cap ELSE MinOf(2^k, cap)

(* A calculate_delay whose exponent is off by one at the first failure.   *)
CalculateDelayOffByOne(failures) ==
    IF failures <= 1 THEN 0
    ELSE MinOf(BaseDelay * Pow2Capped(failures - 2, MaxDelay), MaxDelay)

(* calculate_delay.  multiplier = 2u64.saturating_pow(failures - 1) is     *)
(* then cast `as u32`, which keeps its low 32 bits: 2^k for k < 32, 0 for  *)
(* 32 <= k <= 63, and u32::MAX once the power saturated (k >= 64).         *)
(* base_delay.saturating_mul(m) cannot saturate a Duration here, and the   *)
(* result is capped at max_delay.  With base_delay >= 0,                   *)
(* min(base * min(m, max), max) = min(base * m, max), which keeps TLC's    *)
(* integers small.                                                         *)
CalculateDelay(failures) ==
    LET k == failures - 1 IN
    IF failures = 0 THEN 0
    ELSE IF k >= 32 /\ k <= 63 THEN 0
    ELSE MinOf(BaseDelay * Pow2Capped(k, MaxDelay), MaxDelay)

(* can_attempt: a tracked address is blocked for good once its failures  *)
(* reach max_failures, and otherwise waits out the backoff delay.         *)
CanAttempt(ip) ==
    \/ ip \notin DOMAIN attempts
    \/ /\ attempts[ip].failures < MaxFailures
       /\ now - attempts[ip].last >= CalculateDelay(attempts[ip].failures)

(* Duration::MAX, the "never" of time_until_allowed: beyond any delay.    *)
NeverDelay == MaxDelay + MaxTime + 1

(* A time_until_allowed that forgets the session ban.                     *)
TimeUntilAllowedNoBan(ip) ==
    IF ip \notin DOMAIN attempts THEN 0
    ELSE LET d == CalculateDelay(attempts[ip].failures)
             e == now - attempts[ip].last
         IN IF e >= d THEN 0 ELSE d - e

(* time_until_allowed: zero for an untracked address, Duration::MAX once  *)
(* its failures reach max_failures, else what is left of the delay.       *)
TimeUntilAllowed(ip) ==
    IF ip \notin DOMAIN attempts THEN 0
    ELSE IF attempts[ip].failures >= MaxFailures THEN NeverDelay
    ELSE LET d == CalculateDelay(attempts[ip].failures)
             e == now - attempts[ip].last
         IN IF e >= d THEN 0 ELSE d - e

(* failure_count: 0 for an untracked address.                             *)
FailureCount(ip) == IF ip \in DOMAIN attempts THEN attempts[ip].failures ELSE 0

(* The entry of ip after entry(ip).or_insert((Instant::now(), 0)).        *)
Current(ip) ==
    IF ip \in DOMAIN attempts THEN attempts[ip] ELSE [last |-> now, failures |-> 0]

(* Set (or add) the entry of ip.                                           *)
Store(ip, e) == [x \in DOMAIN attempts \cup {ip} |-> IF x = ip THEN e ELSE attempts[x]]

(* record_attempt: the entry's timestamp becomes now.                     *)
RecordAttempt(ip) ==
    /\ attempts' = Store(ip, [Current(ip) EXCEPT !.last = now])
    /\ UNCHANGED <<now, banned>>

(* record_failure: the timestamp becomes now and the count goes up by one *)
(* (saturating_add, whose u32::MAX the bound keeps out of reach).         *)
RecordFailure(ip) ==
    /\ Current(ip).failures < FailureBound
    /\ attempts' = Store(ip, [last |-> now, failures |-> Current(ip).failures + 1])
    /\ banned' = IF Current(ip).failures + 1 >= MaxFailures
                 THEN banned \cup {ip} ELSE banned
    /\ UNCHANGED now

(* record_success: the entry is removed, all backoff history with it.     *)
RecordSuccess(ip) ==
    /\ attempts' = [x \in DOMAIN attempts \ {ip} |-> attempts[x]]
    /\ banned' = banned \ {ip}
    /\ UNCHANGED now

(* cleanup(max_age): keep the entries whose last attempt is younger than  *)
(* max_age.                                                                *)
Cleanup(maxAge) ==
    /\ attempts' = [x \in {y \in DOMAIN attempts : now - attempts[y].last < maxAge}
                      |-> attempts[x]]
    /\ UNCHANGED <<now, banned>>

(* Time passes.                                                            *)
Tick ==
    /\ now < MaxTime
    /\ now' = now + 1
    /\ UNCHANGED <<attempts, banned>>

Next ==
    \/ \E ip \in IP : RecordAttempt(ip) \/ RecordFailure(ip) \/ RecordSuccess(ip)
    \/ \E a \in MaxAges : Cleanup(a)
    \/ Tick

Spec == Init /\ [][Next]_vars

-----------------------------------------------------------------------------
(* The delay of spec.md 4.2: min(base_delay * 2^(n-1), max_delay) for      *)
(* n >= 1, with 2^(n-1) saturating rather than wrapping.                  *)
SpecDelay(n) ==
    IF n = 0 THEN 0 ELSE MinOf(BaseDelay * Pow2Capped(n - 1, MaxDelay), MaxDelay)

(* Backoff (spec.md 4.2, 8): can_attempt lets a tracked address retry     *)
(* only once the time since its last attempt has reached the spec's       *)
(* delay for its failure count, whatever sequence of record_attempt,      *)
(* record_failure, record_success and cleanup calls led there.            *)
BackoffRespected ==
    \A ip \in DOMAIN attempts :
        CanAttempt(ip) => now - attempts[ip].last >= SpecDelay(attempts[ip].failures)

(* time_until_allowed tells the truth (spec.md 4.2): it is zero exactly   *)
(* when can_attempt lets the address through, "never" exactly when the    *)
(* address is banned, and otherwise a caller that waits that long before  *)
(* retrying has waited out the spec's delay for its failure count.        *)
WaitAdvice ==
    \A ip \in IP :
        /\ TimeUntilAllowed(ip) = 0 <=> CanAttempt(ip)
        /\ TimeUntilAllowed(ip) = NeverDelay <=> FailureCount(ip) >= MaxFailures
        /\ (ip \in DOMAIN attempts /\ TimeUntilAllowed(ip) /= NeverDelay) =>
              now + TimeUntilAllowed(ip) - attempts[ip].last >= SpecDelay(FailureCount(ip))

(* Session ban (spec.md 4.2, 8, 9): an address that reached max_failures  *)
(* may not attempt again for the rest of the session, however much time  *)
(* passes and whatever else the caller does, until a record_success.     *)
SessionBan == \A ip \in banned : ~CanAttempt(ip)
=============================================================================
