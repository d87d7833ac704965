--------------------- MODULE ConnectionRateLimiterProofs ---------------------
(***************************************************************************)
(* Proofs about the per-IP backoff limiter of ConnectionRateLimiter.  The  *)
(* invariant they rest on, LimiterInv, adds to the type that no entry's    *)
(* last attempt lies in the future: every write of `last` stores now and   *)
(* the clock only moves forward.  Each operation is a lemma of its own, so *)
(* that a module running the limiter beside other components (the         *)
(* admission pipeline) can cite them step by step.                         *)
(***************************************************************************)
EXTENDS ConnectionRateLimiter, TLAPS

(* The inductive invariant: well-typed entries, none stamped after now.   *)
LimiterInv ==
    /\ TypeOK
    /\ \A ip \in DOMAIN attempts : attempts[ip].last <= now

-----------------------------------------------------------------------------
(* The limiter starts empty at time 0.                                     *)
LEMMA InitInv == LimiterAssumption /\ Init => LimiterInv
BY DEF LimiterAssumption, Init, LimiterInv, TypeOK, Entry

(* record_attempt(ip) stamps the entry of ip, new or old, with now.        *)
LEMMA AttemptStep ==
    ASSUME LimiterAssumption, LimiterInv, NEW ip \in IP, RecordAttempt(ip)
    PROVE  LimiterInv'
<1> USE DEF LimiterAssumption
<1>1. Current(ip) \in Entry /\ Current(ip).last <= now
  BY DEF LimiterInv, TypeOK, Entry, Current
<1>2. LimiterInv'
  BY <1>1 DEF LimiterInv, TypeOK, Entry, RecordAttempt, Store
<1>3. QED BY <1>2

(* record_failure(ip) stamps ip with now and one more failure.            *)
LEMMA FailureStep ==
    ASSUME LimiterAssumption, LimiterInv, NEW ip \in IP, RecordFailure(ip)
    PROVE  LimiterInv'
<1> USE DEF LimiterAssumption
<1>1. Current(ip) \in Entry
  BY DEF LimiterInv, TypeOK, Entry, Current
<1>2. LimiterInv'
  BY <1>1 DEF LimiterInv, TypeOK, Entry, RecordFailure, Store
<1>3. QED BY <1>2

(* record_success(ip) drops the entry of ip.                               *)
LEMMA SuccessStep ==
    ASSUME LimiterInv, NEW ip \in IP, RecordSuccess(ip)
    PROVE  LimiterInv'
BY DEF LimiterInv, TypeOK, Entry, RecordSuccess

(* cleanup(max_age) keeps a subset of the entries, unchanged.              *)
LEMMA CleanupStep ==
    ASSUME LimiterInv, NEW a \in MaxAges, Cleanup(a)
    PROVE  LimiterInv'
BY DEF LimiterInv, TypeOK, Entry, Cleanup

(* A tick moves now forward within MaxTime and touches no entry.           *)
LEMMA TickStep ==
    ASSUME LimiterAssumption, LimiterInv, Tick
    PROVE  LimiterInv'
BY DEF LimiterAssumption, LimiterInv, TypeOK, Entry, Tick

(* A step that leaves the limiter alone.                                   *)
LEMMA StutterStep ==
    ASSUME LimiterInv, UNCHANGED vars
    PROVE  LimiterInv'
BY DEF LimiterInv, TypeOK, Entry, vars

-----------------------------------------------------------------------------
(* Below 33 failures the exponent of calculate_delay is at most 31, so    *)
(* the `as u32` cast keeps the power and the code's delay is the spec's.   *)
LEMMA DelayMatchesSpec ==
    ASSUME NEW f \in Nat, f <= 32
    PROVE  CalculateDelay(f) = SpecDelay(f)
BY DEF CalculateDelay, SpecDelay

(* 2^k is a number for the exponents below Pow2Capped's cut-off.  The     *)
(* provers evaluate a power only at a literal exponent, so the lemma goes  *)
(* through the thirty exponents one by one.                                *)
LEMMA Pow2Nat ==
    ASSUME NEW k \in 0..29
    PROVE  2^k \in Nat
<1>1. k \in {0, 1, 2, 3, 4, 5, 6, 7, 8, 9, 10, 11, 12, 13, 14, 15, 16, 17, 18, 19, 20, 21, 22, 23, 24, 25, 26, 27, 28, 29}
  OBVIOUS
<1>2. CASE k = 0 BY <1>2
<1>3. CASE k = 1 BY <1>3
<1>4. CASE k = 2 BY <1>4
<1>5. CASE k = 3 BY <1>5
<1>6. CASE k = 4 BY <1>6
<1>7. CASE k = 5 BY <1>7
<1>8. CASE k = 6 BY <1>8
<1>9. CASE k = 7 BY <1>9
<1>10. CASE k = 8 BY <1>10
<1>11. CASE k = 9 BY <1>11
<1>12. CASE k = 10 BY <1>12
<1>13. CASE k = 11 BY <1>13
<1>14. CASE k = 12 BY <1>14
<1>15. CASE k = 13 BY <1>15
<1>16. CASE k = 14 BY <1>16
<1>17. CASE k = 15 BY <1>17
<1>18. CASE k = 16 BY <1>18
<1>19. CASE k = 17 BY <1>19
<1>20. CASE k = 18 BY <1>20
<1>21. CASE k = 19 BY <1>21
<1>22. CASE k = 20 BY <1>22
<1>23. CASE k = 21 BY <1>23
<1>24. CASE k = 22 BY <1>24
<1>25. CASE k = 23 BY <1>25
<1>26. CASE k = 24 BY <1>26
<1>27. CASE k = 25 BY <1>27
<1>28. CASE k = 26 BY <1>28
<1>29. CASE k = 27 BY <1>29
<1>30. CASE k = 28 BY <1>30
<1>31. CASE k = 29 BY <1>31
<1>32. QED BY <1>1, <1>2, <1>3, <1>4, <1>5, <1>6, <1>7, <1>8, <1>9, <1>10, <1>11, <1>12, <1>13, <1>14, <1>15, <1>16, <1>17, <1>18, <1>19, <1>20, <1>21, <1>22, <1>23, <1>24, <1>25, <1>26, <1>27, <1>28, <1>29, <1>30, <1>31

(* The code's delay is a number of ticks no larger than max_delay.         *)
LEMMA DelayBounded ==
    ASSUME LimiterAssumption, NEW f \in Nat
    PROVE  CalculateDelay(f) \in 0..MaxDelay
<1> USE DEF LimiterAssumption
<1>1. ASSUME NEW k \in Nat PROVE Pow2Capped(k, MaxDelay) \in Nat
  <2>1. CASE k >= 30 BY <2>1 DEF Pow2Capped
  <2>2. CASE k < 30
    <3>0. k \in 0..29 BY <2>2
    <3>1. 2^k \in Nat BY <3>0, Pow2Nat, Zenon
    <3>2. QED BY <2>2, <3>1 DEF Pow2Capped, MinOf
  <2>3. QED BY <2>1, <2>2
<1>2. QED BY <1>1 DEF CalculateDelay, MinOf
-----------------------------------------------------------------------------
(* In every state of the invariant, can_attempt lets a tracked address    *)
(* through only after the spec's delay, provided max_failures <= 33: a    *)
(* count that can_attempt lets through is then at most 32 and its delay    *)
(* is the spec's.  (Above 33 the ratelimit_u32_truncation run refutes it.) *)
LEMMA BackoffFromInv ==
    ASSUME LimiterInv, MaxFailures \in Nat, MaxFailures <= 33
    PROVE  BackoffRespected
<1> SUFFICES ASSUME NEW ip \in DOMAIN attempts, CanAttempt(ip)
             PROVE  now - attempts[ip].last >= SpecDelay(attempts[ip].failures)
  BY DEF BackoffRespected
<1>1. attempts[ip].failures \in Nat /\ attempts[ip].failures < MaxFailures
      /\ now - attempts[ip].last >= CalculateDelay(attempts[ip].failures)
  BY DEF LimiterInv, TypeOK, Entry, CanAttempt
<1>2. CalculateDelay(attempts[ip].failures) = SpecDelay(attempts[ip].failures)
  BY <1>1, DelayMatchesSpec
<1>3. QED BY <1>1, <1>2

(* In every state of the invariant, time_until_allowed agrees with         *)
(* can_attempt, is "never" exactly for a banned address and otherwise      *)
(* waits out at least the spec's delay, for 1 <= max_failures <= 33.       *)
(* With max_failures = 0 an untracked address has zero failures, at the   *)
(* limit, yet time_until_allowed answers 0.                                *)
LEMMA WaitAdviceFromInv ==
    ASSUME LimiterAssumption, LimiterInv, MaxFailures \in 1..33
    PROVE  WaitAdvice
<1> SUFFICES ASSUME NEW ip \in IP
             PROVE  /\ TimeUntilAllowed(ip) = 0 <=> CanAttempt(ip)
                    /\ TimeUntilAllowed(ip) = NeverDelay <=> FailureCount(ip) >= MaxFailures
                    /\ (ip \in DOMAIN attempts /\ TimeUntilAllowed(ip) /= NeverDelay) =>
                          now + TimeUntilAllowed(ip) - attempts[ip].last
                              >= SpecDelay(FailureCount(ip))
  BY DEF WaitAdvice
<1> USE DEF LimiterAssumption
<1>1. NeverDelay \in Nat /\ NeverDelay > MaxDelay
  BY DEF NeverDelay
<1>2. CASE ip \notin DOMAIN attempts
  BY <1>1, <1>2 DEF TimeUntilAllowed, CanAttempt, FailureCount
<1>3. CASE ip \in DOMAIN attempts /\ attempts[ip].failures >= MaxFailures
  BY <1>1, <1>3 DEF TimeUntilAllowed, CanAttempt, FailureCount, LimiterInv, TypeOK, Entry
<1>4. CASE ip \in DOMAIN attempts /\ attempts[ip].failures < MaxFailures
  <2> DEFINE f == attempts[ip].failures
             d == CalculateDelay(f)
             e == now - attempts[ip].last
  <2>1. f \in Nat /\ e \in Nat /\ now \in Nat /\ attempts[ip].last \in Nat
    BY <1>4 DEF LimiterInv, TypeOK, Entry, f, e
  <2>2. d \in 0..MaxDelay /\ d = SpecDelay(f)
    <3>1. f <= 32 BY <1>4, <2>1 DEF f
    <3>2. d \in 0..MaxDelay BY <2>1, DelayBounded DEF d
    <3>3. d = SpecDelay(f) BY <2>1, <3>1, DelayMatchesSpec DEF d
    <3>4. QED BY <3>2, <3>3
  <2>3. TimeUntilAllowed(ip) = IF e >= d THEN 0 ELSE d - e
    BY <1>4, <2>1 DEF TimeUntilAllowed, f, d, e
  <2>4. CanAttempt(ip) <=> e >= d
    BY <1>4 DEF CanAttempt, f, d, e
  <2>5. FailureCount(ip) = f
    BY <1>4 DEF FailureCount, f
  <2>6. QED BY <1>1, <1>4, <2>1, <2>2, <2>3, <2>4, <2>5 DEF f, d, e
<1>5. QED BY <1>2, <1>3, <1>4 DEF LimiterInv, TypeOK, Entry
====
