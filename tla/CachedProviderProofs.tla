------------------------ MODULE CachedProviderProofs ------------------------
(***************************************************************************)
(* Proof that the age a cache hit of CachedProvider reports is the time    *)
(* since its data was written into the cache, for any number of           *)
(* concurrent callers, any TTL and however much time passes between the   *)
(* freshness check and the age read.                                       *)
(*                                                                         *)
(* The action property rests on an invariant.  A stored entry expires      *)
(* exactly ttl after the instant it was written, which is not later than  *)
(* now (CacheStamp).  A caller that holds the read lock between its two   *)
(* clock reads sees an entry (ReaderSeesEntry): the write lock that Store *)
(* and invalidate need is not granted while the read lock is held.        *)
(***************************************************************************)
EXTENDS CachedProvider, TLAPS

CacheStamp == storedAt <= now /\ (~cache.none => cache.expires = storedAt + TTL)

ReaderSeesEntry == \A c \in Caller : cpc[c] = "age" => ~cache.none

ProviderInv == TypeOK /\ CacheStamp /\ ReaderSeesEntry

(* The step relation HitAgeIsElapsed boxes.                                *)
HitAgeStep ==
    \A c \in Caller :
        (cpc[c] = "age" /\ cpc'[c] = "idle") => result'[c].age = now - storedAt

LEMMA ProviderInit == Init => ProviderInv
<1> SUFFICES ASSUME Init PROVE ProviderInv
  OBVIOUS
<1>1. TypeOK
  BY ProviderAssumption DEF Init, TypeOK, None, Entry, Result
<1>2. CacheStamp /\ ReaderSeesEntry
  BY DEF Init, None, CacheStamp, ReaderSeesEntry
<1>3. QED BY <1>1, <1>2 DEF ProviderInv

(* Every step keeps the invariant.                                         *)
LEMMA ProviderStep == ProviderInv /\ [Next]_vars => ProviderInv'
<1> SUFFICES ASSUME ProviderInv, [Next]_vars PROVE ProviderInv'
  OBVIOUS
<1> USE ProviderAssumption DEF ProviderInv, TypeOK, Entry, Result, CacheStamp,
                               ReaderSeesEntry, NewData, CachedData
<1>1. ASSUME NEW c \in Caller, NEW f \in BOOLEAN, GetCached(c, f) PROVE ProviderInv'
  BY <1>1 DEF GetCached, Live
<1>2. ASSUME NEW c \in Caller, ReadAge(c) PROVE ProviderInv'
  <2>1. cpc[c] = "age" /\ ~cache.none
    BY <1>2 DEF ReadAge
  <2>2. now - (cache.expires - TTL) \in Nat
    BY <2>1
  <2>3. QED BY <1>2, <2>2 DEF ReadAge
<1>3. ASSUME NEW c \in Caller, Fetch(c) PROVE ProviderInv'
  BY <1>3 DEF Fetch
<1>4. ASSUME NEW c \in Caller, FetchFails(c) PROVE ProviderInv'
  BY <1>4 DEF FetchFails
<1>5. ASSUME NEW c \in Caller, Store(c) PROVE ProviderInv'
  BY <1>5 DEF Store, NoReader
<1>6. CASE Invalidate
  BY <1>6 DEF Invalidate, None, NoReader
<1>7. CASE Change
  BY <1>7 DEF Change
<1>8. CASE Tick
  BY <1>8 DEF Tick
<1>9. CASE UNCHANGED vars
  BY <1>9 DEF vars
<1>10. QED BY <1>1, <1>2, <1>3, <1>4, <1>5, <1>6, <1>7, <1>8, <1>9 DEF Next

(* Only a caller's own ReadAge takes it from holding the read lock back   *)
(* to idle, and it reports now - storedAt.                                 *)
LEMMA AgeStep == ProviderInv /\ [Next]_vars => [HitAgeStep]_vars
<1> SUFFICES ASSUME ProviderInv, [Next]_vars, NEW c \in Caller,
                    cpc[c] = "age", cpc'[c] = "idle"
             PROVE  result'[c].age = now - storedAt
  BY DEF HitAgeStep
<1> USE DEF ProviderInv, TypeOK
<1>1. ASSUME NEW d \in Caller, NEW f \in BOOLEAN, GetCached(d, f) PROVE FALSE
  BY <1>1 DEF GetCached
<1>2. ASSUME NEW d \in Caller, ReadAge(d) PROVE result'[c].age = now - storedAt
  <2>1. d = c
    BY <1>2 DEF ReadAge
  <2>2. ~cache.none /\ cache.expires = storedAt + TTL
    BY DEF ReaderSeesEntry, CacheStamp
  <2>3. result'[c] = CachedData(cache.ver, now - (cache.expires - TTL))
    BY <1>2, <2>1 DEF ReadAge
  <2>4. QED BY <2>2, <2>3, ProviderAssumption DEF CachedData
<1>3. ASSUME NEW d \in Caller, Fetch(d) PROVE FALSE
  BY <1>3 DEF Fetch
<1>4. ASSUME NEW d \in Caller, FetchFails(d) PROVE FALSE
  BY <1>4 DEF FetchFails
<1>5. ASSUME NEW d \in Caller, Store(d) PROVE FALSE
  BY <1>5 DEF Store
<1>6. CASE Invalidate \/ Change \/ Tick
  BY <1>6 DEF Invalidate, Change, Tick
<1>7. CASE UNCHANGED vars
  BY <1>7 DEF vars
<1>8. QED BY <1>1, <1>2, <1>3, <1>4, <1>5, <1>6, <1>7 DEF Next

(* A cache hit from get_cached reports as its age the time since the      *)
(* entry was written by some call's store, whatever the other callers,    *)
(* invalidations and the passing of time do between its freshness check  *)
(* and its age read.                                                       *)
THEOREM HitAgeIsTimeSinceStore == Spec => HitAgeIsElapsed
<1>1. Spec => []ProviderInv
  BY ProviderInit, ProviderStep, PTL DEF Spec
<1>2. []ProviderInv /\ [][Next]_vars => [][HitAgeStep]_vars
  BY AgeStep, PTL
<1>3. QED BY <1>1, <1>2, PTL DEF Spec, HitAgeIsElapsed, HitAgeStep
=============================================================================
