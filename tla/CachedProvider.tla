---------------------------- MODULE CachedProvider ----------------------------
(***************************************************************************)
(* CachedProvider of src/node/src/plugin/provider.rs: a provider wrapped   *)
(* in a single-entry cache behind a tokio RwLock.  get_cached checks the   *)
(* cache under the read lock, otherwise awaits the inner provider's get    *)
(* and, when the TTL is positive, stores the result under the write lock.  *)
(* invalidate clears the entry.  Concurrent callers interleave between     *)
(* those three steps.  The provider's data is a version number that a      *)
(* change in the outside world (Change) increases; time is the tick        *)
(* counter now, in seconds.                                                *)
(***************************************************************************)
EXTENDS Naturals

CONSTANTS
    Caller,      \* concurrent get_cached calls (model values)
    TTL,         \* metadata().cache_ttl_seconds
    MaxVersion,  \* bound on the provider's data version
    MaxTime      \* bound on now

ASSUME ProviderAssumption == TTL \in Nat /\ MaxVersion \in Nat /\ MaxTime \in Nat

None == [ver |-> 0, expires |-> 0, none |-> TRUE]

VARIABLES
    cache,     \* Option<CacheEntry>: None, or data version and expires_at
    now,       \* Instant::now(), in seconds
    source,    \* the version of the data the inner provider returns now
    cpc,       \* cpc[c]: "idle", "age" (holding the read lock after the
               \* freshness check), "fetch" (awaiting inner.get) or "store"
    force,     \* force[c]: ctx.force_refresh of c's current call
    fetched,   \* fetched[c]: the version inner.get returned to c
    result,    \* what c's last call returned
    invVer,    \* history: source when invalidate last ran
    storedAt   \* history: now when the cache entry was last written

vars == <<cache, now, source, cpc, force, fetched, result, invVer, storedAt>>

Entry == [ver : 0..MaxVersion, expires : Nat, none : BOOLEAN]
Result == [kind : {"none", "hit", "fresh", "err"}, ver : 0..MaxVersion, age : Nat]

TypeOK ==
    /\ cache \in Entry
    /\ now \in 0..MaxTime
    /\ source \in 0..MaxVersion
    /\ cpc \in [Caller -> {"idle", "age", "fetch", "store"}]
    /\ force \in [Caller -> BOOLEAN]
    /\ fetched \in [Caller -> 0..MaxVersion]
    /\ result \in [Caller -> Result]
    /\ invVer \in 0..MaxVersion
    /\ storedAt \in 0..MaxTime

Init ==
    /\ cache = None
    /\ now = 0
    /\ source = 0
    /\ cpc = [c \in Caller |-> "idle"]
    /\ force = [c \in Caller |-> FALSE]
    /\ fetched = [c \in Caller |-> 0]
    /\ result = [c \in Caller |-> [kind |-> "none", ver |-> 0, age |-> 0]]
    /\ invVer = 0
    /\ storedAt = 0

(* ProviderData::new: data as the provider returns it, age 0.            *)
NewData(v) == [kind |-> "fresh", ver |-> v, age |-> 0]

(* ProviderData::cached(age): the same data marked as served from cache.  *)
CachedData(v, a) == [kind |-> "hit", ver |-> v, age |-> a]

(* entry.expires_at > Instant::now(), the first of the two clock reads.   *)
Live == ~cache.none /\ cache.expires > now

(* The write lock is granted only when no caller holds the read lock.     *)
NoReader == \A d \in Caller : cpc[d] /= "age"

(* get_cached, first step: unless force_refresh, take the read lock and   *)
(* test the entry against Instant::now(); a live entry is kept locked for *)
(* the age computation, otherwise the guard is dropped and c fetches.     *)
GetCached(c, f) ==
    /\ cpc[c] = "idle"
    /\ force' = [force EXCEPT ![c] = f]
    /\ cpc' = [cpc EXCEPT ![c] = IF ~f /\ Live THEN "age" ELSE "fetch"]
    /\ UNCHANGED <<cache, now, source, fetched, result, invVer, storedAt>>

(* An age computed as the time left to expiry instead of the time since   *)
(* the entry was written.                                                  *)
ReadAgeRemaining(c) ==
    /\ cpc[c] = "age"
    /\ result' = [result EXCEPT ![c] = CachedData(cache.ver, cache.expires - now)]
    /\ cpc' = [cpc EXCEPT ![c] = "idle"]
    /\ UNCHANGED <<cache, now, source, force, fetched, invVer, storedAt>>

(* get_cached, second step: a new Instant::now() read, the age           *)
(* now - (expires_at - ttl) in whole seconds, and the entry's data is     *)
(* returned with it; the read guard is released.                          *)
ReadAge(c) ==
    /\ cpc[c] = "age"
    /\ result' = [result EXCEPT ![c] =
                     CachedData(cache.ver, now - (cache.expires - TTL))]
    /\ cpc' = [cpc EXCEPT ![c] = "idle"]
    /\ UNCHANGED <<cache, now, source, force, fetched, invVer, storedAt>>

(* self.inner.get(ctx).await: the provider returns its current data, or   *)
(* an error that `?` hands back to the caller, leaving the cache alone.   *)
Fetch(c) ==
    /\ cpc[c] = "fetch"
    /\ fetched' = [fetched EXCEPT ![c] = source]
    /\ cpc' = [cpc EXCEPT ![c] = "store"]
    /\ UNCHANGED <<cache, now, source, force, result, invVer, storedAt>>

FetchFails(c) ==
    /\ cpc[c] = "fetch"
    /\ cpc' = [cpc EXCEPT ![c] = "idle"]
    /\ result' = [result EXCEPT ![c] = [kind |-> "err", ver |-> 0, age |-> 0]]
    /\ UNCHANGED <<cache, now, source, force, fetched, invVer, storedAt>>

(* With ttl > 0, the fetched data replaces the entry under the write lock, *)
(* expiring ttl seconds from now; the data is returned.                    *)
Store(c) ==
    /\ cpc[c] = "store"
    /\ TTL > 0 => NoReader
    /\ cache' = IF TTL > 0
                THEN [ver |-> fetched[c], expires |-> now + TTL, none |-> FALSE]
                ELSE cache
    /\ storedAt' = IF TTL > 0 THEN now ELSE storedAt
    /\ cpc' = [cpc EXCEPT ![c] = "idle"]
    /\ result' = [result EXCEPT ![c] = NewData(fetched[c])]
    /\ UNCHANGED <<now, source, force, fetched, invVer>>

(* invalidate: the entry is cleared under the write lock.                  *)
Invalidate ==
    /\ NoReader
    /\ cache' = None
    /\ invVer' = source
    /\ UNCHANGED <<now, source, cpc, force, fetched, result, storedAt>>

(* The provider's underlying data changes.                                 *)
Change ==
    /\ source < MaxVersion
    /\ source' = source + 1
    /\ UNCHANGED <<cache, now, cpc, force, fetched, result, invVer, storedAt>>

(* Time passes, also between the two clock reads of a cache hit.          *)
Tick ==
    /\ now < MaxTime
    /\ now' = now + 1
    /\ UNCHANGED <<cache, source, cpc, force, fetched, result, invVer, storedAt>>

Next ==
    \/ \E c \in Caller :
         \/ \E f \in BOOLEAN : GetCached(c, f)
         \/ ReadAge(c) \/ Fetch(c) \/ FetchFails(c) \/ Store(c)
    \/ Invalidate \/ Change \/ Tick

Spec == Init /\ [][Next]_vars

-----------------------------------------------------------------------------
(* The age a cache hit reports is the time since its data was written     *)
(* into the cache: the Instant::now() + ttl stored by get_cached's write  *)
(* and the expires_at - ttl of its read name the same instant, however    *)
(* much time passes between the freshness check and the age read.         *)
HitAgeIsElapsed ==
    [][\A c \in Caller :
         (cpc[c] = "age" /\ cpc'[c] = "idle") => result'[c].age = now - storedAt]_vars

(* invalidate discards what the cache holds: after it, the cache never    *)
(* holds data older than the provider's data at the time of invalidate.   *)
InvalidateDropsStale == ~cache.none => cache.ver >= invVer
=============================================================================
