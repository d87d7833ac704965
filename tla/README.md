# TLA+ models of the agentme node's connection admission

This directory holds TLA+ models, TLC configurations and TLAPS proofs for
the connection-admission core of the node, `src/node/src/network/security.rs`,
and the parts of the plugin layer with concurrent state. `spec.md` describes
the design.

## The system

An inbound connection passes these gates in order (spec.md 2, 5):

1. The global sliding-window limiter (`GlobalConnectionRateLimiter`).
2. The per-IP backoff limiter (`ConnectionRateLimiter`).
3. The /24 subnet tracker (`SubnetTracker`).
4. The /16 subnet tracker (`Subnet16Tracker`).
5. The total tracker (`ConnectionTracker`).

Any rejection drops the attempt. On disconnect, the network manager removes
the address from the three trackers.

Each tracker is a plain structure that its owner guards with a lock, so one
tracker call is atomic. The pipeline as a whole is not atomic: the calls of
concurrent connections interleave (spec.md 5). The network manager that runs
this pipeline is not part of this repository, so the pipeline itself is
modelled from spec.md. Each tracker is modelled from its code.

The `start` command of `main.rs` brings the node up: it loads the
configuration, creates the `NetworkManager` (which, by spec.md 4.6, runs
`validate_network_config` before it builds the transport), sets up search
and the API server, and runs a `select!` loop. The loop counts
`PeerConnected` and `PeerDisconnected` events into the `AtomicU64` the API
reports, and stops on Ctrl-C after `network.shutdown()`.

## Modules

| Module | Models | State | Actions |
|---|---|---|---|
| `SubnetTracker` | `SubnetTracker` and `Subnet16Tracker` (security.rs 31-222) | `connections`: the prefix → count map | `AddConnection` (both outcomes, including the `or_insert(0)` on rejection), `RemoveConnection` (saturating, deletes at 0); `CanAcceptConnection` and `Count` are the queries |
| `ConnectionTracker` | `ConnectionTracker` (security.rs 418-477) | `connections`: a set of addresses | `AddConnection` (idempotent), `RemoveConnection` |
| `Admission` | the pipeline of spec.md 2/5 over the three trackers | the trackers' maps, `pc[c]` (the stage of connection c), `peer[c]` | `IncomingConnection`, `AddSubnet24`, `AddSubnet16`, `AddTotal`, `RemoveSubnet24`, `RemoveSubnet16`, `RemoveTotal` |
| `ConnectionRateLimiter` | `ConnectionRateLimiter` (security.rs 224-333) | `attempts`: IP → [last, failures]; `now`; history `banned` | `RecordAttempt`, `RecordFailure`, `RecordSuccess`, `Cleanup(max_age)`, `Tick`; `CanAttempt` and `CalculateDelay` are operators |
| `GlobalRateLimiter` | `GlobalConnectionRateLimiter` (security.rs 334-412) | `connection_times`; `now`; `result` of the last call; history `admitted` | `RecordNewConnection` (prune, check, push), `Tick` |
| `AdmissionPipeline` | the whole pipeline of spec.md 2: both limiters before the trackers of `Admission`, over one clock | `Admission`'s state, the two limiters' state (instances `G` and `R` sharing `now`), `gated` (attempts past the global limiter) | `GlobalGate` (`record_new_connection`), `PerIpGate` (`can_attempt`, then `record_attempt` and the trackers' `IncomingConnection`), `TrackerStep` (the six tracker actions), `LimiterCall` (`record_failure`, `record_success`, `cleanup`), `Tick` |
| `NodeMain` | `main`'s command dispatch (main.rs 91-291), its `start` command and `build_transport` (transport.rs 38-58), over `BootstrapValidator` | main's place `mpc`, `hybrid`, the API task `api`, `peer_count`, the event being handled `ev`; the network's `connected`, event channel `chan`, `netUp`; the SIGINT state `sigPending`, `signals` | `InitCommand`, `HealthCommand` (`check_health`'s outcome: ok, error or timeout), `StartCommand`, `LoadConfig`, `Validate` (a validator step), `NewNetwork`, `InitSearch`, `SpawnApi`, `ApiFails`, `Recv`, `Handle`, `CtrlC`, `Shutdown`; environment `Network` (connect, disconnect, other events) and `Signal` |
| `TrackedAction` | `TrackedAction` (action.rs 219-293) | the three counters; per task `tpc` (next locked block), `failed`, `dur`; per stats caller `rpc`, `snap` | `Execute` (inner action finishes), `IncCount`, `IncTotal`, `IncErrors` (one per write-locked block of `execute_tracked`), `ReadCount`, `ReadTotal`, `ReadErrors`, `ReturnStats` (the read-locked reads of `stats()`) |
| `CachedProvider` | `CachedProvider` (provider.rs 215-276) and the `ProviderData` it returns (`new`, `cached`: provider.rs 107-126) | `cache` (None or version + `expires_at`); `now`; the provider's current version `source`; per caller `cpc`, `force`, `fetched`, `result`; histories `invVer`, `storedAt` | `GetCached` (the freshness test, the first `Instant::now()`, under the read lock), `ReadAge` (the second `Instant::now()` and the age, the lock still held), `Fetch`/`FetchFails` (`inner.get`), `Store` (write under the write lock when ttl > 0), `Invalidate`, `Change` (the outside data changes), `Tick` |
| `BootstrapValidator` | `validate_network_config`, `validate_bootstrap_peers`, `extract_ip_from_multiaddr` (security.rs 480-565) | the configuration (`peers`, `maxConn`), the call's `stage`, loop index `i`, `subnets_16`, `result` | `Start` (empty list skips), `CheckCount`, `ScanPeer` (one loop iteration), `CheckDiversity`, `CheckMaxConnections` |
| `ServiceShutdown` | `ServiceContext::with_shutdown_signal`, `wait_for_shutdown` (service.rs 55-105) | the host's watch channel (`value`, `version`, `senderAlive`); the context's `hasRx`, `seen`, `wpc`; history `retVal` | host: `Send(v)`, `DropSender` (tokio's side, not code of this repository); context: `Attach`, `WaitBegin`, `Check` (`*rx.borrow()`), `Changed` (Ok), `ChangedErr` (Err, discarded) |
| `ManagedService` | `ManagedService` (service.rs 165-255): `new`/`wrap`, `start`, the two locked steps of `stop` | `startedAt` (`started_at.is_some()`), `shutdown` (the value of its watch channel), per caller `spc` | `Start(c)`, `StopSignal(c)` (`shutdown_tx.send(true)`), `StopClear(c)` (`started_at = None`) |
| `MC_Service` | `ServiceShutdown` and `ManagedService` side by side | both modules' state (`ManagedService` as instance `MS`) | the steps of one or the other |
| `SubnetTrackerProofs`, `AdmissionProofs`, `TrackedActionProofs`, `CachedProviderProofs`, `ServiceShutdownProofs`, `ConnectionRateLimiterProofs`, `AdmissionPipelineProofs`, `NodeMainProofs` | TLAPS proofs | | |

Modelling notes:

- `Admission` instantiates `SubnetTracker` twice (`Tracker24` and `Tracker16`,
  each with its own prefix function and limit) and `ConnectionTracker` once.
- An address is a model value. Its /24 and /16 prefixes are constant
  functions (`Prefix24`, `Prefix16`). An IPv6 address maps to `NoSubnet`, the
  code's `None`.
- Time is a tick counter, `now`, bounded by `MaxTime`. `Instant::elapsed()` is
  `now - last`.
- `calculate_delay` is modelled exactly, including its conversions:
  - `2u64.saturating_pow(n-1)`;
  - the `as u32` cast, which keeps the low 32 bits: 0 for exponents 32 to 63;
  - the cap at `max_delay`.

  It is written so that TLC's integers never exceed 2^31.
- The rate limiters come before the trackers and change none of their state.
  `Admission` lets a connection arrive at any time; `AdmissionPipeline` puts
  the limiters in front. It reuses the limiter modules through `INSTANCE`,
  so their actions and properties are the ones the limiters' own violation
  runs check. `GlobalAssumption` and `LimiterAssumption` are plain
  definitions there, and the pipeline assumes both (`GateAssumption`).
- The global limiter's Vec of `Instant`s is only ever filtered, counted and
  pushed, so its order plays no part. `connection_times` is the set of the
  admissions it holds, each named by its position in the history `admitted`,
  whose entry is the instant pushed for it. Filtering is a set
  comprehension and counting is `Cardinality`, so the proofs need no
  recursion over a sequence.
- The queries `current_count`, `remaining_capacity` (global limiter),
  `time_until_allowed` and `failure_count` (per-IP limiter) are operators,
  checked against the state by `CapacityAdvice` and `WaitAdvice`.
  `Duration::MAX` is `NeverDelay`, a value above every delay and elapsed time.
- In `NodeMain` the parts of the node that are not in this repository are
  nondeterministic outcomes:
  - `NodeConfig::load` succeeds or fails;
  - the validator's verdict is computed; `build_transport` succeeds or fails;
  - `EmbeddingService::new` succeeds or fails;
  - `api_server.run` may fail at any time (the task only logs it);
  - the network connects and disconnects peers, in order per peer, and
    emits one event for each on a FIFO channel, plus other events that are
    only logged.
- SIGINT follows tokio. Before the first `ctrl_c()` is polled, the default
  disposition kills the process. After that the handler stays installed, and
  each `ctrl_c()` call subscribes anew and sees only later signals. A signal
  is therefore lost in two cases: it lands while main handles an event, or
  `select!` picks a ready event over the ctrl_c branch that saw it.
- `peer_count` wraps modulo `CounterMod` (2^64 in the code, 8 in the run).

## Runs

| Run | Config | Expect | What it shows |
|---|---|---|---|
| admission_pipeline | `MC_AdmissionPipeline.cfg` | pass | The whole pipeline with two connection handles and three addresses (a1 in /24 A, b1 in /24 B, both in /16 X, and v6). Tracker limits are 2 per /24, 1 per /16 and 1 total. The global window is 2 ticks admitting 1 attempt. Backoff delays are 1 and 2, with a ban at 3 failures; 2 ticks. Every gate call interleaves with the others, with the handshake outcomes and with `cleanup`. The trackers' `SybilLimits`, `IInv` and `TotalCap` hold, and so do the global window's `WindowCap`, `NoSpuriousRejection` and `BoundedTimes`. The queries agree with the state (`CapacityAdvice`, `WaitAdvice`). The per-IP gate keeps the spec's backoff (`BackoffRespected`). About 1.46M states, under a minute. |
| admission_partial_leak | `MC_Admission_NoPartialAdmission.cfg` | violation | b1 takes a /24 slot of B. The /16 tracker, full with two a1 connections, then rejects it, and B's count stays 1 with no holder. |
| admission_total_cap | `MC_Admission_ConnectedPeersCap.cfg` | violation | Two connections from a1 share one total-tracker entry. Tearing the first one down removes a1, so a2 and b1 are admitted next to the live a1 connection: three connected addresses under a cap of 2. |
| ratelimit_u32_truncation | `MC_ConnectionRateLimiter_Wide.cfg` | violation | With `max_failures = 40`, after 33 failures the required delay is 0, and the address may retry immediately. |
| ratelimit_cleanup_unbans | `MC_ConnectionRateLimiter_Cleanup.cfg` | violation | An address banned after 2 failures is swept by `cleanup(2)` two ticks later, and may attempt again. |
| node_startup | `MC_NodeMain.cfg` | pass | Startup over every bootstrap list of up to 3 multiaddrs, each of 1 or 2 parts drawn from IPv4 literals in three /16s, an IPv6 literal and a non-IP word, with `max_connections` 0 or 1. The validator returns Ok exactly when the set-comprehension reading of spec.md 4.5/4.6 (`SpecAccepts`) does (`MatchesSpec`). Then the node runs with 2 peers, 4 network events and 2 SIGINTs that may come at any point. `peer_count` always equals the number of peers that main's handled events leave connected, so it never wraps (`PeerCountExact`). While the loop runs, the count catches up with the network (`PeerCountCatchesUp`). About 490k states, using a `VIEW` (below). |
| service_shutdown | `MC_ServiceShutdown.cfg` | pass | Up to 3 sends of true or false, a sender drop and the receiver's attach at any point, with and without a receiver. The wait returns only after reading true (`ReturnsOnShutdown`), and returns whenever the value stays true (`ShutdownNoticed`), even when true was sent before the receiver subscribed. Beside it, two callers share a `ManagedService` and call `start` and `stop` in any order. |
| service_shutdown_spin | `MC_ServiceShutdown_Spin.cfg` | violation | The host drops the sender while the value is false. `changed()` then returns Err at once, the loop reads false again, and the waiter cycles between the two forever (`WaitSettles`). |
| tracked_counters | `MC_TrackedAction.cfg` | pass | Two concurrent `execute_tracked` tasks and one `stats()` caller, up to 3 executions. `error_count <= execution_count` always, and so do the errors still in flight (`CountsCover`). |
| tracked_stats_underflow | `MC_TrackedAction_Stats.cfg` | violation | One execution has failed and been counted. `stats()` reads `execution_count` = 1. A second execution then runs and fails. `stats()` reads `error_count` = 2. The count is positive, so the guard at action.rs 286 passes, and line 287 computes `1 - 2` on u64. |
| provider_cache | `MC_CachedProvider.cfg` | pass | Two callers, TTL 2, data versions 0..1, 3 ticks. The clock may tick between a hit's two `Instant::now()` reads, and a store waits for a reader that holds the lock. The age a hit reports is always the time since its entry was written (`HitAgeIsElapsed`). |
| provider_invalidate_race | `MC_CachedProvider_Invalidate.cfg` | violation | A caller fetches version 0; the data changes and `invalidate()` runs; the caller then stores version 0, older than the data at invalidation. |

Why these bounds are enough:

- **Admission pipeline.** The same arguments, at the smallest limits
  (1 per /16, 1 total) so that the limiters' state fits next to the
  trackers':
  - A window admitting 1 attempt in 2 ticks rejects a second attempt in the
    same tick, and lets one through after the window slides.
  - Delays of 1 and 2 reach the `max_delay` cap before the ban at 3.
  - The attempts of the two handles race through every gate.
- **Admission (the violation runs).**
  - Two /24s in one /16, with limits of 2, let the /16 tracker reject an
    attempt that the /24 tracker accepted.
  - Two addresses in one /24 let a prefix fill up from distinct addresses.
  - Three handles exceed every limit of 2.
  - The IPv6 address exercises the exemption.
  - `SYMMETRY` over the handles is sound: they are interchangeable model
    values that no definition names.
- **Rate limiter.**
  - The bounds reach the cap of `max_delay` (failure 3), the ban (failure 4),
    and a cleanup that removes entries and one that keeps them.
  - The truncation run needs failure counts up to 34. It keeps a single
    address and two ticks so that the run stays small.
- **Bootstrap validation (node_startup).** `MIN_BOOTSTRAP_PEERS` keeps its value 3, so
  lists of 3 entries are needed to pass and shorter ones exercise the count
  check. Two parts per multiaddr are enough to put a non-IP part before an
  IP, or two IPs in one entry, where the "first literal" rule decides. Three
  /16s are the fewest that pass; every such list is an initial state
  (about 56k), and the run covers all of them.
- **Node event loop (node_startup).** Two peers can be connected at once,
  and can disconnect and connect again within 4 events. Events queue up on
  the channel while main is busy, and two SIGINTs can land in every phase.
  `NodeView` drops the bootstrap list from the state once validation is
  over. Nothing after `NewNetwork` reads the list, so states that differ
  only in it behave alike, and without the view the loop would be explored
  once per list.
- **Service shutdown.** Three sends are enough for false, true, false (a
  flip back after a shutdown), and the attach may come before or after any of
  them.
- **TrackedAction.** Two tasks are enough for one to sit between the count
  and error blocks while the other runs, and one reader for a read to straddle
  an execution; three executions let a task run twice.
- **CachedProvider.** Two callers race a fetch against a store; a TTL of 2 and
  3 ticks reach a hit, an expiry and a tick between a hit's two clock
  reads, and two versions let the data change under a fetch.

Fairness: only `ServiceShutdown` (and `MC_Service`, which runs it) and `NodeMain` assume any.

- `ServiceShutdown` assumes weak fairness of the waiting task's steps
  (`WF_vars(Waiter)`): tokio polls every woken task, and a task whose
  `changed()` is ready is woken. `MC_Service` keeps the same fairness for
  the waiter alone; the `ManagedService` callers get none.
- `NodeMain` assumes weak fairness of main's steps (`WF_allVars(Main)`): the
  main task is runnable whenever it has an event to receive, a step to
  finish, or a Ctrl-C to take.

`select!` picks randomly among ready branches, but no fairness between the
branches is assumed. Weak fairness of main as a whole lets the event branch
win every race. The host's sends and drop get no
fairness, because nothing obliges the host to make them. Every other property
is a safety property. The trackers, limiters and plugin wrappers are driven
by external calls that the code never forces to happen.

Deadlock: every run checks it except two:

- `node_startup`: main ends (it returns Ok or an error, or is killed), and
  the final state has no successor.
- the shutdown runs, which end once the wait has returned and the host has
  no sends left.

## Proofs (TLAPS)

`SubnetTrackerProofs` proves, for one tracker and any constants that satisfy
`SubnetConstants`:

- that `add_connection` and `remove_connection` keep the map well typed
  (`AddType`, `RemoveType`);
- exactly what each does to every prefix count (`AddCount`, `RemoveCount`).

`AdmissionProofs` instantiates these lemmas for both trackers and proves, for
every value of the constants that satisfies `ConnAssumption` (finitely many
handles) and `PrefixAssumption`:

- `TypeCorrect`: `Spec => []TypeOK`.
- `SlotAccounting`: `Spec => []IInv`.
  - `IInv` is `TypeOK /\ Slots24 /\ Slots16`: for each prefix, the number of
    connections holding a slot of it (`Holders24`/`Holders16`: stages between
    the tracker's successful add and its remove) is at most the tracker's
    count, and the count is at most the limit.
  - `SybilLimits` alone is not inductive. Admitting a connection needs the
    count to bound the connections already in the pipeline, including those
    still waiting for a later tracker.
  - The count may exceed the holders: a connection dropped by a later tracker
    keeps its slot. This is the leak `admission_partial_leak` shows.
- `SybilSafety`: `Spec => []SybilLimits`.
  - The admitted connections of a prefix are a subset of its holders.

`TrackedActionProofs` proves, for every finite set of tasks and readers:

- `CoverInvariant`: `Spec => []CountsCover`. `CountsCover` adds to the type
  invariant that a task at its error block did fail, and that `error_count`
  plus the failed tasks between their count and error blocks is at most
  `execution_count`. Each `IncCount` raises the right side before its
  `IncErrors` moves an element from the pending set into `error_count`.
- `CountsOrdered`: `Spec => []ErrorsWithinExecutions`, which follows.

`CachedProviderProofs` proves `HitAgeIsTimeSinceStore`:
`Spec => HitAgeIsElapsed`, for any TTL and any set of callers. The age a hit
reports is `now - storedAt`, the time since the entry was written. This holds
even when the clock ticks between the freshness test and the age read.
The action property follows from the inductive invariant `ProviderInv`,
which conjoins `TypeOK` with two facts:

- `CacheStamp`: the entry expires exactly `ttl` after `storedAt`, and
  `storedAt <= now`.
- `ReaderSeesEntry`: a caller between its two reads sees an entry. `Store`
  and `Invalidate` need the write lock, which is not granted while a reader
  holds the read lock (`NoReader`).

`AgeStep` shows that only the caller's own `ReadAge` takes it from `age`
back to `idle`. By `CacheStamp`, `ReadAge` reports
`now - (expires_at - ttl) = now - storedAt`.

`ServiceShutdownProofs` proves `ShutdownOnlyOnTrue`: `Spec => []ReturnsOnShutdown`.
With the type invariant the property is inductive: the loop is left only by
`Check` reading true, or at once when there is no receiver.
It EXTENDS `MC_Service` and carries the result to the composed system:

- `ContextSteps`: every step of `ServiceNext` is a step of the context or
  leaves its variables alone. So `ComposedShutdownOnlyOnTrue` gives
  `ServiceSpec => []ReturnsOnShutdown`.

`ConnectionRateLimiterProofs` holds the per-IP limiter's lemmas. Each states
what one operation does to `LimiterInv`, which is `TypeOK` plus "no entry's
`last` is after `now`".
The lemmas are `AttemptStep`, `FailureStep`, `SuccessStep`, `CleanupStep`,
`TickStep` and `StutterStep`. On the delay:

- `DelayMatchesSpec`: below 33 failures `calculate_delay` equals the
  spec's `min(2^(f-1), max_delay)`. The exponent is then at most 31, so the
  `as u32` cast keeps the power.
- `Pow2Nat`: the provers evaluate `2^k` only at a literal exponent, so this
  lemma goes through the 30 exponents below the cap one by one.
- `BackoffFromInv` and `WaitAdviceFromInv` derive the two properties from
  the invariant.

`AdmissionPipelineProofs` proves, for every value of the constants that
`GateAssumption` allows, properties of the composed pipeline:

- `PipelineWindowCap` (`[]WindowCap`), `PipelineNoSpuriousRejection`
  (`[]NoSpuriousRejection`), `PipelineBoundedTimes` (`[]BoundedTimes`) and
  `PipelineCapacityAdvice` (`[]CapacityAdvice`): the global limiter.
- `PipelineTypeCorrect` (`[]PipelineTypeOK`).
- `PipelineSlotAccounting` (`[]IInv`) and `PipelineSybilSafety`
  (`[]SybilLimits`).
- `PipelineTotalCap` (`[]TotalCap`).
- `PipelineBackoff` (`[]BackoffRespected`, for `MaxFailures <= 33`).
- `PipelineWaitAdvice` (`[]WaitAdvice`, for `MaxFailures \in 1..33`).

The inductive invariant `PipeInv` has three parts:

- `AdmissionProofs`' `IInv`. `GateKeepsIInv`: the global gate only gives
  an idle connection an address.
- `TotalInv`: the total set is finite and within its cap. `TotalMoves`
  lists the three ways a step can change it.
- The limiter's `LimiterInv`.

Two lemmas bridge the pipeline's limiter instance `R` and the proofs
module's instance `RP`:

- `LimiterAgrees` shows their actions are the same formulas.
- `PropertiesAgree` shows the same for their properties.

So the limiter lemmas apply step by step (`PipeStep`).

The global limiter's properties are not inductive on their own. Whether an
admission breaks `WindowCap` depends on the history, not only on the Vec.
Its invariant `GInv` adds two facts to them:

- `TimesPast`: no admission in the history is stamped after `now`.
- `WindowKept`: every admission still inside the window ending `now` is in
  `connection_times`, because `cleanup_expired` drops only expired entries.

Together they give `LiveCounted`. The admissions of the history in the
window ending `now` are exactly the entries `cleanup_expired` keeps. So
`AdmittedIn(now)` and `current_count` are both the size of the pruned Vec.
The steps then go as follows:

- An admission adds one entry, stamped `now`, to that window and to no
  earlier one (`GAdmitKeeps`).
- A rejection finds that window full (`GRejectKeeps`).
- A tick's new window counts only entries the Vec already holds, at most
  `max_per_window` of them (`GTickKeeps`).

Every other pipeline step leaves the limiter alone (`GPipeStep`). TLC
checked `GInv`, together with `GatedIdle`, as an invariant of the
`admission_pipeline` instance before the proof (1,456,760 distinct
states). `GatedIdle` says that a handle between the two limiters is idle.
`GatedStep` keeps it: the only step that moves a gated handle, the per-IP
gate, also takes it out of `gated`. It completes `PipelineTypeOK`.

The two hypotheses on `MaxFailures` are needed:

- Above 33 the failure count reaches exponents whose `as u32` cast is 0. The
  run `ratelimit_u32_truncation` shows `BackoffRespected` violated there.
- With `MaxFailures = 0` TLC finds `WaitAdvice` false in the initial state.
  An untracked address is at the failure limit, yet `time_until_allowed`
  answers 0.

`NodeMainProofs` proves `PeerCountIsExact`: `NodeSpec => []PeerCountExact`,
for any finite set of peers and any counter modulus above their number
(`NodeAssumption`, which requires `Peers` to be finite). The peer count is
not inductive by itself. Its strengthening `CountInv` states that, for each peer, the connection events
still pending (the channel, with `ev` in front while main handles it)
alternate:

- the j-th event is a `PeerConnected` exactly when the number of that
  peer's events after it is even and the peer is connected now, or the
  number is odd and it is not (`Alternates`);
- the parity is stated with the rank of a position (`RankIn`), a
  cardinality, so no induction over the channel is needed.

From the alternation, the event main handles tells whether its peer was
counted:

- a `PeerConnected` finds its peer uncounted, so `Counted` grows by one, to
  at most `|Peers| < CounterMod`;
- a `PeerDisconnected` finds its peer counted, so `Counted` shrinks by one,
  to no less than zero;
- so `fetch_add` and `fetch_sub` never wrap.

The lemmas about appending to and taking the head of a sequence (`AppendSame`,
`AppendOther`, `TailShift`) compute positions and ranks. `TailShift` maps
the positions after the head one below by an explicit bijection, and uses
`FS_Bijection`. TLC checked `CountInv` as an invariant of the
`node_startup` instance (543,713 distinct states) before the proof.

`NodeMainProofs` also proves `ValidatorMatchesSpec`:
`NodeSpec => []MatchesSpec`. `validate_network_config` returns Ok exactly
when spec.md 4.5/4.6 accept the configuration. This holds for every set of
parts, every `Prefix16` and every bound allowed by `BootstrapAssumption`.
The inductive invariant `BInv` states the following:

- the configuration is typed;
- before the loop, `i = 1` and `subnets_16` is empty;
- during the loop, the list is non-empty and long enough, and `subnets_16`
  is `Scanned(peers, i - 1)`: the /16s of the IPv4 first-IP parts of the
  entries already scanned;
- after the loop, the list (if any) passed both checks;
- once done, the result is Ok exactly when `SpecAccepts` holds.

The loop step rests on these lemmas:

- `ScanSplit`: `Scanned` grows by one entry's prefix.
- `ExtractFirst`: `extract_ip_from_multiaddr` returns the part that
  `FirstIP` picks. Its position is found by `SelectInSeq` as the least IP
  position, and by `FirstIP` with `CHOOSE` over positions. The two
  `CHOOSE`s pick from equivalent predicates. The least element exists by
  `WFMin` from `WellFoundedInduction`.
- `BootstrapAssumption`: the absent values `NoIP` and `NoSubnet` are
  neither parts nor prefixes.
- `ScannedFinite`: the count compared with `MIN_BOOTSTRAP_PEERS` is a
  natural, because the scanned set is the image of a finite set of
  positions (`FS_Surjection`).

Every other node step leaves the validator's variables unchanged
(`NodeFrame`). TLC checked `BInv` on the `node_startup` instance
(543,713 distinct states) before the proof.

The stats underflow is not contradicted by this: the counters are ordered in
every state, but a reader's two reads are from different states.

How the `AdmissionProofs` step proof is organised:

- `Slots24Kept`/`Slots16Kept`: a step that moves one connection changes the
  holder set of a prefix only in that connection (`SlotBound`, a
  cardinality lemma). So the invariant is kept when the count moves with that
  connection's slot (`Count24Step`).
- Each action then supplies that relation from `AddCount`/`RemoveCount`.
- The remove step needs the count of the prefix to be at least 1. That comes
  from the invariant itself: the connection being removed is a holder.

What stays with TLC:

- the violated properties;
- liveness: `ShutdownNoticed`, `PeerCountCatchesUp` and the violated
  `WaitSettles` (fairness and `ENABLED` are out of the prover's reach).

## Not modelled

- `SecurityConfig::default` and the constants: data only. The text of a
  multiaddr is abstracted to the classes of its parts, so IP parsing itself
  (`str::parse::<IpAddr>`) is trusted.
- The `Service` trait's default methods and `ManagedService`'s accessors
  (`name`, `inner`, `uptime`'s arithmetic): data only. `ManagedService`'s
  channel receiver is never handed out, so `MC_Service` composes it with
  `ServiceShutdown` without shared state.
- `PluginBuilder` (`builder.rs`): a by-value data builder.
- `transport.rs` apart from its outcome, and `search/mod.rs`: configuration
  and I/O glue.
- Plugin types and errors: data only.
- `main.rs`: what the `init` command writes, the HTTP GET and JSON parse of
  `check_health`, and logging. `NodeMain` keeps only their outcomes (success
  or failure; ok, error or timeout), because they are file and network I/O
  with no state that the node keeps.

## Lost Ctrl-C (not a run)

`NodeMain` also states `StopsOnCtrlC`: a SIGINT that the loop's `ctrl_c()`
has seen leads to the node shutting down. TLC refutes it on the
`node_startup` instance, in about 20 seconds. In the trace, two peers'
events are queued. The first SIGINT arrives while main handles an event.
The second one is seen by the pending `ctrl_c()`, but `select!` takes the
ready event instead and drops the future that saw the signal. The node then
runs on. Pressing Ctrl-C again once the channel is idle does stop it, and
the program promises no more than "Press Ctrl+C to stop". The project
records this as a hazard and does not spend a violation run on it.
