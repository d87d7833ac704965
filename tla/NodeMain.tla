----------------------------- MODULE NodeMain -----------------------------
(***************************************************************************)
(* main of src/node/src/main.rs: the init and health commands, and the    *)
(* start command, which loads the configuration, brings the P2P network   *)
(* up, initialises search, spawns the API server and runs the event loop  *)
(* that keeps the peer count the API reports, until                       *)
(* Ctrl-C shuts the network down.  NetworkManager is not part of the      *)
(* source: following spec.md 2 and 4.6, NetworkManager::new runs          *)
(* validate_network_config (the validator of BootstrapValidator, one step *)
(* per check) before it builds the transport, and the running network     *)
(* emits PeerConnected and PeerDisconnected as peers come and go, in       *)
(* order, on the event channel main took from it.  Every other event is   *)
(* only logged.                                                            *)
(*                                                                         *)
(* SIGINT: until the first signal::ctrl_c() is polled the default         *)
(* disposition kills the process.  After that tokio's handler is           *)
(* installed for good, and each call of ctrl_c() subscribes anew, seeing  *)
(* only signals that arrive after it: a signal that arrives while main is *)
(* handling an event, between two select! iterations, reaches no listener.*)
(***************************************************************************)
EXTENDS BootstrapValidator, Integers

CONSTANTS
    Peers,       \* remote peer ids (model values)
    MaxEvents,   \* bound on the events the network emits
    MaxSignals,  \* bound on the SIGINTs delivered
    CounterMod   \* 2^64 for AtomicU64; a small power of two for TLC

ASSUME NodeAssumption ==
    /\ MaxEvents \in Nat /\ MaxSignals \in Nat
    /\ IsFiniteSet(Peers) /\ CounterMod \in Nat \ {0}
    /\ Cardinality(Peers) < CounterMod

(* build_transport's outcomes: Ok, or the Err of noise::Config::new.      *)
TransportBuilt == BOOLEAN

Event == [kind : {"conn", "disc", "other"}, peer : Peers]

VARIABLES
    mpc,         \* main's place: "dispatch", "load", "new", "search", "api", "select",
                 \* "handle", "shutdown", "exited", "failed", "killed"
    hybrid,      \* hybrid_search.is_some()
    api,         \* the spawned API task: "none", "running", "failed"
    peer_count,  \* the AtomicU64 shared with the API
    ev,          \* the event select! returned, being handled
    chan,        \* the event channel, oldest first
    connected,   \* the peers the network is connected to
    netUp,       \* the network is running (new succeeded, no shutdown yet)
    emitted,     \* events emitted so far
    sigPending,  \* the current ctrl_c() future has seen a SIGINT
    signals      \* SIGINTs delivered so far

nodeVars == <<mpc, hybrid, api, peer_count, ev, chan, connected, netUp,
              emitted, sigPending, signals>>
allVars == <<vars, nodeVars>>

NoEvent == [kind |-> "other", peer |-> CHOOSE p \in Peers : TRUE]

NodeTypeOK ==
    /\ TypeOK
    /\ mpc \in {"dispatch", "load", "new", "search", "api", "select", "handle",
                "shutdown", "exited", "failed", "killed"}
    /\ hybrid \in BOOLEAN /\ api \in {"none", "running", "failed"}
    /\ peer_count \in 0..(CounterMod - 1)
    /\ ev \in Event /\ chan \in Seq(Event) /\ connected \subseteq Peers
    /\ netUp \in BOOLEAN /\ emitted \in 0..MaxEvents
    /\ sigPending \in BOOLEAN /\ signals \in 0..MaxSignals

(* Cli::parse and init_logging; the configuration is any that the          *)
(* validator's Init allows.                                                *)
NodeInit ==
    /\ Init
    /\ mpc = "dispatch" /\ hybrid = FALSE /\ api = "none" /\ peer_count = 0
    /\ ev = NoEvent /\ chan = <<>> /\ connected = {}
    /\ netUp = FALSE /\ emitted = 0 /\ sigPending = FALSE /\ signals = 0

(* check_health's outcomes raced against the 5 s tokio::time::timeout: a  *)
(* response, an Err from any of its steps (connect, write, read, split,    *)
(* JSON), or the timeout firing first.                                     *)
HealthOutcome == {"ok", "err", "timeout"}

(* The init command: NodeConfig::default().save(output)?.                  *)
InitCommand ==
    /\ mpc = "dispatch"
    /\ \E saved \in BOOLEAN : mpc' = IF saved THEN "exited" ELSE "failed"
    /\ UNCHANGED <<vars, hybrid, api, peer_count, ev, chan, connected, netUp,
                   emitted, sigPending, signals>>

(* The health command: a response is logged and main returns Ok; an error *)
(* or the timeout ends the process with exit(1).                           *)
HealthCommand ==
    /\ mpc = "dispatch"
    /\ \E r \in HealthOutcome : mpc' = IF r = "ok" THEN "exited" ELSE "failed"
    /\ UNCHANGED <<vars, hybrid, api, peer_count, ev, chan, connected, netUp,
                   emitted, sigPending, signals>>

(* The start command begins.                                               *)
StartCommand ==
    /\ mpc = "dispatch"
    /\ mpc' = "load"
    /\ UNCHANGED <<vars, hybrid, api, peer_count, ev, chan, connected, netUp,
                   emitted, sigPending, signals>>

(* The config file exists and loads, exists and NodeConfig::load fails    *)
(* (main returns the error), or is absent and the default is used.        *)
LoadConfig ==
    /\ mpc = "load"
    /\ \E loaded \in BOOLEAN : mpc' = IF loaded THEN "new" ELSE "failed"
    /\ UNCHANGED <<vars, hybrid, api, peer_count, ev, chan, connected, netUp,
                   emitted, sigPending, signals>>

(* NetworkManager::new: a step of validate_network_config.                 *)
Validate ==
    /\ mpc = "new" /\ Next
    /\ UNCHANGED nodeVars

(* NetworkManager::new after the validator: an Err is returned by `?`;     *)
(* build_transport may still fail (noise::Config::new); on success the    *)
(* network runs and take_event_receiver hands main the channel.           *)
NewNetwork ==
    /\ mpc = "new" /\ stage = "done"
    /\ IF result = "ok"
       THEN \E built \in TransportBuilt :
               /\ mpc' = IF built THEN "search" ELSE "failed"
               /\ netUp' = built
       ELSE mpc' = "failed" /\ UNCHANGED netUp
    /\ UNCHANGED <<vars, hybrid, api, peer_count, ev, chan, connected,
                   emitted, sigPending, signals>>

(* Semantic search off, on, or on with EmbeddingService::new failing      *)
(* (warned, search disabled).                                              *)
InitSearch ==
    /\ mpc = "search"
    /\ \E enabled, ok \in BOOLEAN : hybrid' = (enabled /\ ok)
    /\ mpc' = "api"
    /\ UNCHANGED <<vars, api, peer_count, ev, chan, connected, netUp,
                   emitted, sigPending, signals>>

(* AppState with peer_count = 0, and tokio::spawn of the API server.       *)
SpawnApi ==
    /\ mpc = "api"
    /\ api' = "running" /\ mpc' = "select"
    /\ UNCHANGED <<vars, hybrid, peer_count, ev, chan, connected, netUp,
                   emitted, sigPending, signals>>

(* api_server.run returns Err: the task logs it and ends; the node runs on.*)
ApiFails ==
    /\ api = "running"
    /\ api' = "failed"
    /\ UNCHANGED <<vars, mpc, hybrid, peer_count, ev, chan, connected, netUp,
                   emitted, sigPending, signals>>

(* A loop whose event_rx is None: the branch's async block yields None,  *)
(* which fails the Some(event) pattern, so select! disables the branch.   *)
RecvNoReceiver ==
    /\ mpc = "select" /\ chan /= <<>> /\ FALSE
    /\ ev' = Head(chan) /\ chan' = Tail(chan)
    /\ mpc' = "handle" /\ sigPending' = FALSE
    /\ UNCHANGED <<vars, hybrid, api, peer_count, connected, netUp, emitted, signals>>

(* select!'s first branch: rx.recv() yields the oldest event.  The ctrl_c  *)
(* future of this iteration is dropped.                                    *)
Recv ==
    /\ mpc = "select" /\ chan /= <<>>
    /\ ev' = Head(chan) /\ chan' = Tail(chan)
    /\ mpc' = "handle" /\ sigPending' = FALSE
    /\ UNCHANGED <<vars, hybrid, api, peer_count, connected, netUp, emitted, signals>>

(* A handler whose disconnect arm adds instead of subtracting.             *)
HandleDisconnectAdds ==
    /\ mpc = "handle"
    /\ peer_count' = IF ev.kind \in {"conn", "disc"} THEN (peer_count + 1) % CounterMod
                     ELSE peer_count
    /\ mpc' = "select"
    /\ UNCHANGED <<vars, hybrid, api, ev, chan, connected, netUp, emitted,
                   sigPending, signals>>

(* The match on the event: fetch_add / fetch_sub (wrapping) on the        *)
(* connection events, a log line on the others; back to select!.          *)
Handle ==
    /\ mpc = "handle"
    /\ peer_count' = CASE ev.kind = "conn" -> (peer_count + 1) % CounterMod
                       [] ev.kind = "disc" -> (peer_count - 1) % CounterMod
                       [] OTHER -> peer_count
    /\ mpc' = "select"
    /\ UNCHANGED <<vars, hybrid, api, ev, chan, connected, netUp, emitted,
                   sigPending, signals>>

(* select!'s second branch: ctrl_c() resolved; go to network.shutdown().   *)
CtrlC ==
    /\ mpc = "select" /\ sigPending
    /\ sigPending' = FALSE /\ mpc' = "shutdown"
    /\ UNCHANGED <<vars, hybrid, api, peer_count, ev, chan, connected, netUp,
                   emitted, signals>>

(* network.shutdown().await, Ok or Err (warned); break; main returns Ok.  *)
Shutdown ==
    /\ mpc = "shutdown"
    /\ netUp' = FALSE /\ mpc' = "exited"
    /\ UNCHANGED <<vars, hybrid, api, peer_count, ev, chan, connected,
                   emitted, sigPending, signals>>

Main == InitCommand \/ HealthCommand \/ StartCommand \/ LoadConfig \/ Validate \/ NewNetwork \/ InitSearch \/ SpawnApi
        \/ Recv \/ Handle \/ CtrlC \/ Shutdown

(* The network: a peer connects or disconnects, or some other event.       *)
Emit(e) ==
    /\ netUp /\ emitted < MaxEvents
    /\ chan' = Append(chan, e) /\ emitted' = emitted + 1

Network ==
    /\ \/ \E p \in Peers \ connected :
             Emit([kind |-> "conn", peer |-> p]) /\ connected' = connected \cup {p}
       \/ \E p \in connected :
             Emit([kind |-> "disc", peer |-> p]) /\ connected' = connected \ {p}
       \/ \E p \in Peers : Emit([kind |-> "other", peer |-> p]) /\ UNCHANGED connected
    /\ UNCHANGED <<vars, mpc, hybrid, api, peer_count, ev, netUp, sigPending, signals>>

(* A SIGINT: fatal before the first ctrl_c() is polled, seen by the        *)
(* pending ctrl_c() in select!, lost otherwise.                            *)
Signal ==
    /\ mpc \notin {"exited", "failed", "killed"} /\ signals < MaxSignals
    /\ signals' = signals + 1
    /\ CASE mpc \in {"dispatch", "load", "new", "search", "api"} ->
               mpc' = "killed" /\ netUp' = FALSE /\ UNCHANGED sigPending
         [] mpc = "select" -> sigPending' = TRUE /\ UNCHANGED <<mpc, netUp>>
         [] OTHER -> UNCHANGED <<mpc, netUp, sigPending>>
    /\ UNCHANGED <<vars, hybrid, api, peer_count, ev, chan, connected, emitted>>

NodeNext == Main \/ ApiFails \/ Network \/ Signal

(* The main task runs whenever it can (tokio polls every woken task).      *)
NodeSpec == NodeInit /\ [][NodeNext]_allVars /\ WF_allVars(Main)

-----------------------------------------------------------------------------
(* The network's events main has not counted yet, oldest first.            *)
Pending == IF mpc = "handle" THEN <<ev>> \o chan ELSE chan

(* The peers main has last been told are connected: the network's set,     *)
(* less the connections and plus the disconnections still pending.        *)
Counted == {p \in Peers :
              (p \in connected) =
                 (Cardinality({k \in 1..Len(Pending) :
                                 Pending[k].peer = p /\ Pending[k].kind /= "other"}) % 2 = 0)}

(* peer_count, which the API reports, is the number of peers the events   *)
(* main has handled leave connected: it never wraps below zero, and it    *)
(* catches up with the network as the channel drains.                     *)
PeerCountExact == peer_count = Cardinality(Counted)

(* A Ctrl-C that the event loop sees makes main shut the network down and *)
(* return.  TLC refutes it: a SIGINT that lands while main handles an     *)
(* event, or whose ctrl_c() future loses select!'s race to a ready event, *)
(* reaches no listener (see the README).                                   *)
StopsOnCtrlC == sigPending ~> (mpc = "exited" /\ ~netUp)

(* While the node runs, the count the API reports catches up with the     *)
(* peers the network is connected to: main keeps draining the channel.    *)
PeerCountCatchesUp ==
    (mpc = "select") ~> (peer_count = Cardinality(connected) \/ mpc \in {"shutdown", "exited"})

(* The view TLC keys states on: once validation is over, the bootstrap    *)
(* list no longer matters to anything that follows.                        *)
NodeView == IF mpc \in {"dispatch", "load", "new"} THEN allVars ELSE <<result, nodeVars>>
=============================================================================
