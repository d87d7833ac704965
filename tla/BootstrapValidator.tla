------------------------- MODULE BootstrapValidator -------------------------
(***************************************************************************)
(* validate_network_config and validate_bootstrap_peers of                 *)
(* src/node/src/network/security.rs: the startup check of the configured  *)
(* bootstrap list (spec.md 4.5, 4.6).  A multiaddr is the sequence of its  *)
(* '/'-separated parts; a part is an IPv4 literal, an IPv6 literal or any  *)
(* other word (protocol names, ports, peer ids, DNS names), and only the   *)
(* class of a part matters to the code: part.parse::<IpAddr>() succeeds on *)
(* exactly the first two.  An IPv4 literal's /16 is the constant function  *)
(* Prefix16.  The loop over the peers is one step per peer.                *)
(***************************************************************************)
EXTENDS Naturals, Sequences, FiniteSets, SequencesExt

CONSTANTS
    IPv4,          \* IPv4 literals (model values)
    IPv6,          \* IPv6 literals (model values)
    Word,          \* parts that do not parse as an IP address
    Prefix16,      \* extract_subnet_16 on an IPv4 literal
    NoIP,          \* extract_ip_from_multiaddr's None
    NoSubnet,      \* extract_subnet_16's None
    MinBootstrap,  \* MIN_BOOTSTRAP_PEERS
    MaxParts,      \* bound on the parts of one multiaddr
    MaxPeers,      \* bound on the length of the bootstrap list
    MaxConnValues  \* the max_connections values a configuration may hold

Part == IPv4 \cup IPv6 \cup Word

ASSUME BootstrapAssumption ==
    /\ IPv4 \cap (IPv6 \cup Word) = {} /\ IPv6 \cap Word = {}
    /\ DOMAIN Prefix16 = IPv4
    /\ NoIP \notin Part /\ NoSubnet \notin {Prefix16[a] : a \in IPv4}
    /\ MinBootstrap \in Nat /\ MaxParts \in Nat /\ MaxPeers \in Nat
    /\ MaxConnValues \subseteq Nat

Multiaddr == BoundedSeq(Part, MaxParts) \ {<<>>}

VARIABLES
    peers,       \* config.bootstrap_peers
    maxConn,     \* config.max_connections
    stage,       \* "start", "count", "loop", "maxconn", "done"
    i,           \* the loop's position in peers
    subnets_16,  \* the HashSet of /16 prefixes collected so far
    result       \* "none", "ok", "too_few", "not_diverse", "zero_max"

vars == <<peers, maxConn, stage, i, subnets_16, result>>

TypeOK ==
    /\ peers \in BoundedSeq(Multiaddr, MaxPeers)
    /\ maxConn \in MaxConnValues
    /\ stage \in {"start", "count", "loop", "maxconn", "done"}
    /\ i \in 1..(MaxPeers + 1)
    /\ subnets_16 \subseteq {Prefix16[a] : a \in IPv4}
    /\ result \in {"none", "ok", "too_few", "not_diverse", "zero_max"}

Init ==
    /\ peers \in BoundedSeq(Multiaddr, MaxPeers)
    /\ maxConn \in MaxConnValues
    /\ stage = "start"
    /\ i = 1
    /\ subnets_16 = {}
    /\ result = "none"

(* An extraction that keeps the last part that parses instead of the first.*)
ExtractIpLast(addr) ==
    LET k == SelectLastInSeq(addr, LAMBDA p : p \in IPv4 \cup IPv6)
    IN IF k = 0 THEN NoIP ELSE addr[k]

(* extract_ip_from_multiaddr: the first part that parses as an IpAddr.     *)
ExtractIpFromMultiaddr(addr) ==
    LET k == SelectInSeq(addr, LAMBDA p : p \in IPv4 \cup IPv6)
    IN IF k = 0 THEN NoIP ELSE addr[k]

(* SubnetTracker::extract_subnet_16: Some for IPv4, None for IPv6.         *)
ExtractSubnet16(ip) == IF ip \in IPv4 THEN Prefix16[ip] ELSE NoSubnet

(* validate_network_config: an empty list skips the bootstrap check.       *)
Start ==
    /\ stage = "start"
    /\ stage' = IF peers = <<>> THEN "maxconn" ELSE "count"
    /\ UNCHANGED <<peers, maxConn, i, subnets_16, result>>

(* validate_bootstrap_peers: too short a list is rejected before parsing.  *)
CheckCount ==
    /\ stage = "count"
    /\ IF Len(peers) < MinBootstrap
       THEN stage' = "done" /\ result' = "too_few"
       ELSE stage' = "loop" /\ UNCHANGED result
    /\ UNCHANGED <<peers, maxConn, i, subnets_16>>

(* One iteration of `for peer in peers`: a parsed IPv4 address adds its    *)
(* /16 to subnets_16.                                                      *)
ScanPeer ==
    /\ stage = "loop"
    /\ i <= Len(peers)
    /\ LET ip == ExtractIpFromMultiaddr(peers[i]) IN
       subnets_16' = IF ip /= NoIP /\ ExtractSubnet16(ip) /= NoSubnet
                     THEN subnets_16 \cup {ExtractSubnet16(ip)}
                     ELSE subnets_16
    /\ i' = i + 1
    /\ UNCHANGED <<peers, maxConn, stage, result>>

(* After the loop: fewer distinct /16s than MIN_BOOTSTRAP_PEERS rejects.    *)
CheckDiversity ==
    /\ stage = "loop"
    /\ i > Len(peers)
    /\ IF Cardinality(subnets_16) < MinBootstrap
       THEN stage' = "done" /\ result' = "not_diverse"
       ELSE stage' = "maxconn" /\ UNCHANGED result
    /\ UNCHANGED <<peers, maxConn, i, subnets_16>>

(* validate_network_config: max_connections == 0 is rejected.              *)
CheckMaxConnections ==
    /\ stage = "maxconn"
    /\ stage' = "done"
    /\ result' = IF maxConn = 0 THEN "zero_max" ELSE "ok"
    /\ UNCHANGED <<peers, maxConn, i, subnets_16>>

Next == Start \/ CheckCount \/ ScanPeer \/ CheckDiversity \/ CheckMaxConnections

Spec == Init /\ [][Next]_vars

-----------------------------------------------------------------------------
(* spec.md 4.5, 4.6 as a set comprehension: a non-empty list needs at      *)
(* least MIN_BOOTSTRAP_PEERS entries and as many distinct /16 prefixes      *)
(* among the IPv4 literals that are the first IP part of their entry.      *)
FirstIP(addr) == addr[CHOOSE k \in 1..Len(addr) :
                        /\ addr[k] \in IPv4 \cup IPv6
                        /\ \A j \in 1..(k - 1) : addr[j] \notin IPv4 \cup IPv6]
HasIP(addr) == \E k \in 1..Len(addr) : addr[k] \in IPv4 \cup IPv6
SpecPrefixes(ps) ==
    {Prefix16[FirstIP(ps[n])] : n \in {m \in 1..Len(ps) : HasIP(ps[m]) /\ FirstIP(ps[m]) \in IPv4}}
SpecAccepts(ps, mc) ==
    /\ ps /= <<>> => (Len(ps) >= MinBootstrap /\ Cardinality(SpecPrefixes(ps)) >= MinBootstrap)
    /\ mc > 0

(* validate_network_config returns Ok exactly for the configurations that *)
(* spec.md 4.5 and 4.6 accept, whatever the multiaddrs and their order.    *)
MatchesSpec == stage = "done" => (result = "ok" <=> SpecAccepts(peers, maxConn))
=============================================================================
