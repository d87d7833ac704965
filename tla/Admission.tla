----------------------------- MODULE Admission -----------------------------
(***************************************************************************)
(* The admission pipeline that the network manager runs over the trackers  *)
(* of src/node/src/network/security.rs (spec.md sections 2 and 5).  Each   *)
(* inbound connection, once past the rate limiters, is offered in turn to  *)
(* the /24 tracker, the /16 tracker and the total-connection tracker with  *)
(* add_connection; any rejection drops the attempt.  On disconnect the     *)
(* address is removed from the three trackers.                             *)
(*                                                                         *)
(* Each tracker is a plain &mut structure behind its own lock, so every    *)
(* tracker call is one atomic step, while the pipeline as a whole is not:  *)
(* the steps of different connections interleave.  A connection is a       *)
(* model value of Conn whose stage in the pipeline is pc[c]; a handle is   *)
(* reused for a new connection once its attempt is dropped or torn down.   *)
(*                                                                         *)
(* The rate limiters come before the trackers and change none of their    *)
(* state: a rate-limited attempt never reaches them.  Since an incoming    *)
(* connection may arrive at any time here, leaving the limiters out only   *)
(* adds behaviours; they are modelled on their own in GlobalRateLimiter    *)
(* and ConnectionRateLimiter.                                              *)
(***************************************************************************)
EXTENDS Naturals, FiniteSets

CONSTANTS
    IP,              \* addresses of remote peers
    Conn,            \* connection handles (model values)
    Subnet24,        \* /24 prefixes of the IPv4 addresses in IP
    Subnet16,        \* /16 prefixes of the IPv4 addresses in IP
    NoSubnet,        \* extract_subnet_* returned None (IPv6)
    Prefix24,        \* extract_subnet_24, as [IP -> Subnet24 \cup {NoSubnet}]
    Prefix16,        \* extract_subnet_16, as [IP -> Subnet16 \cup {NoSubnet}]
    MaxPerSubnet24,  \* SubnetTracker max_per_subnet (default 5)
    MaxPerSubnet16,  \* Subnet16Tracker max_per_subnet (default 3)
    MaxConnections   \* ConnectionTracker max_connections

ASSUME ConnAssumption == IsFiniteSet(Conn)

ASSUME PrefixAssumption ==
    /\ IP # {}
    /\ NoSubnet \notin Subnet24 \cup Subnet16
    /\ Prefix24 \in [IP -> Subnet24 \cup {NoSubnet}]
    /\ Prefix16 \in [IP -> Subnet16 \cup {NoSubnet}]
    /\ MaxPerSubnet24 \in Nat
    /\ MaxPerSubnet16 \in Nat
    /\ MaxConnections \in Nat

VARIABLES
    sub24,   \* SubnetTracker.connections
    sub16,   \* Subnet16Tracker.connections
    total,   \* ConnectionTracker.connections
    pc,      \* pc[c]: the stage of connection c
    peer     \* peer[c]: the remote address of connection c

vars == <<sub24, sub16, total, pc, peer>>

Tracker24 == INSTANCE SubnetTracker
    WITH connections <- sub24, Subnet <- Subnet24,
         ExtractSubnet <- Prefix24, MaxPerSubnet <- MaxPerSubnet24
Tracker16 == INSTANCE SubnetTracker
    WITH connections <- sub16, Subnet <- Subnet16,
         ExtractSubnet <- Prefix16, MaxPerSubnet <- MaxPerSubnet16
Total == INSTANCE ConnectionTracker WITH connections <- total

(* The stages of a connection.  "sub24", "sub16" and "total" wait for the *)
(* add_connection call of that tracker; "rm16" and "rmTotal" wait for the *)
(* remove_connection call of that tracker after the disconnect event.     *)
Stage == {"idle", "sub24", "sub16", "total", "connected", "rm16", "rmTotal"}

TypeOK ==
    /\ Tracker24!TypeOK
    /\ Tracker16!TypeOK
    /\ Total!TypeOK
    /\ pc \in [Conn -> Stage]
    /\ peer \in [Conn -> IP]

Init ==
    /\ Tracker24!Init
    /\ Tracker16!Init
    /\ Total!Init
    /\ pc = [c \in Conn |-> "idle"]
    /\ peer = [c \in Conn |-> CHOOSE ip \in IP : TRUE]

(* A connection from ip reaches the trackers (it passed the limiters).    *)
IncomingConnection(c, ip) ==
    /\ pc[c] = "idle"
    /\ pc' = [pc EXCEPT ![c] = "sub24"]
    /\ peer' = [peer EXCEPT ![c] = ip]
    /\ UNCHANGED <<sub24, sub16, total>>

(* The stage to go to after a tracker accepts (ok) or rejects the call.   *)
Advance(c, ok, next) == pc' = [pc EXCEPT ![c] = IF ok THEN next ELSE "idle"]

(* subnet_tracker.add_connection(ip); an Err drops the attempt.           *)
AddSubnet24(c) ==
    /\ pc[c] = "sub24"
    /\ Tracker24!AddConnection(peer[c])
    /\ Advance(c, Tracker24!AddSucceeds(peer[c]), "sub16")
    /\ UNCHANGED <<sub16, total, peer>>

(* subnet16_tracker.add_connection(ip); an Err drops the attempt.         *)
AddSubnet16(c) ==
    /\ pc[c] = "sub16"
    /\ Tracker16!AddConnection(peer[c])
    /\ Advance(c, Tracker16!AddSucceeds(peer[c]), "total")
    /\ UNCHANGED <<sub24, total, peer>>

(* connection_tracker.add_connection(ip); Ok admits the connection.       *)
AddTotal(c) ==
    /\ pc[c] = "total"
    /\ Total!AddConnection(peer[c])
    /\ Advance(c, Total!AddSucceeds(peer[c]), "connected")
    /\ UNCHANGED <<sub24, sub16, peer>>

(* The peer disconnects: subnet_tracker.remove_connection(ip).            *)
RemoveSubnet24(c) ==
    /\ pc[c] = "connected"
    /\ Tracker24!RemoveConnection(peer[c])
    /\ pc' = [pc EXCEPT ![c] = "rm16"]
    /\ UNCHANGED <<sub16, total, peer>>

(* subnet16_tracker.remove_connection(ip)                                 *)
RemoveSubnet16(c) ==
    /\ pc[c] = "rm16"
    /\ Tracker16!RemoveConnection(peer[c])
    /\ pc' = [pc EXCEPT ![c] = "rmTotal"]
    /\ UNCHANGED <<sub24, total, peer>>

(* connection_tracker.remove_connection(ip); the handle is free again.    *)
RemoveTotal(c) ==
    /\ pc[c] = "rmTotal"
    /\ Total!RemoveConnection(peer[c])
    /\ pc' = [pc EXCEPT ![c] = "idle"]
    /\ UNCHANGED <<sub24, sub16, peer>>

Next ==
    \E c \in Conn :
        \/ \E ip \in IP : IncomingConnection(c, ip)
        \/ AddSubnet24(c)
        \/ AddSubnet16(c)
        \/ AddTotal(c)
        \/ RemoveSubnet24(c)
        \/ RemoveSubnet16(c)
        \/ RemoveTotal(c)

Spec == Init /\ [][Next]_vars

-----------------------------------------------------------------------------
(* The connections that hold a slot of a tracker: they passed its         *)
(* add_connection and have not yet been removed from it.                  *)
Holds24 == {"sub16", "total", "connected"}
Holds16 == {"total", "connected", "rm16"}

Holders24(s) == {c \in Conn : pc[c] \in Holds24 /\ Prefix24[peer[c]] = s}
Holders16(s) == {c \in Conn : pc[c] \in Holds16 /\ Prefix16[peer[c]] = s}

(* The admitted connections whose address is in subnet s.                 *)
Connected24(s) == {c \in Conn : pc[c] = "connected" /\ Prefix24[peer[c]] = s}
Connected16(s) == {c \in Conn : pc[c] = "connected" /\ Prefix16[peer[c]] = s}

(* Sybil protection (spec 4.1, 8): however the add and remove calls of    *)
(* concurrent connections interleave, no /24 prefix has more than         *)
(* MaxPerSubnet24 admitted connections and no /16 prefix more than        *)
(* MaxPerSubnet16.                                                         *)
SybilLimits ==
    /\ \A s \in Subnet24 : Cardinality(Connected24(s)) <= MaxPerSubnet24
    /\ \A s \in Subnet16 : Cardinality(Connected16(s)) <= MaxPerSubnet16

(* The inductive strengthening of SybilLimits: every prefix count covers  *)
(* the connections holding a slot of it, and stays within the limit.      *)
Slots24 ==
    \A s \in Subnet24 :
        /\ Cardinality(Holders24(s)) <= Tracker24!Count(s)
        /\ Tracker24!Count(s) <= MaxPerSubnet24
Slots16 ==
    \A s \in Subnet16 :
        /\ Cardinality(Holders16(s)) <= Tracker16!Count(s)
        /\ Tracker16!Count(s) <= MaxPerSubnet16

IInv == TypeOK /\ Slots24 /\ Slots16

(* Total cap (spec.md 4.4, 8): the total tracker never holds more than   *)
(* max_connections addresses, whatever the interleaving of the pipeline's *)
(* add and remove calls.                                                   *)
TotalCap == Cardinality(total) <= MaxConnections

(* spec.md section 5: a connection may pass one tracker and be rejected by *)
(* a later one "without correctness issues, since rejection at any stage  *)
(* simply drops the connection attempt with no partial external effect".  *)
(* Stated on the /24 tracker: its count for every prefix is exactly the   *)
(* number of connections holding a slot of it, so a dropped attempt keeps *)
(* no slot.                                                                *)
NoPartialAdmission ==
    \A s \in Subnet24 : Tracker24!Count(s) = Cardinality(Holders24(s))

(* spec.md sections 4.4 and 8: the total tracker is a hard ceiling on     *)
(* simultaneous connections, keyed by address: the addresses of the       *)
(* admitted connections never number more than MaxConnections.            *)
ConnectedPeersCap ==
    Cardinality({peer[c] : c \in {d \in Conn : pc[d] = "connected"}})
        <= MaxConnections
=============================================================================
