--------------------------- MODULE SubnetTracker ---------------------------
(***************************************************************************)
(* The subnet connection counters of src/node/src/network/security.rs:    *)
(* SubnetTracker (per /24) and Subnet16Tracker (per /16).  The two types   *)
(* have the same fields and the same code and differ only in the prefix    *)
(* extraction (extract_subnet_24 / extract_subnet_16) and the default      *)
(* limit, so one module, instantiated twice, models both.                  *)
(*                                                                         *)
(* An address is a model value of IP; its prefix is the constant function  *)
(* ExtractSubnet, which maps an IPv6 address to NoSubnet (the code's       *)
(* None): IPv6 is exempt from the subnet limits.                           *)
(***************************************************************************)
EXTENDS Naturals

CONSTANTS
    IP,             \* the addresses that may connect
    Subnet,         \* the /24 (or /16) prefixes of the IPv4 addresses
    NoSubnet,       \* extract_subnet_* returned None (IPv6)
    ExtractSubnet,  \* [IP -> Subnet \cup {NoSubnet}]
    MaxPerSubnet    \* max_per_subnet

(* What the constants must satisfy; a module instantiating this one      *)
(* assumes it of its own constants.                                        *)
SubnetConstants ==
    /\ NoSubnet \notin Subnet
    /\ ExtractSubnet \in [IP -> Subnet \cup {NoSubnet}]
    /\ MaxPerSubnet \in Nat

(* connections: HashMap<[u8; N], usize>, a function whose domain is the   *)
(* set of prefixes that have an entry.                                     *)
VARIABLE connections

TypeOK ==
    /\ DOMAIN connections \subseteq Subnet
    /\ connections \in [DOMAIN connections -> Nat]

Init == connections = [s \in {} |-> 0]

(* self.connections.get(&subnet).copied().unwrap_or(0) *)
Count(s) == IF s \in DOMAIN connections THEN connections[s] ELSE 0

(* A can_accept_connection that compares with <= instead of <.           *)
CanAcceptConnectionLax(ip) ==
    \/ ExtractSubnet[ip] = NoSubnet
    \/ Count(ExtractSubnet[ip]) <= MaxPerSubnet

(* can_accept_connection: an address without a prefix is always accepted. *)
CanAcceptConnection(ip) ==
    \/ ExtractSubnet[ip] = NoSubnet
    \/ Count(ExtractSubnet[ip]) < MaxPerSubnet

(* add_connection returns Ok exactly when can_accept_connection holds.     *)
AddSucceeds(ip) == CanAcceptConnection(ip)

(* add_connection, both outcomes.  entry(subnet).or_insert(0) runs before  *)
(* the limit check, so a rejection of a prefix that had no entry leaves an *)
(* entry with count 0 behind; an accepted add increments the count.        *)
AddConnection(ip) ==
    LET s == ExtractSubnet[ip] IN
    IF s = NoSubnet
    THEN UNCHANGED connections
    ELSE connections' =
            [x \in DOMAIN connections \cup {s} |->
                IF x # s THEN connections[x]
                ELSE IF Count(s) >= MaxPerSubnet THEN Count(s) ELSE Count(s) + 1]

(* A remove_connection that drops the prefix's entry instead of           *)
(* decrementing it.                                                        *)
RemoveConnectionDropsEntry(ip) ==
    LET s == ExtractSubnet[ip] IN
    IF s = NoSubnet \/ s \notin DOMAIN connections
    THEN UNCHANGED connections
    ELSE connections' = [x \in DOMAIN connections \ {s} |-> connections[x]]

(* remove_connection: saturating decrement of an existing entry, and the   *)
(* entry is deleted when it reaches 0.  A prefix without an entry, or an   *)
(* IPv6 address, leaves the map alone.                                      *)
RemoveConnection(ip) ==
    LET s == ExtractSubnet[ip]
        n == IF connections[s] = 0 THEN 0 ELSE connections[s] - 1
    IN  IF s = NoSubnet \/ s \notin DOMAIN connections
        THEN UNCHANGED connections
        ELSE IF n = 0
             THEN connections' = [x \in DOMAIN connections \ {s} |-> connections[x]]
             ELSE connections' = [connections EXCEPT ![s] = n]

(* total_connections: the sum of the counts (a query, no state change).   *)

Next == \E ip \in IP : AddConnection(ip) \/ RemoveConnection(ip)

Spec == Init /\ [][Next]_connections
=============================================================================
