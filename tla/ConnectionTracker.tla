------------------------- MODULE ConnectionTracker -------------------------
(***************************************************************************)
(* ConnectionTracker of src/node/src/network/security.rs: the hard cap on  *)
(* the number of connected peer addresses.  It keeps a set of addresses,   *)
(* so adding an address that is already tracked is an idempotent success. *)
(***************************************************************************)
EXTENDS Naturals, FiniteSets

CONSTANTS
    IP,              \* the addresses that may connect
    MaxConnections   \* max_connections

(* connections: HashSet<IpAddr> *)
VARIABLE connections

TypeOK == connections \subseteq IP

Init == connections = {}

(* A can_accept_connection that compares with <= instead of <.           *)
CanAcceptConnectionLax == Cardinality(connections) <= MaxConnections

(* can_accept_connection *)
CanAcceptConnection == Cardinality(connections) < MaxConnections

(* add_connection returns Ok for an address already tracked, and          *)
(* otherwise when the set is below the cap.                                *)
AddSucceeds(ip) == ip \in connections \/ CanAcceptConnection

(* add_connection: inserts the address on success, no change on Err.      *)
AddConnection(ip) ==
    connections' = IF AddSucceeds(ip) THEN connections \cup {ip} ELSE connections

(* remove_connection *)
RemoveConnection(ip) == connections' = connections \ {ip}

Next == \E ip \in IP : AddConnection(ip) \/ RemoveConnection(ip)

Spec == Init /\ [][Next]_connections
=============================================================================
