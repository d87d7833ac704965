------------------------ MODULE SubnetTrackerProofs ------------------------
(***************************************************************************)
(* Lemmas about one subnet tracker: what add_connection and                *)
(* remove_connection do to the count of every prefix.  Admission's proofs  *)
(* instantiate them for the /24 and the /16 tracker.  Each lemma carries   *)
(* the facts about the constants it needs as hypotheses.                   *)
(***************************************************************************)
EXTENDS SubnetTracker, TLAPS

(* Count is a natural number.                                              *)
LEMMA CountType ==
    ASSUME TypeOK, NEW s
    PROVE  Count(s) \in Nat
BY DEF TypeOK, Count

(* add_connection and remove_connection keep the map a function from      *)
(* prefixes to counts.                                                     *)
LEMMA AddType ==
    ASSUME SubnetConstants, TypeOK, NEW ip \in IP, AddConnection(ip)
    PROVE  TypeOK'
<1> DEFINE s == ExtractSubnet[ip]
<1>1. s \in Subnet \cup {NoSubnet}
  BY DEF SubnetConstants
<1>2. Count(s) \in Nat
  BY CountType
<1>3. CASE s = NoSubnet
  BY <1>3 DEF AddConnection, TypeOK
<1>4. CASE s # NoSubnet
  BY <1>1, <1>2, <1>4 DEF AddConnection, TypeOK
<1>5. QED BY <1>3, <1>4

LEMMA RemoveType ==
    ASSUME SubnetConstants, TypeOK, NEW ip \in IP, RemoveConnection(ip)
    PROVE  TypeOK'
<1> DEFINE s == ExtractSubnet[ip]
<1>1. s \in Subnet \cup {NoSubnet}
  BY DEF SubnetConstants
<1>2. CASE s = NoSubnet \/ s \notin DOMAIN connections
  BY <1>2 DEF RemoveConnection, TypeOK
<1>3. CASE s # NoSubnet /\ s \in DOMAIN connections
  <2>1. (IF connections[s] = 0 THEN 0 ELSE connections[s] - 1) \in Nat
    BY <1>3 DEF TypeOK
  <2>2. QED BY <1>1, <1>3, <2>1 DEF RemoveConnection, TypeOK
<1>4. QED BY <1>2, <1>3

(* add_connection adds one to the count of the address's prefix when it   *)
(* succeeds, and leaves every count as it was when it fails.              *)
LEMMA AddCount ==
    ASSUME SubnetConstants, TypeOK, NEW ip \in IP, NEW s \in Subnet, AddConnection(ip)
    PROVE  Count(s)' = IF ExtractSubnet[ip] = s /\ AddSucceeds(ip)
                       THEN Count(s) + 1 ELSE Count(s)
<1> DEFINE p == ExtractSubnet[ip]
<1>1. p \in Subnet \cup {NoSubnet} /\ s # NoSubnet
  BY DEF SubnetConstants
<1>2. CASE p = NoSubnet
  BY <1>1, <1>2 DEF AddConnection, Count
<1>3. CASE p # NoSubnet
  <2>1. Count(p) \in Nat /\ MaxPerSubnet \in Nat
    BY CountType DEF SubnetConstants
  <2>2. AddSucceeds(ip) <=> Count(p) < MaxPerSubnet
    BY <1>3 DEF AddSucceeds, CanAcceptConnection
  <2>3. QED BY <1>3, <2>1, <2>2 DEF AddConnection, Count
<1>4. QED BY <1>2, <1>3

(* remove_connection of an address whose prefix has a positive count     *)
(* takes one from that count and leaves the others.                       *)
LEMMA RemoveCount ==
    ASSUME SubnetConstants, TypeOK, NEW ip \in IP, NEW s \in Subnet,
           RemoveConnection(ip),
           ExtractSubnet[ip] \in Subnet => Count(ExtractSubnet[ip]) >= 1
    PROVE  Count(s)' = IF ExtractSubnet[ip] = s
                       THEN Count(s) - 1 ELSE Count(s)
<1> DEFINE p == ExtractSubnet[ip]
<1>1. p \in Subnet \cup {NoSubnet} /\ s # NoSubnet
  BY DEF SubnetConstants
<1>2. CASE p = NoSubnet
  BY <1>1, <1>2 DEF RemoveConnection, Count
<1>3. CASE p # NoSubnet
  <2>1. p \in DOMAIN connections /\ connections[p] \in Nat /\ connections[p] >= 1
    BY <1>1, <1>3 DEF Count, TypeOK
  <2>2. QED BY <1>3, <2>1 DEF RemoveConnection, Count
<1>4. QED BY <1>2, <1>3
=============================================================================
