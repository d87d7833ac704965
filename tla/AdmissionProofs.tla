-------------------------- MODULE AdmissionProofs --------------------------
(***************************************************************************)
(* Proofs about the admission pipeline of Admission.tla, for every value   *)
(* of the constants that satisfies ConnAssumption and PrefixAssumption.    *)
(*                                                                         *)
(* SybilLimits is not inductive: a step that admits a connection needs to  *)
(* know that the tracker's count of its prefix bounds the connections      *)
(* already in it.  IInv adds that every prefix count covers the           *)
(* connections that hold a slot of it (Slots24, Slots16).  The count may  *)
(* exceed them: a connection dropped by a later tracker keeps its slot.   *)
(***************************************************************************)
EXTENDS Admission, FiniteSetTheorems, TLAPS

P24 == INSTANCE SubnetTrackerProofs
    WITH connections <- sub24, Subnet <- Subnet24,
         ExtractSubnet <- Prefix24, MaxPerSubnet <- MaxPerSubnet24
P16 == INSTANCE SubnetTrackerProofs
    WITH connections <- sub16, Subnet <- Subnet16,
         ExtractSubnet <- Prefix16, MaxPerSubnet <- MaxPerSubnet16

LEMMA Constants ==
    /\ P24!SubnetConstants
    /\ P16!SubnetConstants
BY PrefixAssumption DEF P24!SubnetConstants, P16!SubnetConstants

-----------------------------------------------------------------------------
(* Every step keeps the pipeline well typed.                              *)
LEMMA TypeStep == TypeOK /\ [Next]_vars => TypeOK'
<1> SUFFICES ASSUME TypeOK, [Next]_vars PROVE TypeOK'
  OBVIOUS
<1> USE DEF TypeOK
<1>1. ASSUME NEW c \in Conn, NEW ip \in IP, IncomingConnection(c, ip)
      PROVE TypeOK'
  BY <1>1 DEF IncomingConnection, Stage,
     Tracker24!TypeOK, Tracker16!TypeOK, Total!TypeOK
<1>2. ASSUME NEW c \in Conn, AddSubnet24(c) PROVE TypeOK'
  BY <1>2, Constants, P24!AddType DEF AddSubnet24, Advance, Stage,
     Tracker16!TypeOK, Total!TypeOK, P24!AddConnection, Tracker24!AddConnection,
     P24!TypeOK, Tracker24!TypeOK, P24!Count, Tracker24!Count
<1>3. ASSUME NEW c \in Conn, AddSubnet16(c) PROVE TypeOK'
  BY <1>3, Constants, P16!AddType DEF AddSubnet16, Advance, Stage,
     Tracker24!TypeOK, Total!TypeOK, P16!AddConnection, Tracker16!AddConnection,
     P16!TypeOK, Tracker16!TypeOK, P16!Count, Tracker16!Count
<1>4. ASSUME NEW c \in Conn, AddTotal(c) PROVE TypeOK'
  BY <1>4 DEF AddTotal, Advance, Stage, Total!AddConnection,
     Tracker24!TypeOK, Tracker16!TypeOK, Total!TypeOK
<1>5. ASSUME NEW c \in Conn, RemoveSubnet24(c) PROVE TypeOK'
  BY <1>5, Constants, P24!RemoveType DEF RemoveSubnet24, Stage,
     Tracker16!TypeOK, Total!TypeOK, P24!RemoveConnection,
     Tracker24!RemoveConnection, P24!TypeOK, Tracker24!TypeOK
<1>6. ASSUME NEW c \in Conn, RemoveSubnet16(c) PROVE TypeOK'
  BY <1>6, Constants, P16!RemoveType DEF RemoveSubnet16, Stage,
     Tracker24!TypeOK, Total!TypeOK, P16!RemoveConnection,
     Tracker16!RemoveConnection, P16!TypeOK, Tracker16!TypeOK
<1>7. ASSUME NEW c \in Conn, RemoveTotal(c) PROVE TypeOK'
  BY <1>7 DEF RemoveTotal, Stage, Total!RemoveConnection,
     Tracker24!TypeOK, Tracker16!TypeOK, Total!TypeOK
<1>8. CASE UNCHANGED vars
  BY <1>8 DEF vars, Tracker24!TypeOK, Tracker16!TypeOK, Total!TypeOK
<1>9. QED BY <1>1, <1>2, <1>3, <1>4, <1>5, <1>6, <1>7, <1>8 DEF Next

-----------------------------------------------------------------------------
(* The connections holding a slot of prefix s, for a given pipeline state. *)
HH(P, Pre, pcv, peerv, s) == {d \in Conn : pcv[d] \in P /\ Pre[peerv[d]] = s}

(* A holder set that changes only in c stays within a count that moves    *)
(* with c's slot.                                                          *)
LEMMA SlotBound ==
    ASSUME NEW S, NEW T, NEW c, IsFiniteSet(S), IsFiniteSet(T),
           T \ {c} = S \ {c}, NEW n \in Nat, NEW m \in Nat,
           Cardinality(S) <= n,
           m + (IF c \in S THEN 1 ELSE 0) >= n + (IF c \in T THEN 1 ELSE 0)
    PROVE  Cardinality(T) <= m
<1>1. Cardinality(S \ {c}) = IF c \in S THEN Cardinality(S) - 1 ELSE Cardinality(S)
  BY FS_RemoveElement, Zenon
<1>2. Cardinality(T \ {c}) = IF c \in T THEN Cardinality(T) - 1 ELSE Cardinality(T)
  BY FS_RemoveElement, Zenon
<1>3. Cardinality(S) \in Nat /\ Cardinality(T) \in Nat
  BY FS_CardinalityType
<1>4. QED BY <1>1, <1>2, <1>3

-----------------------------------------------------------------------------
(* A step of connection c: the other connections stay where they are.     *)
OnlyMoves(c) == \A d \in Conn \ {c} : pc'[d] = pc[d] /\ peer'[d] = peer[d]

(* What a step of c must do to the /24 counts to keep Slots24: stay      *)
(* within the limit, and fall by no more than the slots c gives up.      *)
Count24Step(c) ==
    \A s \in Subnet24 :
        /\ Tracker24!Count(s)' <= MaxPerSubnet24
        /\ Tracker24!Count(s)'
             + (IF c \in HH(Holds24, Prefix24, pc, peer, s) THEN 1 ELSE 0)
           >= Tracker24!Count(s)
             + (IF c \in HH(Holds24, Prefix24, pc', peer', s) THEN 1 ELSE 0)

(* Slots24 is kept by any step of one connection that moves the counts   *)
(* as Count24Step says.                                                   *)
LEMMA Slots24Kept ==
    ASSUME TypeOK, TypeOK', Slots24, NEW c \in Conn, OnlyMoves(c), Count24Step(c)
    PROVE  Slots24'
<1> SUFFICES ASSUME NEW s \in Subnet24
             PROVE  /\ Cardinality(Holders24(s))' <= Tracker24!Count(s)'
                    /\ Tracker24!Count(s)' <= MaxPerSubnet24
  BY DEF Slots24
<1> DEFINE S == HH(Holds24, Prefix24, pc, peer, s)
           T == HH(Holds24, Prefix24, pc', peer', s)
<1>1. Holders24(s) = S /\ Holders24(s)' = T
  BY DEF Holders24, HH
<1>2. T \ {c} = S \ {c} /\ IsFiniteSet(S) /\ IsFiniteSet(T)
  <2>1. T \ {c} = S \ {c}
    BY DEF OnlyMoves, HH
  <2>2. S \in SUBSET Conn /\ T \in SUBSET Conn
    BY DEF HH
  <2>3. QED BY <2>1, <2>2, ConnAssumption, FS_Subset
<1>3. Tracker24!Count(s) \in Nat /\ Tracker24!Count(s)' \in Nat
  BY DEF TypeOK, Tracker24!TypeOK, Tracker24!Count
<1>4. Cardinality(S) <= Tracker24!Count(s)
  BY <1>1 DEF Slots24
<1>5. Tracker24!Count(s)' <= MaxPerSubnet24
      /\ Tracker24!Count(s)' + (IF c \in S THEN 1 ELSE 0)
         >= Tracker24!Count(s) + (IF c \in T THEN 1 ELSE 0)
  BY DEF Count24Step
<1>6. Cardinality(T) <= Tracker24!Count(s)'
  BY <1>2, <1>3, <1>4, <1>5, SlotBound
<1>7. QED BY <1>1, <1>5, <1>6

(* Every step keeps Slots24.                                               *)
LEMMA Slots24Step == IInv /\ [Next]_vars => Slots24'
<1> SUFFICES ASSUME IInv, [Next]_vars PROVE Slots24'
  OBVIOUS
<1>0. TypeOK /\ TypeOK' /\ Slots24 /\ Slots16
  BY TypeStep DEF IInv
<1>1. ASSUME NEW c \in Conn, NEW ip \in IP, IncomingConnection(c, ip)
      PROVE  Slots24'
  <2>1. OnlyMoves(c)
    BY <1>0, <1>1 DEF IncomingConnection, OnlyMoves, TypeOK
  <2>2. Count24Step(c)
    BY <1>0, <1>1 DEF IncomingConnection, Count24Step, HH, Holds24, TypeOK,
       Tracker24!Count, Tracker24!TypeOK, Slots24
  <2>3. QED BY <1>0, <2>1, <2>2, Slots24Kept
<1>2. ASSUME NEW c \in Conn, AddSubnet24(c) PROVE Slots24'
  <2>1. OnlyMoves(c)
    BY <1>0, <1>2 DEF AddSubnet24, Advance, OnlyMoves, TypeOK
  <2> DEFINE p == Prefix24[peer[c]]
             ok == Tracker24!AddSucceeds(peer[c])
  <2>2. ASSUME NEW s \in Subnet24
        PROVE  Tracker24!Count(s)' = IF p = s /\ ok THEN Tracker24!Count(s) + 1
                                     ELSE Tracker24!Count(s)
    BY <1>0, <1>2, Constants, P24!AddCount
    DEF AddSubnet24, TypeOK, P24!AddConnection, Tracker24!AddConnection,
        P24!TypeOK, Tracker24!TypeOK, P24!Count, Tracker24!Count,
        P24!AddSucceeds, Tracker24!AddSucceeds,
        P24!CanAcceptConnection, Tracker24!CanAcceptConnection
  <2>3. ASSUME NEW s \in Subnet24, p = s, ok
        PROVE  Tracker24!Count(s) < MaxPerSubnet24
    BY <2>3, PrefixAssumption
    DEF Tracker24!AddSucceeds, Tracker24!CanAcceptConnection
  <2>4. ASSUME NEW s \in Subnet24
        PROVE  /\ c \notin HH(Holds24, Prefix24, pc, peer, s)
               /\ c \in HH(Holds24, Prefix24, pc', peer', s) <=> p = s /\ ok
    BY <1>0, <1>2 DEF AddSubnet24, Advance, HH, Holds24, TypeOK
  <2>5. ASSUME NEW s \in Subnet24
        PROVE  Tracker24!Count(s) \in Nat /\ Tracker24!Count(s) <= MaxPerSubnet24
    BY <1>0 DEF TypeOK, Tracker24!TypeOK, Tracker24!Count, Slots24
  <2>6. Count24Step(c)
    <3> SUFFICES ASSUME NEW s \in Subnet24
                 PROVE  /\ Tracker24!Count(s)' <= MaxPerSubnet24
                        /\ Tracker24!Count(s)'
                             + (IF c \in HH(Holds24, Prefix24, pc, peer, s) THEN 1 ELSE 0)
                           >= Tracker24!Count(s)
                             + (IF c \in HH(Holds24, Prefix24, pc', peer', s) THEN 1 ELSE 0)
      BY DEF Count24Step
    <3>1. CASE p = s /\ ok
      BY <3>1, <2>2, <2>3, <2>4, <2>5, PrefixAssumption
    <3>2. CASE ~(p = s /\ ok)
      BY <3>2, <2>2, <2>4, <2>5, PrefixAssumption
    <3>3. QED BY <3>1, <3>2
  <2>7. QED BY <1>0, <2>1, <2>6, Slots24Kept
<1>3. ASSUME NEW c \in Conn, AddSubnet16(c) PROVE Slots24'
  <2>1. OnlyMoves(c)
    BY <1>0, <1>3 DEF AddSubnet16, Advance, OnlyMoves, TypeOK
  <2>2. Count24Step(c)
    BY <1>0, <1>3 DEF AddSubnet16, Advance, Count24Step, HH, Holds24, TypeOK,
       Tracker24!Count, Tracker24!TypeOK, Slots24
  <2>3. QED BY <1>0, <2>1, <2>2, Slots24Kept
<1>4. ASSUME NEW c \in Conn, AddTotal(c) PROVE Slots24'
  <2>1. OnlyMoves(c)
    BY <1>0, <1>4 DEF AddTotal, Advance, OnlyMoves, TypeOK
  <2>2. Count24Step(c)
    BY <1>0, <1>4 DEF AddTotal, Advance, Count24Step, HH, Holds24, TypeOK,
       Tracker24!Count, Tracker24!TypeOK, Slots24
  <2>3. QED BY <1>0, <2>1, <2>2, Slots24Kept
<1>5. ASSUME NEW c \in Conn, RemoveSubnet24(c) PROVE Slots24'
  <2>1. OnlyMoves(c)
    BY <1>0, <1>5 DEF RemoveSubnet24, OnlyMoves, TypeOK
  <2> DEFINE p == Prefix24[peer[c]]
  <2>2. p \in Subnet24 => Tracker24!Count(p) >= 1
    <3> SUFFICES ASSUME p \in Subnet24 PROVE Tracker24!Count(p) >= 1
      OBVIOUS
    <3>1. c \in Holders24(p)
      BY <1>5 DEF RemoveSubnet24, Holders24, Holds24
    <3>2. IsFiniteSet(Holders24(p)) /\ Holders24(p) \in SUBSET Conn
      BY ConnAssumption, FS_Subset DEF Holders24
    <3>3. Cardinality(Holders24(p)) >= 1
      BY <3>1, <3>2, FS_EmptySet, FS_CardinalityType
    <3>4. Cardinality(Holders24(p)) <= Tracker24!Count(p)
      BY <1>0 DEF Slots24
    <3>5. Tracker24!Count(p) \in Nat
      BY <1>0 DEF TypeOK, Tracker24!TypeOK, Tracker24!Count
    <3>6. QED BY <3>2, <3>3, <3>4, <3>5, FS_CardinalityType
  <2>3. ASSUME NEW s \in Subnet24
        PROVE  Tracker24!Count(s)' = IF p = s THEN Tracker24!Count(s) - 1
                                     ELSE Tracker24!Count(s)
    BY <1>0, <1>5, <2>2, Constants, P24!RemoveCount
    DEF RemoveSubnet24, TypeOK, P24!RemoveConnection, Tracker24!RemoveConnection,
        P24!TypeOK, Tracker24!TypeOK, P24!Count, Tracker24!Count
  <2>4. ASSUME NEW s \in Subnet24
        PROVE  /\ c \in HH(Holds24, Prefix24, pc, peer, s) <=> p = s
               /\ c \notin HH(Holds24, Prefix24, pc', peer', s)
    BY <1>0, <1>5 DEF RemoveSubnet24, HH, Holds24, TypeOK
  <2>5. ASSUME NEW s \in Subnet24
        PROVE  Tracker24!Count(s) \in Nat /\ Tracker24!Count(s) <= MaxPerSubnet24
    BY <1>0 DEF TypeOK, Tracker24!TypeOK, Tracker24!Count, Slots24
  <2>6. Count24Step(c)
    <3> SUFFICES ASSUME NEW s \in Subnet24
                 PROVE  /\ Tracker24!Count(s)' <= MaxPerSubnet24
                        /\ Tracker24!Count(s)'
                             + (IF c \in HH(Holds24, Prefix24, pc, peer, s) THEN 1 ELSE 0)
                           >= Tracker24!Count(s)
                             + (IF c \in HH(Holds24, Prefix24, pc', peer', s) THEN 1 ELSE 0)
      BY DEF Count24Step
    <3>1. CASE p = s
      BY <3>1, <2>3, <2>4, <2>5, PrefixAssumption
    <3>2. CASE p # s
      BY <3>2, <2>3, <2>4, <2>5, PrefixAssumption
    <3>3. QED BY <3>1, <3>2
  <2>7. QED BY <1>0, <2>1, <2>6, Slots24Kept
<1>6. ASSUME NEW c \in Conn, RemoveSubnet16(c) PROVE Slots24'
  <2>1. OnlyMoves(c)
    BY <1>0, <1>6 DEF RemoveSubnet16, OnlyMoves, TypeOK
  <2>2. Count24Step(c)
    BY <1>0, <1>6 DEF RemoveSubnet16, Count24Step, HH, Holds24, TypeOK,
       Tracker24!Count, Tracker24!TypeOK, Slots24
  <2>3. QED BY <1>0, <2>1, <2>2, Slots24Kept
<1>7. ASSUME NEW c \in Conn, RemoveTotal(c) PROVE Slots24'
  <2>1. OnlyMoves(c)
    BY <1>0, <1>7 DEF RemoveTotal, OnlyMoves, TypeOK
  <2>2. Count24Step(c)
    BY <1>0, <1>7 DEF RemoveTotal, Count24Step, HH, Holds24, TypeOK,
       Tracker24!Count, Tracker24!TypeOK, Slots24
  <2>3. QED BY <1>0, <2>1, <2>2, Slots24Kept
<1>8. CASE UNCHANGED vars
  BY <1>0, <1>8 DEF vars, Slots24, Holders24, Tracker24!Count
<1>9. QED BY <1>1, <1>2, <1>3, <1>4, <1>5, <1>6, <1>7, <1>8 DEF Next

(* What a step of c must do to the /16 counts to keep Slots16: stay      *)
(* within the limit, and fall by no more than the slots c gives up.      *)
Count16Step(c) ==
    \A s \in Subnet16 :
        /\ Tracker16!Count(s)' <= MaxPerSubnet16
        /\ Tracker16!Count(s)'
             + (IF c \in HH(Holds16, Prefix16, pc, peer, s) THEN 1 ELSE 0)
           >= Tracker16!Count(s)
             + (IF c \in HH(Holds16, Prefix16, pc', peer', s) THEN 1 ELSE 0)

(* Slots16 is kept by any step of one connection that moves the counts   *)
(* as Count16Step says.                                                   *)
LEMMA Slots16Kept ==
    ASSUME TypeOK, TypeOK', Slots16, NEW c \in Conn, OnlyMoves(c), Count16Step(c)
    PROVE  Slots16'
<1> SUFFICES ASSUME NEW s \in Subnet16
             PROVE  /\ Cardinality(Holders16(s))' <= Tracker16!Count(s)'
                    /\ Tracker16!Count(s)' <= MaxPerSubnet16
  BY DEF Slots16
<1> DEFINE S == HH(Holds16, Prefix16, pc, peer, s)
           T == HH(Holds16, Prefix16, pc', peer', s)
<1>1. Holders16(s) = S /\ Holders16(s)' = T
  BY DEF Holders16, HH
<1>2. T \ {c} = S \ {c} /\ IsFiniteSet(S) /\ IsFiniteSet(T)
  <2>1. T \ {c} = S \ {c}
    BY DEF OnlyMoves, HH
  <2>2. S \in SUBSET Conn /\ T \in SUBSET Conn
    BY DEF HH
  <2>3. QED BY <2>1, <2>2, ConnAssumption, FS_Subset
<1>3. Tracker16!Count(s) \in Nat /\ Tracker16!Count(s)' \in Nat
  BY DEF TypeOK, Tracker16!TypeOK, Tracker16!Count
<1>4. Cardinality(S) <= Tracker16!Count(s)
  BY <1>1 DEF Slots16
<1>5. Tracker16!Count(s)' <= MaxPerSubnet16
      /\ Tracker16!Count(s)' + (IF c \in S THEN 1 ELSE 0)
         >= Tracker16!Count(s) + (IF c \in T THEN 1 ELSE 0)
  BY DEF Count16Step
<1>6. Cardinality(T) <= Tracker16!Count(s)'
  BY <1>2, <1>3, <1>4, <1>5, SlotBound
<1>7. QED BY <1>1, <1>5, <1>6

(* Every step keeps Slots16.                                               *)
LEMMA Slots16Step == IInv /\ [Next]_vars => Slots16'
<1> SUFFICES ASSUME IInv, [Next]_vars PROVE Slots16'
  OBVIOUS
<1>0. TypeOK /\ TypeOK' /\ Slots16 /\ Slots24
  BY TypeStep DEF IInv
<1>1. ASSUME NEW c \in Conn, NEW ip \in IP, IncomingConnection(c, ip)
      PROVE  Slots16'
  <2>1. OnlyMoves(c)
    BY <1>0, <1>1 DEF IncomingConnection, OnlyMoves, TypeOK
  <2>2. Count16Step(c)
    BY <1>0, <1>1 DEF IncomingConnection, Count16Step, HH, Holds16, TypeOK,
       Tracker16!Count, Tracker16!TypeOK, Slots16
  <2>3. QED BY <1>0, <2>1, <2>2, Slots16Kept
<1>2. ASSUME NEW c \in Conn, AddSubnet16(c) PROVE Slots16'
  <2>1. OnlyMoves(c)
    BY <1>0, <1>2 DEF AddSubnet16, Advance, OnlyMoves, TypeOK
  <2> DEFINE p == Prefix16[peer[c]]
             ok == Tracker16!AddSucceeds(peer[c])
  <2>2. ASSUME NEW s \in Subnet16
        PROVE  Tracker16!Count(s)' = IF p = s /\ ok THEN Tracker16!Count(s) + 1
                                     ELSE Tracker16!Count(s)
    BY <1>0, <1>2, Constants, P16!AddCount
    DEF AddSubnet16, TypeOK, P16!AddConnection, Tracker16!AddConnection,
        P16!TypeOK, Tracker16!TypeOK, P16!Count, Tracker16!Count,
        P16!AddSucceeds, Tracker16!AddSucceeds,
        P16!CanAcceptConnection, Tracker16!CanAcceptConnection
  <2>3. ASSUME NEW s \in Subnet16, p = s, ok
        PROVE  Tracker16!Count(s) < MaxPerSubnet16
    BY <2>3, PrefixAssumption
    DEF Tracker16!AddSucceeds, Tracker16!CanAcceptConnection
  <2>4. ASSUME NEW s \in Subnet16
        PROVE  /\ c \notin HH(Holds16, Prefix16, pc, peer, s)
               /\ c \in HH(Holds16, Prefix16, pc', peer', s) <=> p = s /\ ok
    BY <1>0, <1>2 DEF AddSubnet16, Advance, HH, Holds16, TypeOK
  <2>5. ASSUME NEW s \in Subnet16
        PROVE  Tracker16!Count(s) \in Nat /\ Tracker16!Count(s) <= MaxPerSubnet16
    BY <1>0 DEF TypeOK, Tracker16!TypeOK, Tracker16!Count, Slots16
  <2>6. Count16Step(c)
    <3> SUFFICES ASSUME NEW s \in Subnet16
                 PROVE  /\ Tracker16!Count(s)' <= MaxPerSubnet16
                        /\ Tracker16!Count(s)'
                             + (IF c \in HH(Holds16, Prefix16, pc, peer, s) THEN 1 ELSE 0)
                           >= Tracker16!Count(s)
                             + (IF c \in HH(Holds16, Prefix16, pc', peer', s) THEN 1 ELSE 0)
      BY DEF Count16Step
    <3>1. CASE p = s /\ ok
      BY <3>1, <2>2, <2>3, <2>4, <2>5, PrefixAssumption
    <3>2. CASE ~(p = s /\ ok)
      BY <3>2, <2>2, <2>4, <2>5, PrefixAssumption
    <3>3. QED BY <3>1, <3>2
  <2>7. QED BY <1>0, <2>1, <2>6, Slots16Kept
<1>3. ASSUME NEW c \in Conn, AddSubnet24(c) PROVE Slots16'
  <2>1. OnlyMoves(c)
    BY <1>0, <1>3 DEF AddSubnet24, Advance, OnlyMoves, TypeOK
  <2>2. Count16Step(c)
    BY <1>0, <1>3 DEF AddSubnet24, Advance, Count16Step, HH, Holds16, TypeOK,
       Tracker16!Count, Tracker16!TypeOK, Slots16
  <2>3. QED BY <1>0, <2>1, <2>2, Slots16Kept
<1>4. ASSUME NEW c \in Conn, AddTotal(c) PROVE Slots16'
  <2>1. OnlyMoves(c)
    BY <1>0, <1>4 DEF AddTotal, Advance, OnlyMoves, TypeOK
  <2>2. Count16Step(c)
    BY <1>0, <1>4 DEF AddTotal, Advance, Count16Step, HH, Holds16, TypeOK,
       Tracker16!Count, Tracker16!TypeOK, Slots16
  <2>3. QED BY <1>0, <2>1, <2>2, Slots16Kept
<1>5. ASSUME NEW c \in Conn, RemoveSubnet16(c) PROVE Slots16'
  <2>1. OnlyMoves(c)
    BY <1>0, <1>5 DEF RemoveSubnet16, OnlyMoves, TypeOK
  <2> DEFINE p == Prefix16[peer[c]]
  <2>2. p \in Subnet16 => Tracker16!Count(p) >= 1
    <3> SUFFICES ASSUME p \in Subnet16 PROVE Tracker16!Count(p) >= 1
      OBVIOUS
    <3>1. c \in Holders16(p)
      BY <1>5 DEF RemoveSubnet16, Holders16, Holds16
    <3>2. IsFiniteSet(Holders16(p)) /\ Holders16(p) \in SUBSET Conn
      BY ConnAssumption, FS_Subset DEF Holders16
    <3>3. Cardinality(Holders16(p)) >= 1
      BY <3>1, <3>2, FS_EmptySet, FS_CardinalityType
    <3>4. Cardinality(Holders16(p)) <= Tracker16!Count(p)
      BY <1>0 DEF Slots16
    <3>5. Tracker16!Count(p) \in Nat
      BY <1>0 DEF TypeOK, Tracker16!TypeOK, Tracker16!Count
    <3>6. QED BY <3>2, <3>3, <3>4, <3>5, FS_CardinalityType
  <2>3. ASSUME NEW s \in Subnet16
        PROVE  Tracker16!Count(s)' = IF p = s THEN Tracker16!Count(s) - 1
                                     ELSE Tracker16!Count(s)
    BY <1>0, <1>5, <2>2, Constants, P16!RemoveCount
    DEF RemoveSubnet16, TypeOK, P16!RemoveConnection, Tracker16!RemoveConnection,
        P16!TypeOK, Tracker16!TypeOK, P16!Count, Tracker16!Count
  <2>4. ASSUME NEW s \in Subnet16
        PROVE  /\ c \in HH(Holds16, Prefix16, pc, peer, s) <=> p = s
               /\ c \notin HH(Holds16, Prefix16, pc', peer', s)
    BY <1>0, <1>5 DEF RemoveSubnet16, HH, Holds16, TypeOK
  <2>5. ASSUME NEW s \in Subnet16
        PROVE  Tracker16!Count(s) \in Nat /\ Tracker16!Count(s) <= MaxPerSubnet16
    BY <1>0 DEF TypeOK, Tracker16!TypeOK, Tracker16!Count, Slots16
  <2>6. Count16Step(c)
    <3> SUFFICES ASSUME NEW s \in Subnet16
                 PROVE  /\ Tracker16!Count(s)' <= MaxPerSubnet16
                        /\ Tracker16!Count(s)'
                             + (IF c \in HH(Holds16, Prefix16, pc, peer, s) THEN 1 ELSE 0)
                           >= Tracker16!Count(s)
                             + (IF c \in HH(Holds16, Prefix16, pc', peer', s) THEN 1 ELSE 0)
      BY DEF Count16Step
    <3>1. CASE p = s
      BY <3>1, <2>3, <2>4, <2>5, PrefixAssumption
    <3>2. CASE p # s
      BY <3>2, <2>3, <2>4, <2>5, PrefixAssumption
    <3>3. QED BY <3>1, <3>2
  <2>7. QED BY <1>0, <2>1, <2>6, Slots16Kept
<1>6. ASSUME NEW c \in Conn, RemoveSubnet24(c) PROVE Slots16'
  <2>1. OnlyMoves(c)
    BY <1>0, <1>6 DEF RemoveSubnet24, OnlyMoves, TypeOK
  <2>2. Count16Step(c)
    BY <1>0, <1>6 DEF RemoveSubnet24, Count16Step, HH, Holds16, TypeOK,
       Tracker16!Count, Tracker16!TypeOK, Slots16
  <2>3. QED BY <1>0, <2>1, <2>2, Slots16Kept
<1>7. ASSUME NEW c \in Conn, RemoveTotal(c) PROVE Slots16'
  <2>1. OnlyMoves(c)
    BY <1>0, <1>7 DEF RemoveTotal, OnlyMoves, TypeOK
  <2>2. Count16Step(c)
    BY <1>0, <1>7 DEF RemoveTotal, Count16Step, HH, Holds16, TypeOK,
       Tracker16!Count, Tracker16!TypeOK, Slots16
  <2>3. QED BY <1>0, <2>1, <2>2, Slots16Kept
<1>8. CASE UNCHANGED vars
  BY <1>0, <1>8 DEF vars, Slots16, Holders16, Tracker16!Count
<1>9. QED BY <1>1, <1>2, <1>3, <1>4, <1>5, <1>6, <1>7, <1>8 DEF Next

(* Type correctness of the pipeline: the trackers' maps and sets, the     *)
(* stages and the addresses always have their types.                      *)
THEOREM TypeCorrect == Spec => []TypeOK
<1>1. Init => TypeOK
  BY PrefixAssumption
  DEF Init, TypeOK, Tracker24!Init, Tracker16!Init, Total!Init,
      Tracker24!TypeOK, Tracker16!TypeOK, Total!TypeOK, Stage
<1>2. QED BY <1>1, TypeStep, PTL DEF Spec

-----------------------------------------------------------------------------
(* IInv holds initially and is kept by every step.                         *)
LEMMA IInvInit == Init => IInv
<1> SUFFICES ASSUME Init PROVE IInv
  OBVIOUS
<1>1. TypeOK
  BY PrefixAssumption
  DEF Init, TypeOK, Tracker24!Init, Tracker16!Init, Total!Init,
      Tracker24!TypeOK, Tracker16!TypeOK, Total!TypeOK, Stage
<1>2. \A s : Holders24(s) = {} /\ Holders16(s) = {}
  BY DEF Init, Holders24, Holders16, Holds24, Holds16
<1>3. \A s : Tracker24!Count(s) = 0 /\ Tracker16!Count(s) = 0
  BY DEF Init, Tracker24!Init, Tracker16!Init, Tracker24!Count, Tracker16!Count
<1>4. QED BY <1>1, <1>2, <1>3, FS_EmptySet, PrefixAssumption
  DEF IInv, Slots24, Slots16

LEMMA IInvStep == IInv /\ [Next]_vars => IInv'
BY TypeStep, Slots24Step, Slots16Step DEF IInv

(* IInv implies SybilLimits: the admitted connections of a prefix are    *)
(* among its slot holders, whose number the count bounds.                *)
LEMMA IInvSybil == IInv => SybilLimits
<1> SUFFICES ASSUME IInv PROVE SybilLimits
  OBVIOUS
<1>1. ASSUME NEW s \in Subnet24 PROVE Cardinality(Connected24(s)) <= MaxPerSubnet24
  <2>1. Connected24(s) \subseteq Holders24(s) /\ Holders24(s) \subseteq Conn
    BY DEF Connected24, Holders24, Holds24
  <2>2. IsFiniteSet(Holders24(s))
    BY <2>1, ConnAssumption, FS_Subset
  <2>3. Cardinality(Connected24(s)) <= Cardinality(Holders24(s))
    BY <2>1, <2>2, FS_Subset
  <2>4. Cardinality(Holders24(s)) <= Tracker24!Count(s)
        /\ Tracker24!Count(s) <= MaxPerSubnet24
    BY DEF IInv, Slots24
  <2>5. Cardinality(Connected24(s)) \in Nat /\ Cardinality(Holders24(s)) \in Nat
        /\ Tracker24!Count(s) \in Nat
    BY <2>1, <2>2, FS_Subset, FS_CardinalityType
    DEF IInv, TypeOK, Tracker24!TypeOK, Tracker24!Count
  <2>6. QED BY <2>3, <2>4, <2>5, PrefixAssumption
<1>2. ASSUME NEW s \in Subnet16 PROVE Cardinality(Connected16(s)) <= MaxPerSubnet16
  <2>1. Connected16(s) \subseteq Holders16(s) /\ Holders16(s) \subseteq Conn
    BY DEF Connected16, Holders16, Holds16
  <2>2. IsFiniteSet(Holders16(s))
    BY <2>1, ConnAssumption, FS_Subset
  <2>3. Cardinality(Connected16(s)) <= Cardinality(Holders16(s))
    BY <2>1, <2>2, FS_Subset
  <2>4. Cardinality(Holders16(s)) <= Tracker16!Count(s)
        /\ Tracker16!Count(s) <= MaxPerSubnet16
    BY DEF IInv, Slots16
  <2>5. Cardinality(Connected16(s)) \in Nat /\ Cardinality(Holders16(s)) \in Nat
        /\ Tracker16!Count(s) \in Nat
    BY <2>1, <2>2, FS_Subset, FS_CardinalityType
    DEF IInv, TypeOK, Tracker16!TypeOK, Tracker16!Count
  <2>6. QED BY <2>3, <2>4, <2>5, PrefixAssumption
<1>3. QED BY <1>1, <1>2 DEF SybilLimits

(* The slot accounting of the /24 and /16 trackers (IInv) holds in every *)
(* reachable state, whatever the interleaving of the add_connection and  *)
(* remove_connection calls of concurrent connections.                    *)
THEOREM SlotAccounting == Spec => []IInv
BY IInvInit, IInvStep, PTL DEF Spec

(* Sybil protection: in every reachable state no /24 prefix has more     *)
(* than MaxPerSubnet24, and no /16 prefix more than MaxPerSubnet16,      *)
(* admitted connections.                                                 *)
THEOREM SybilSafety == Spec => []SybilLimits
BY SlotAccounting, IInvSybil, PTL
=============================================================================
