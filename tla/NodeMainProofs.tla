---------------------------- MODULE NodeMainProofs ----------------------------
(***************************************************************************)
(* Proof that main's peer counter is exact (PeerCountExact): peer_count,   *)
(* the AtomicU64 the API reports, equals the number of peers that the      *)
(* events main has handled leave connected.  The argument needs no         *)
(* induction over the channel.  For each peer, the connection events still *)
(* pending (Pending) alternate.  The k-th last of them is a PeerConnected  *)
(* exactly when an even number of them follows and the peer is connected  *)
(* now, or an odd number follows and it is not (Alternates).  So the      *)
(* event main handles next tells it whether the peer was counted before: a *)
(* PeerConnected finds it uncounted and a PeerDisconnected finds it        *)
(* counted.  Hence fetch_add never passes |Peers| < 2^64 and fetch_sub     *)
(* never passes zero, and the wrapping arithmetic never wraps.             *)
(*                                                                         *)
(* Proof that the startup validator accepts exactly what spec.md 4.5 and   *)
(* 4.6 accept (MatchesSpec).  During the loop, subnets_16 is the set of    *)
(* /16 prefixes of the entries scanned so far (BInv); the step of one      *)
(* entry rests on ExtractFirst: the first part that parses, found by        *)
(* SelectInSeq as the least IP position, is the one FirstIP chooses.       *)
(***************************************************************************)
EXTENDS NodeMain, FiniteSetTheorems, SequenceTheorems, WellFoundedInduction, TLAPS

(* The positions of the connection events of peer p in the sequence s.    *)
PosOf(s, p) == {k \in 1..Len(s) : s[k].peer = p /\ s[k].kind /= "other"}

(* How many of them lie at or before position j.                           *)
RankIn(s, p, j) == Cardinality({k \in PosOf(s, p) : k <= j})

(* The connection events of p in s alternate and end in p's membership  *)
(* of C: an event is a PeerConnected exactly when the number of p's       *)
(* events after it is even and p is in C, or odd and p is not.             *)
Alternates(s, p, C) ==
    \A j \in PosOf(s, p) :
        (s[j].kind = "conn") <=>
            (((Cardinality(PosOf(s, p)) - RankIn(s, p, j)) % 2 = 0) <=> p \in C)

(* The inductive invariant behind PeerCountExact.                          *)
CountInv ==
    /\ mpc \in {"dispatch", "load", "new", "search", "api", "select", "handle",
                "shutdown", "exited", "failed", "killed"}
    /\ mpc = "handle" => ev \in Event
    /\ chan \in Seq(Event) /\ connected \subseteq Peers
    /\ peer_count \in Nat
    /\ \A p \in Peers : Alternates(Pending, p, connected)
    /\ PeerCountExact

-----------------------------------------------------------------------------
(* The positions of p's events in s, and those up to j, are finite sets   *)
(* of indices of s.                                                        *)
LEMMA PosFinite ==
    ASSUME NEW s \in Seq(Event), NEW p, NEW j
    PROVE  /\ PosOf(s, p) \subseteq 1..Len(s)
           /\ IsFiniteSet(PosOf(s, p))
           /\ IsFiniteSet({k \in PosOf(s, p) : k <= j})
           /\ RankIn(s, p, j) \in Nat
<1>1. PosOf(s, p) \subseteq 1..Len(s) BY DEF PosOf
<1>2. IsFiniteSet(1..Len(s)) BY FS_Interval
<1>3. IsFiniteSet(PosOf(s, p)) BY <1>1, <1>2, FS_Subset
<1>4. IsFiniteSet({k \in PosOf(s, p) : k <= j}) BY <1>3, FS_Subset
<1>5. QED BY <1>1, <1>3, <1>4, FS_CardinalityType DEF RankIn

(* Every position lies at or before the end: the rank at Len(s) counts    *)
(* them all.                                                               *)
LEMMA RankAtEnd ==
    ASSUME NEW s \in Seq(Event), NEW p, NEW j \in Int, j >= Len(s)
    PROVE  RankIn(s, p, j) = Cardinality(PosOf(s, p))
<1>1. {k \in PosOf(s, p) : k <= j} = PosOf(s, p) BY DEF PosOf
<1>2. QED BY <1>1 DEF RankIn

(* Appending an event that is not a connection event of p leaves p's      *)
(* positions, and their ranks, as they were.                               *)
LEMMA AppendOther ==
    ASSUME NEW s \in Seq(Event), NEW e \in Event, NEW p,
           ~(e.peer = p /\ e.kind /= "other")
    PROVE  /\ PosOf(Append(s, e), p) = PosOf(s, p)
           /\ \A j \in PosOf(s, p) : Append(s, e)[j] = s[j]
           /\ \A j : RankIn(Append(s, e), p, j) = RankIn(s, p, j)
<1>1. PosOf(Append(s, e), p) = PosOf(s, p)
  BY AppendProperties DEF PosOf
<1>2. \A j \in PosOf(s, p) : Append(s, e)[j] = s[j]
  BY AppendProperties DEF PosOf
<1>3. \A j : RankIn(Append(s, e), p, j) = RankIn(s, p, j)
  BY <1>1, Zenon DEF RankIn
<1>4. QED BY <1>1, <1>2, <1>3

(* Appending a connection event of p adds the last position, whose rank   *)
(* is the new count, and keeps the ranks of the others.                    *)
LEMMA AppendSame ==
    ASSUME NEW s \in Seq(Event), NEW e \in Event, NEW p,
           e.peer = p, e.kind /= "other"
    PROVE  /\ PosOf(Append(s, e), p) = PosOf(s, p) \cup {Len(s) + 1}
           /\ Cardinality(PosOf(Append(s, e), p)) = Cardinality(PosOf(s, p)) + 1
           /\ \A j \in PosOf(s, p) : /\ Append(s, e)[j] = s[j]
                                    /\ RankIn(Append(s, e), p, j) = RankIn(s, p, j)
           /\ RankIn(Append(s, e), p, Len(s) + 1) = Cardinality(PosOf(s, p)) + 1
<1>1. PosOf(Append(s, e), p) = PosOf(s, p) \cup {Len(s) + 1}
  BY AppendProperties DEF PosOf
<1>2. Len(s) + 1 \notin PosOf(s, p) BY DEF PosOf
<1>3. Cardinality(PosOf(Append(s, e), p)) = Cardinality(PosOf(s, p)) + 1
  BY <1>1, <1>2, PosFinite, FS_AddElement
<1>4. ASSUME NEW j \in PosOf(s, p)
      PROVE  RankIn(Append(s, e), p, j) = RankIn(s, p, j)
  <2>1. {k \in PosOf(Append(s, e), p) : k <= j} = {k \in PosOf(s, p) : k <= j}
    BY <1>1, <1>2 DEF PosOf
  <2>2. QED BY <2>1 DEF RankIn
<1>5. RankIn(Append(s, e), p, Len(s) + 1) = Cardinality(PosOf(s, p)) + 1
  <2>1. Append(s, e) \in Seq(Event) /\ Len(Append(s, e)) = Len(s) + 1
    BY AppendProperties
  <2>2. Len(s) + 1 \in Int /\ Len(s) + 1 >= Len(Append(s, e)) BY <2>1
  <2>3. RankIn(Append(s, e), p, Len(s) + 1) = Cardinality(PosOf(Append(s, e), p))
    BY <2>1, <2>2, RankAtEnd, Zenon
  <2>4. QED BY <2>3, <1>3
<1>6. \A j \in PosOf(s, p) : Append(s, e)[j] = s[j]
  BY AppendProperties DEF PosOf
<1>7. QED BY <1>1, <1>3, <1>4, <1>5, <1>6

(* Taking the head of s shifts every later position down by one: each     *)
(* rank, and the count, lose one exactly when the head was p's.           *)
LEMMA TailShift ==
    ASSUME NEW s \in Seq(Event), s /= <<>>, NEW p
    PROVE  LET d == IF 1 \in PosOf(s, p) THEN 1 ELSE 0 IN
           /\ \A j \in PosOf(Tail(s), p) :
                 /\ j + 1 \in PosOf(s, p) /\ Tail(s)[j] = s[j + 1]
                 /\ RankIn(Tail(s), p, j) = RankIn(s, p, j + 1) - d
           /\ Cardinality(PosOf(Tail(s), p)) = Cardinality(PosOf(s, p)) - d
<1> DEFINE d == IF 1 \in PosOf(s, p) THEN 1 ELSE 0
           t == Tail(s)
<1>1. t \in Seq(Event) /\ Len(t) = Len(s) - 1 /\ \A k \in 1..Len(t) : t[k] = s[k + 1]
  BY HeadTailProperties DEF t
<1>2. ASSUME NEW j \in 0..Len(t)
      PROVE  RankIn(t, p, j) = RankIn(s, p, j + 1) - d
  <2> DEFINE A == {k \in PosOf(t, p) : k <= j}
             B == {k \in PosOf(s, p) : 2 <= k /\ k <= j + 1}
             C == {k \in PosOf(s, p) : k <= j + 1}
  <2>1. IsFiniteSet(B) /\ IsFiniteSet(C)
    <3>1. IsFiniteSet(C) BY PosFinite DEF C
    <3>2. QED BY <3>1, FS_Subset DEF B, C
  <2>2. Cardinality(A) = Cardinality(B)
    <3> DEFINE f == [k \in B |-> k - 1]
    <3>1. f \in Bijection(B, A)
      BY <1>1 DEF f, A, B, PosOf, Bijection, Injection, Surjection, IsInjective
    <3>2. ExistsBijection(B, A) BY <3>1 DEF ExistsBijection
    <3>3. QED BY <2>1, <3>2, FS_Bijection
  <2>6. RankIn(t, p, j) = Cardinality(A) /\ RankIn(s, p, j + 1) = Cardinality(C)
    BY DEF RankIn, A, C
  <2>7. Cardinality(B) \in Nat BY <2>1, FS_CardinalityType
  <2>3. CASE 1 \in PosOf(s, p)
    <3>1. C = B \cup {1} /\ 1 \notin B BY <2>3 DEF B, C, PosOf
    <3>2. Cardinality(C) = Cardinality(B) + 1 BY <2>1, <3>1, FS_AddElement
    <3>3. QED BY <2>2, <2>3, <2>6, <2>7, <3>2 DEF d
  <2>4. CASE 1 \notin PosOf(s, p)
    <3>1. C = B BY <2>4 DEF B, C, PosOf
    <3>2. d = 0 BY <2>4 DEF d
    <3>3. Cardinality(C) = Cardinality(B) BY <3>1
    <3>4. QED BY <2>2, <2>6, <2>7, <3>2, <3>3
  <2>5. QED BY <2>3, <2>4
<1>3. ASSUME NEW j \in PosOf(t, p)
      PROVE  j + 1 \in PosOf(s, p) /\ t[j] = s[j + 1]
  BY <1>1 DEF PosOf
<1>4. Cardinality(PosOf(t, p)) = Cardinality(PosOf(s, p)) - d
  <2>1. Len(t) \in 0..Len(t) BY <1>1
  <2>2. RankIn(t, p, Len(t)) = Cardinality(PosOf(t, p))
    <3>1. Len(t) \in Int /\ Len(t) >= Len(t) BY <1>1
    <3>2. QED BY <1>1, <3>1, RankAtEnd, Zenon
  <2>3. RankIn(s, p, Len(t) + 1) = Cardinality(PosOf(s, p))
    <3>1. Len(t) + 1 \in Int /\ Len(t) + 1 >= Len(s) BY <1>1
    <3>2. QED BY <3>1, RankAtEnd, Zenon
  <2>4. QED BY <2>1, <2>2, <2>3, <1>2
<1>5. \A j \in PosOf(t, p) : j \in 0..Len(t) BY DEF PosOf
<1>6. QED BY <1>2, <1>3, <1>4, <1>5 DEF t, d

-----------------------------------------------------------------------------
(* An event of another peer, or a plain event, keeps p's alternation.      *)
LEMMA AltAppendOther ==
    ASSUME NEW s \in Seq(Event), NEW e \in Event, NEW p, NEW C,
           ~(e.peer = p /\ e.kind /= "other"), Alternates(s, p, C)
    PROVE  Alternates(Append(s, e), p, C)
<1>1. /\ PosOf(Append(s, e), p) = PosOf(s, p)
      /\ \A j \in PosOf(s, p) : Append(s, e)[j] = s[j]
      /\ \A j : RankIn(Append(s, e), p, j) = RankIn(s, p, j)
  BY AppendOther
<1>2. QED BY <1>1 DEF Alternates

(* A PeerConnected of a disconnected p, or a PeerDisconnected of a         *)
(* connected p, extends p's alternation and flips its end state.           *)
LEMMA AltAppendSame ==
    ASSUME NEW s \in Seq(Event), NEW e \in Event, NEW p, NEW C, NEW C2,
           e.peer = p, e.kind = IF p \in C THEN "disc" ELSE "conn",
           (p \in C2) <=> ~(p \in C), Alternates(s, p, C)
    PROVE  Alternates(Append(s, e), p, C2)
<1> DEFINE t == Append(s, e)
           N == Cardinality(PosOf(s, p))
<1>1. e.kind /= "other" BY DEF Event
<1>2. N \in Nat BY PosFinite, FS_CardinalityType DEF N
<1>3. /\ PosOf(t, p) = PosOf(s, p) \cup {Len(s) + 1}
      /\ Cardinality(PosOf(t, p)) = N + 1
      /\ \A j \in PosOf(s, p) : t[j] = s[j] /\ RankIn(t, p, j) = RankIn(s, p, j)
      /\ RankIn(t, p, Len(s) + 1) = N + 1
  <2>1. e.peer = p /\ e.kind /= "other" BY <1>1
  <2>2. QED BY <2>1, AppendSame, Zenon DEF t, N
<1>4. t[Len(s) + 1] = e BY AppendProperties DEF t
<1>5. ASSUME NEW j \in PosOf(s, p)
      PROVE  (t[j].kind = "conn") <=>
                 (((Cardinality(PosOf(t, p)) - RankIn(t, p, j)) % 2 = 0) <=> p \in C2)
  <2>1. RankIn(s, p, j) \in Nat BY PosFinite
  <2>2. (s[j].kind = "conn") <=> (((N - RankIn(s, p, j)) % 2 = 0) <=> p \in C)
    BY DEF Alternates, N
  <2>3. ((N + 1 - RankIn(s, p, j)) % 2 = 0) <=> ~((N - RankIn(s, p, j)) % 2 = 0)
    BY <1>2, <2>1
  <2>4. t[j] = s[j] /\ RankIn(t, p, j) = RankIn(s, p, j) BY <1>3
  <2>5. Cardinality(PosOf(t, p)) = N + 1 BY <1>3
  <2>6. Cardinality(PosOf(t, p)) - RankIn(t, p, j) = N + 1 - RankIn(s, p, j)
    BY <1>2, <2>1, <2>4, <2>5
  <2>7. QED BY <2>2, <2>3, <2>4, <2>6, Zenon
<1>6. (t[Len(s) + 1].kind = "conn") <=>
          (((Cardinality(PosOf(t, p)) - RankIn(t, p, Len(s) + 1)) % 2 = 0) <=> p \in C2)
  BY <1>2, <1>3, <1>4
<1>7. QED BY <1>3, <1>5, <1>6 DEF Alternates, t

(* Taking the head keeps p's alternation: both the count and the ranks    *)
(* of the later positions lose the same amount.                            *)
LEMMA AltTail ==
    ASSUME NEW s \in Seq(Event), s /= <<>>, NEW p, NEW C, Alternates(s, p, C)
    PROVE  Alternates(Tail(s), p, C)
<1> DEFINE d == IF 1 \in PosOf(s, p) THEN 1 ELSE 0
<1>1. /\ \A j \in PosOf(Tail(s), p) :
            /\ j + 1 \in PosOf(s, p) /\ Tail(s)[j] = s[j + 1]
            /\ RankIn(Tail(s), p, j) = RankIn(s, p, j + 1) - d
      /\ Cardinality(PosOf(Tail(s), p)) = Cardinality(PosOf(s, p)) - d
  BY TailShift DEF d
<1>2. ASSUME NEW j \in PosOf(Tail(s), p)
      PROVE  (Tail(s)[j].kind = "conn") <=>
                 (((Cardinality(PosOf(Tail(s), p)) - RankIn(Tail(s), p, j)) % 2 = 0) <=> p \in C)
  <2>1. Cardinality(PosOf(s, p)) \in Nat /\ RankIn(s, p, j + 1) \in Nat
    BY PosFinite, FS_CardinalityType
  <2>2. Cardinality(PosOf(Tail(s), p)) - RankIn(Tail(s), p, j)
          = Cardinality(PosOf(s, p)) - RankIn(s, p, j + 1)
    BY <1>1, <2>1 DEF d
  <2>3. QED BY <1>1, <2>2 DEF Alternates
<1>3. QED BY <1>2 DEF Alternates

-----------------------------------------------------------------------------
(* Counted, read through PosOf.                                            *)
LEMMA CountedDef ==
    Counted = {q \in Peers : (q \in connected) <=> (Cardinality(PosOf(Pending, q)) % 2 = 0)}
BY DEF Counted, PosOf

(* The pending events while main handles one: ev, then the channel.       *)
LEMMA ConsFacts ==
    ASSUME NEW x \in Event, NEW s \in Seq(Event)
    PROVE  /\ <<x>> \o s \in Seq(Event) /\ <<x>> \o s /= <<>>
           /\ (<<x>> \o s)[1] = x /\ Tail(<<x>> \o s) = s
           /\ \A e \in Event : Append(<<x>> \o s, e) = <<x>> \o Append(s, e)
<1>1. <<x>> \in Seq(Event) BY DEF Event
<1>2. <<x>> \o s \in Seq(Event) /\ Len(<<x>> \o s) = 1 + Len(s)
  BY <1>1, ConcatProperties
<1>3. (<<x>> \o s)[1] = x /\ Tail(<<x>> \o s) = s
  BY <1>1, <1>2, ConcatProperties, HeadTailProperties
<1>4. QED BY <1>2, <1>3, AppendIsConcat, ConcatAssociative, <1>1, AppendProperties

(* The event select! takes, put back in front of the rest, is the channel. *)
LEMMA HeadTailCons ==
    ASSUME NEW s \in Seq(Event), s /= <<>>
    PROVE  <<Head(s)>> \o Tail(s) = s
<1>1. Head(s) \in Event /\ Tail(s) \in Seq(Event) BY HeadTailProperties
<1>2. QED BY <1>1, HeadTailProperties, ConcatProperties

-----------------------------------------------------------------------------
(* main starts with nothing pending, no peer connected and a zero count.   *)
LEMMA InitCount ==
    ASSUME NodeInit PROVE CountInv
<1>1. Pending = <<>> BY DEF NodeInit, Pending
<1>2. \A q : PosOf(Pending, q) = {} BY <1>1 DEF PosOf
<1>3. \A q : Cardinality(PosOf(Pending, q)) = 0 BY <1>2, FS_EmptySet
<1>4. Counted = {} BY <1>3, CountedDef DEF NodeInit
<1>5. \A q : Alternates(Pending, q, connected) BY <1>2 DEF Alternates
<1>6. QED BY <1>4, <1>5, FS_EmptySet DEF NodeInit, CountInv, PeerCountExact

(* A step that leaves the channel, ev, connected and peer_count alone and *)
(* does not enter or leave the handler keeps the invariant.               *)
LEMMA FrameStep ==
    ASSUME CountInv,
           mpc' \in {"dispatch", "load", "new", "search", "api", "select", "handle",
                     "shutdown", "exited", "failed", "killed"},
           (mpc' = "handle") <=> (mpc = "handle"),
           UNCHANGED <<ev, chan, connected, peer_count>>
    PROVE  CountInv'
<1>1. Pending' = Pending BY DEF Pending
<1>2. Counted' = Counted BY <1>1 DEF Counted
<1>3. QED BY <1>1, <1>2 DEF CountInv, PeerCountExact

(* select! hands main the oldest event: the pending events stay the same. *)
LEMMA RecvStep ==
    ASSUME CountInv, Recv PROVE CountInv'
<1>1. chan \in Seq(Event) /\ chan /= <<>> BY DEF CountInv, Recv
<1>2. Head(chan) \in Event /\ Tail(chan) \in Seq(Event) BY <1>1, HeadTailProperties
<1>3. Pending' = Pending
  BY <1>1, HeadTailCons DEF Recv, Pending
<1>4. Counted' = Counted BY <1>3 DEF Counted, Recv
<1>5. QED BY <1>2, <1>3, <1>4 DEF CountInv, PeerCountExact, Recv

(* An emitted event lands at the end of the pending events.               *)
LEMMA EmitPending ==
    ASSUME CountInv, NEW e \in Event, chan' = Append(chan, e), UNCHANGED <<mpc, ev>>
    PROVE  /\ Pending \in Seq(Event)
           /\ Pending' = Append(Pending, e)
<1>1. CASE mpc = "handle" BY <1>1, ConsFacts DEF CountInv, Pending
<1>2. CASE mpc /= "handle" BY <1>2 DEF CountInv, Pending
<1>3. QED BY <1>1, <1>2

(* A connection event of p that flips p's state keeps p's alternation and *)
(* whether p is counted.                                                   *)
LEMMA FlipPeer ==
    ASSUME NEW s \in Seq(Event), NEW e \in Event, NEW p, NEW C, NEW C2,
           e.peer = p, e.kind = IF p \in C THEN "disc" ELSE "conn",
           (p \in C2) <=> ~(p \in C), Alternates(s, p, C)
    PROVE  /\ Alternates(Append(s, e), p, C2)
           /\ ((p \in C2) <=> (Cardinality(PosOf(Append(s, e), p)) % 2 = 0))
                <=> ((p \in C) <=> (Cardinality(PosOf(s, p)) % 2 = 0))
<1>2. Alternates(Append(s, e), p, C2) BY AltAppendSame
<1>3. e.kind /= "other" BY DEF Event
<1>4. Cardinality(PosOf(Append(s, e), p)) = Cardinality(PosOf(s, p)) + 1
  BY <1>3, AppendSame
<1>5. Cardinality(PosOf(s, p)) \in Nat BY PosFinite, FS_CardinalityType
<1>6. (Cardinality(PosOf(Append(s, e), p)) % 2 = 0) <=> ~(Cardinality(PosOf(s, p)) % 2 = 0)
  BY <1>4, <1>5
<1>7. QED BY <1>2, <1>6, Zenon

(* Any other event keeps p's alternation and its count of events.         *)
LEMMA KeepPeer ==
    ASSUME NEW s \in Seq(Event), NEW e \in Event, NEW p, NEW C, NEW C2,
           ~(e.peer = p /\ e.kind /= "other"), (p \in C2) <=> (p \in C),
           Alternates(s, p, C)
    PROVE  /\ Alternates(Append(s, e), p, C2)
           /\ PosOf(Append(s, e), p) = PosOf(s, p)
<1>1. Alternates(Append(s, e), p, C) BY AltAppendOther
<1>2. QED BY <1>1, AppendOther DEF Alternates

-----------------------------------------------------------------------------
(* The network emits e: the peer of a connection event flips, every other *)
(* peer keeps its state.  Then the invariant holds after the emit.        *)
LEMMA EmitStep ==
    ASSUME CountInv, NEW e \in Event, chan' = Append(chan, e),
           UNCHANGED <<mpc, ev, peer_count>>, connected' \subseteq Peers,
           \A q \in Peers : (q = e.peer /\ e.kind /= "other") =>
                               /\ e.kind = IF q \in connected THEN "disc" ELSE "conn"
                               /\ (q \in connected') <=> ~(q \in connected),
           \A q \in Peers : ~(q = e.peer /\ e.kind /= "other") =>
                               (q \in connected') <=> (q \in connected)
    PROVE  CountInv'
<1>1. Pending \in Seq(Event) /\ Pending' = Append(Pending, e) BY EmitPending
<1>2. ASSUME NEW q \in Peers
      PROVE  /\ Alternates(Pending', q, connected')
             /\ ((q \in connected') <=> (Cardinality(PosOf(Pending', q)) % 2 = 0))
                  <=> ((q \in connected) <=> (Cardinality(PosOf(Pending, q)) % 2 = 0))
  <2>1. Alternates(Pending, q, connected) BY DEF CountInv
  <2>2. CASE q = e.peer /\ e.kind /= "other"
    <3>1. /\ e.kind = IF q \in connected THEN "disc" ELSE "conn"
          /\ (q \in connected') <=> ~(q \in connected)
      BY <2>2
    <3>2. e.peer = q BY <2>2
    <3>3. QED BY <1>1, <2>1, <3>1, <3>2, FlipPeer
  <2>3. CASE ~(q = e.peer /\ e.kind /= "other")
    <3>1. (q \in connected') <=> (q \in connected) BY <2>3
    <3>2. Alternates(Append(Pending, e), q, connected')
          /\ PosOf(Append(Pending, e), q) = PosOf(Pending, q)
      BY <1>1, <2>1, <2>3, <3>1, KeepPeer
    <3>3. QED BY <1>1, <3>1, <3>2
  <2>4. QED BY <2>2, <2>3
<1>3. Counted' = Counted
  <2>1. Counted' = {q \in Peers : (q \in connected') <=> (Cardinality(PosOf(Pending', q)) % 2 = 0)}
    BY DEF Counted, PosOf
  <2>2. QED BY <1>2, <2>1, CountedDef
<1>4. chan' \in Seq(Event) BY AppendProperties DEF CountInv
<1>5. QED BY <1>2, <1>3, <1>4 DEF CountInv, PeerCountExact

(* The network task: a peer connects or disconnects, or another event.    *)
LEMMA NetworkStep ==
    ASSUME CountInv, Network PROVE CountInv'
<1>1. connected \subseteq Peers BY DEF CountInv
<1>2. UNCHANGED <<mpc, ev, peer_count>> BY DEF Network
<1>3. CASE \E p \in Peers \ connected :
             Emit([kind |-> "conn", peer |-> p]) /\ connected' = connected \cup {p}
  <2>1. PICK p \in Peers \ connected :
             Emit([kind |-> "conn", peer |-> p]) /\ connected' = connected \cup {p}
    BY <1>3
  <2>2. QED BY <1>1, <1>2, <2>1, EmitStep DEF Emit, Event
<1>4. CASE \E p \in connected :
             Emit([kind |-> "disc", peer |-> p]) /\ connected' = connected \ {p}
  <2>1. PICK p \in connected :
             Emit([kind |-> "disc", peer |-> p]) /\ connected' = connected \ {p}
    BY <1>4
  <2>2. QED BY <1>1, <1>2, <2>1, EmitStep DEF Emit, Event
<1>5. CASE \E p \in Peers : Emit([kind |-> "other", peer |-> p]) /\ UNCHANGED connected
  <2>1. PICK p \in Peers : Emit([kind |-> "other", peer |-> p]) /\ UNCHANGED connected
    BY <1>5
  <2>2. QED BY <1>1, <1>2, <2>1, EmitStep DEF Emit, Event
<1>6. QED BY <1>3, <1>4, <1>5 DEF Network

-----------------------------------------------------------------------------
(* When the head of u is a connection event of p, its kind tells whether   *)
(* the count of p's events, which taking the head lowers by one, was even *)
(* with p in C.                                                            *)
LEMMA HeadPeer ==
    ASSUME NEW u \in Seq(Event), u /= <<>>, NEW p, NEW C,
           u[1].peer = p, u[1].kind /= "other", Alternates(u, p, C)
    PROVE  LET N == Cardinality(PosOf(u, p)) IN
           /\ N \in Nat \ {0}
           /\ Cardinality(PosOf(Tail(u), p)) = N - 1
           /\ (u[1].kind = "conn") <=> (((N - 1) % 2 = 0) <=> p \in C)
<1> DEFINE N == Cardinality(PosOf(u, p))
<1>1. 1 \in PosOf(u, p) BY DEF PosOf
<1>2. {k \in PosOf(u, p) : k <= 1} = {1} BY <1>1 DEF PosOf
<1>3. RankIn(u, p, 1) = 1 BY <1>2, FS_Singleton DEF RankIn
<1>4. N \in Nat /\ Cardinality(PosOf(Tail(u), p)) \in Nat
  <2>1. Tail(u) \in Seq(Event) BY HeadTailProperties
  <2>2. QED BY <2>1, PosFinite, FS_CardinalityType
<1>5. Cardinality(PosOf(Tail(u), p)) = N - 1 BY <1>1, TailShift
<1>6. N /= 0 BY <1>4, <1>5
<1>7. (u[1].kind = "conn") <=> (((N - 1) % 2 = 0) <=> p \in C)
  BY <1>1, <1>3 DEF Alternates
<1>8. QED BY <1>4, <1>5, <1>6, <1>7

(* When the head of u is no connection event of q, taking it keeps q's     *)
(* count of events.                                                        *)
LEMMA HeadOther ==
    ASSUME NEW u \in Seq(Event), u /= <<>>, NEW q,
           ~(u[1].peer = q /\ u[1].kind /= "other")
    PROVE  Cardinality(PosOf(Tail(u), q)) = Cardinality(PosOf(u, q))
<1>1. 1 \notin PosOf(u, q) BY DEF PosOf
<1>2. Cardinality(PosOf(Tail(u), q))
        = Cardinality(PosOf(u, q)) - (IF 1 \in PosOf(u, q) THEN 1 ELSE 0)
  BY TailShift
<1>3. Cardinality(PosOf(u, q)) \in Nat BY PosFinite, FS_CardinalityType
<1>4. QED BY <1>1, <1>2, <1>3

(* The handler counts the event select! took: a PeerConnected finds its    *)
(* peer uncounted and fetch_add counts it, a PeerDisconnected finds it     *)
(* counted and fetch_sub uncounts it, below 2^64 and above zero, so the   *)
(* wrapping arithmetic never wraps; any other event changes nothing.      *)
LEMMA HandleStep ==
    ASSUME NodeAssumption, CountInv, Handle PROVE CountInv'
<1> DEFINE u == <<ev>> \o chan
<1>1. ev \in Event /\ chan \in Seq(Event) BY DEF CountInv, Handle
<1>2. u \in Seq(Event) /\ u /= <<>> /\ u[1] = ev /\ Tail(u) = chan BY <1>1, ConsFacts
<1>3. Pending = u /\ Pending' = chan BY DEF Pending, Handle
<1>4. \A q \in Peers : Alternates(chan, q, connected')
  BY <1>2, <1>3, AltTail DEF CountInv, Handle
<1>5. Counted' = {q \in Peers : (q \in connected) <=> (Cardinality(PosOf(chan, q)) % 2 = 0)}
  BY <1>3 DEF Counted, PosOf, Handle
<1>6. Counted = {q \in Peers : (q \in connected) <=> (Cardinality(PosOf(u, q)) % 2 = 0)}
  BY <1>3, CountedDef
<1>7. ASSUME NEW q \in Peers, ~(ev.peer = q /\ ev.kind /= "other")
      PROVE  q \in Counted' <=> q \in Counted
  BY <1>2, <1>5, <1>6, <1>7, HeadOther
<1>8. /\ IsFiniteSet(Peers) /\ Cardinality(Peers) < CounterMod
      /\ CounterMod \in Nat \ {0} /\ Cardinality(Peers) \in Nat
      /\ Counted \subseteq Peers /\ Counted' \subseteq Peers
      /\ IsFiniteSet(Counted) /\ Cardinality(Counted) \in Nat
      /\ peer_count = Cardinality(Counted)
  <2>1. Counted \subseteq Peers /\ Counted' \subseteq Peers BY <1>5, <1>6
  <2>2. QED BY <2>1, FS_Subset, FS_CardinalityType DEF NodeAssumption, CountInv, PeerCountExact
<1>9. CASE ev.kind = "other"
  <2>1. Counted' = Counted BY <1>7, <1>8, <1>9
  <2>2. peer_count' = peer_count BY <1>9 DEF Handle
  <2>3. QED BY <1>1, <1>3, <1>4, <2>1, <2>2 DEF CountInv, PeerCountExact, Handle
<1>10. CASE ev.kind = "conn"
  <2> DEFINE p == ev.peer
  <2>1. p \in Peers BY <1>1 DEF Event
  <2>2. p \notin Counted /\ p \in Counted'
    <3>1. LET N == Cardinality(PosOf(u, p)) IN
          /\ N \in Nat \ {0}
          /\ Cardinality(PosOf(chan, p)) = N - 1
          /\ ((N - 1) % 2 = 0) <=> p \in connected
      <4>1. Alternates(u, p, connected) BY <1>3, <2>1 DEF CountInv
      <4>2. u[1].peer = p /\ u[1].kind = ev.kind /\ ev.kind /= "other" BY <1>2, <1>10 DEF p
      <4>3. LET N == Cardinality(PosOf(u, p)) IN
            /\ N \in Nat \ {0}
            /\ Cardinality(PosOf(Tail(u), p)) = N - 1
            /\ (u[1].kind = "conn") <=> (((N - 1) % 2 = 0) <=> p \in connected)
        BY <1>2, <4>1, <4>2, HeadPeer
      <4>4. QED BY <1>2, <1>10, <4>2, <4>3
    <3>2. QED BY <3>1, <2>1, <1>5, <1>6 DEF Handle
  <2>3. Counted' = Counted \cup {p} BY <1>7, <1>8, <2>1, <2>2
  <2>4. Cardinality(Counted') = Cardinality(Counted) + 1 BY <1>8, <2>2, <2>3, FS_AddElement
  <2>5. Cardinality(Counted') <= Cardinality(Peers) BY <1>8, FS_Subset
  <2>6. peer_count' = Cardinality(Counted')
    BY <1>8, <1>10, <2>4, <2>5 DEF Handle
  <2>7. QED BY <1>1, <1>3, <1>4, <1>8, <2>6 DEF CountInv, PeerCountExact, Handle
<1>11. CASE ev.kind = "disc"
  <2> DEFINE p == ev.peer
  <2>1. p \in Peers BY <1>1 DEF Event
  <2>2. p \in Counted /\ p \notin Counted'
    <3>1. LET N == Cardinality(PosOf(u, p)) IN
          /\ N \in Nat \ {0}
          /\ Cardinality(PosOf(chan, p)) = N - 1
          /\ ~(((N - 1) % 2 = 0) <=> p \in connected)
      <4>1. Alternates(u, p, connected) BY <1>3, <2>1 DEF CountInv
      <4>2. u[1].peer = p /\ u[1].kind = ev.kind /\ ev.kind /= "other" BY <1>2, <1>11 DEF p
      <4>3. LET N == Cardinality(PosOf(u, p)) IN
            /\ N \in Nat \ {0}
            /\ Cardinality(PosOf(Tail(u), p)) = N - 1
            /\ (u[1].kind = "conn") <=> (((N - 1) % 2 = 0) <=> p \in connected)
        BY <1>2, <4>1, <4>2, HeadPeer
      <4>4. QED BY <1>2, <1>11, <4>2, <4>3
    <3>2. QED BY <3>1, <2>1, <1>5, <1>6 DEF Handle
  <2>3. Counted' = Counted \ {p} BY <1>7, <1>8, <2>1, <2>2
  <2>4. Cardinality(Counted') = Cardinality(Counted) - 1 BY <1>8, <2>2, <2>3, FS_RemoveElement
  <2>5. Cardinality(Counted') \in Nat /\ Cardinality(Counted) <= Cardinality(Peers)
    BY <1>8, FS_Subset, FS_CardinalityType
  <2>6. peer_count' = Cardinality(Counted')
    BY <1>8, <1>11, <2>4, <2>5 DEF Handle
  <2>7. QED BY <1>1, <1>3, <1>4, <1>8, <2>6 DEF CountInv, PeerCountExact, Handle
<1>12. QED BY <1>1, <1>9, <1>10, <1>11 DEF Event

-----------------------------------------------------------------------------
(* Every step of the node keeps the invariant.                             *)
LEMMA CountStep ==
    ASSUME NodeAssumption, CountInv, [NodeNext]_allVars PROVE CountInv'
<1> DEFINE Mpc == {"dispatch", "load", "new", "search", "api", "select", "handle",
                   "shutdown", "exited", "failed", "killed"}
<1>1. CASE InitCommand \/ HealthCommand \/ StartCommand \/ LoadConfig
  BY <1>1, FrameStep DEF InitCommand, HealthCommand, StartCommand, LoadConfig
<1>2. CASE Validate BY <1>2, FrameStep DEF Validate, nodeVars
<1>3. CASE NewNetwork
  <2>1. mpc' \in {"search", "failed"} /\ mpc = "new" BY <1>3 DEF NewNetwork
  <2>2. QED BY <1>3, <2>1, FrameStep DEF NewNetwork
<1>11. CASE InitSearch \/ SpawnApi \/ ApiFails
  BY <1>11, FrameStep DEF InitSearch, SpawnApi, ApiFails, CountInv
<1>4. CASE CtrlC \/ Shutdown BY <1>4, FrameStep DEF CtrlC, Shutdown
<1>5. CASE Recv BY <1>5, RecvStep
<1>6. CASE Handle BY <1>6, HandleStep
<1>7. CASE Network BY <1>7, NetworkStep
<1>8. CASE Signal
  <2>1. mpc' \in Mpc /\ ((mpc' = "handle") <=> (mpc = "handle"))
    BY <1>8 DEF Signal, CountInv, Mpc
  <2>2. QED BY <1>8, <2>1, FrameStep DEF Signal, Mpc
<1>9. CASE UNCHANGED allVars BY <1>9, FrameStep DEF allVars, nodeVars, CountInv
<1>10. QED BY <1>1, <1>2, <1>3, <1>4, <1>5, <1>6, <1>7, <1>8, <1>9, <1>11 DEF NodeNext, Main

(* The count the API reports is exact in every reachable state: peer_count *)
(* is the number of peers the events main has handled leave connected, so *)
(* the AtomicU64 that the connection handlers update by fetch_add and       *)
(* fetch_sub never wraps.                                                   *)
THEOREM PeerCountIsExact == NodeSpec => []PeerCountExact
<1>1. NodeAssumption BY NodeAssumption
<1>2. NodeInit => CountInv BY InitCount
<1>3. CountInv /\ [NodeNext]_allVars => CountInv' BY <1>1, CountStep
<1>4. CountInv => PeerCountExact BY DEF CountInv
<1>5. QED BY <1>2, <1>3, <1>4, PTL DEF NodeSpec
-----------------------------------------------------------------------------
(* The validator: the /16 prefixes the loop collects are the ones the     *)
(* specification counts (BInv).                                            *)
(* The parts that parse as an IpAddr.                                     *)
IPs == IPv4 \cup IPv6

(* The /16 prefixes of the first IP parts of the first j entries of ps    *)
(* that are IPv4.                                                          *)
Scanned(ps, j) ==
    {Prefix16[FirstIP(ps[n])] : n \in {m \in 1..j : HasIP(ps[m]) /\ FirstIP(ps[m]) \in IPv4}}

(* The inductive invariant behind MatchesSpec.                              *)
BInv ==
    /\ peers \in Seq(Seq(Part)) /\ maxConn \in Nat
    /\ stage \in {"start", "count", "loop", "maxconn", "done"}
    /\ stage \in {"start", "count"} => i = 1 /\ subnets_16 = {}
    /\ stage = "count" => peers /= <<>>
    /\ stage = "loop" => /\ peers /= <<>> /\ Len(peers) >= MinBootstrap
                         /\ i \in 1..(Len(peers) + 1)
                         /\ subnets_16 = Scanned(peers, i - 1)
    /\ stage = "maxconn" =>
          (peers /= <<>> => Len(peers) >= MinBootstrap
                            /\ Cardinality(SpecPrefixes(peers)) >= MinBootstrap)
    /\ stage = "done" => (result = "ok" <=> SpecAccepts(peers, maxConn))

(* A bounded sequence is a sequence.                                      *)
LEMMA BoundedIsSeq ==
    ASSUME NEW S, NEW n \in Nat, NEW g \in BoundedSeq(S, n)
    PROVE  g \in Seq(S)
<1>1. PICK m \in 0..n : g \in [1..m -> S]
  BY DEF BoundedSeq, SeqOf
<1>2. m \in Nat
  OBVIOUS
<1>3. QED BY <1>1, <1>2, SeqDef

(* A non-empty set of naturals has a least element.                        *)
LEMMA NatMinExists ==
    ASSUME NEW T \in SUBSET Nat, T # {}
    PROVE  \E x \in T : \A y \in T : x <= y
<1>1. PICK x \in T : \A y \in T : ~(<<y, x>> \in OpToRel(<, Nat))
  BY WFMin, NatLessThanWellFounded
<1>2. ASSUME NEW y \in T PROVE x <= y
  <2>1. <<y, x>> \in Nat \X Nat
    OBVIOUS
  <2>2. ~(y < x)
    BY <1>1, <2>1 DEF OpToRel
  <2>3. QED BY <2>2
<1>3. QED BY <1>2

(* extract_ip_from_multiaddr (SelectInSeq) returns the part FirstIP picks *)
(* (CHOOSE over positions) when there is one, and None otherwise.         *)
LEMMA ExtractFirst ==
    ASSUME NEW addr \in Seq(Part)
    PROVE  /\ ExtractIpFromMultiaddr(addr) = IF HasIP(addr) THEN FirstIP(addr) ELSE NoIP
           /\ HasIP(addr) => FirstIP(addr) \in IPs
<1> DEFINE I == {k \in 1..Len(addr) : addr[k] \in IPs}
<1>1. \A x : (x \in I /\ \A y \in I : x <= y)
             <=> (x \in 1..Len(addr) /\ addr[x] \in IPs
                  /\ \A j \in 1..(x - 1) : addr[j] \notin IPs)
  BY DEF IPs
<1>2. (CHOOSE x \in I : \A y \in I : x <= y)
      = (CHOOSE k \in 1..Len(addr) : /\ addr[k] \in IPs
                                     /\ \A j \in 1..(k - 1) : addr[j] \notin IPs)
  BY <1>1
<1>3. HasIP(addr) <=> I # {}
  BY DEF HasIP, IPs
<1>5. I # {} => Min(I) \in I
  <2>1. I \subseteq Nat
    OBVIOUS
  <2>2. QED BY <2>1, NatMinExists DEF Min
<1>6. Min(I) # 0 \/ I = {}
  BY <1>5
<1>7. SelectInSeq(addr, LAMBDA p : p \in IPv4 \cup IPv6) = IF I # {} THEN Min(I) ELSE 0
  BY DEF SelectInSeq, IPs
<1>8. CASE I = {}
  BY <1>3, <1>7, <1>8 DEF ExtractIpFromMultiaddr
<1>9. CASE I # {}
  <2>1. ExtractIpFromMultiaddr(addr) = addr[Min(I)]
    BY <1>6, <1>7, <1>9 DEF ExtractIpFromMultiaddr
  <2>2. FirstIP(addr) = addr[Min(I)]
    BY <1>2 DEF FirstIP, Min, IPs
  <2>3. addr[Min(I)] \in IPs
    BY <1>5, <1>9
  <2>4. QED BY <1>3, <1>9, <2>1, <2>2, <2>3
<1>4. QED BY <1>8, <1>9

(* Scanning entry j adds its prefix, if any, to those of entries 1..j-1.  *)
LEMMA ScanSplit ==
    ASSUME NEW ps, NEW j \in Nat \ {0}
    PROVE  Scanned(ps, j) =
             IF HasIP(ps[j]) /\ FirstIP(ps[j]) \in IPv4
             THEN Scanned(ps, j - 1) \cup {Prefix16[FirstIP(ps[j])]}
             ELSE Scanned(ps, j - 1)
<1>1. 1..j = (1..(j - 1)) \cup {j}
  OBVIOUS
<1>2. QED BY <1>1 DEF Scanned

(* Finitely many prefixes are scanned.                                    *)
LEMMA ScannedFinite ==
    ASSUME NEW ps, NEW j \in Nat
    PROVE  Cardinality(Scanned(ps, j)) \in Nat
<1> DEFINE N == {m \in 1..j : HasIP(ps[m]) /\ FirstIP(ps[m]) \in IPv4}
           T == {Prefix16[FirstIP(ps[n])] : n \in N}
           f == [n \in N |-> Prefix16[FirstIP(ps[n])]]
<1>1. IsFiniteSet(1..j)
  BY FS_Interval
<1>2. IsFiniteSet(N)
  BY <1>1, FS_Subset DEF N
<1>3. f \in Surjection(N, T)
  BY DEF Surjection, f, T
<1>4. IsFiniteSet(T)
  BY <1>2, <1>3, FS_Surjection
<1>5. QED BY <1>4, FS_CardinalityType DEF Scanned, T, N

(* Every configuration the validator starts from satisfies BInv.          *)
LEMMA BInit ==
    ASSUME BootstrapAssumption, Init
    PROVE  BInv
<1>1. Multiaddr \subseteq Seq(Part)
  BY BoundedIsSeq DEF Multiaddr
<1>2. peers \in Seq(Multiaddr)
  BY BoundedIsSeq DEF Init
<1>3. peers \in Seq(Seq(Part))
  BY <1>1, <1>2, SeqMonotonic
<1>4. QED BY <1>3 DEF Init, BInv

(* Every validator step preserves BInv.                                    *)
LEMMA BStep ==
    ASSUME BootstrapAssumption, BInv, [Next]_vars
    PROVE  BInv'
<1>0. MinBootstrap \in Nat
  BY DEF BootstrapAssumption
<1>1. CASE Start
  BY <1>1 DEF Start, BInv
<1>2. CASE CheckCount
  <2>1. Len(peers) \in Nat
    BY LenProperties DEF BInv
  <2>2. Scanned(peers, 0) = {}
    BY DEF Scanned
  <2>3. UNCHANGED <<peers, maxConn, i, subnets_16>> /\ stage = "count"
    BY <1>2 DEF CheckCount
  <2>4. CASE Len(peers) < MinBootstrap
    <3>1. stage' = "done" /\ result' = "too_few"
      BY <1>2, <2>4 DEF CheckCount
    <3>2. ~SpecAccepts(peers, maxConn)
      BY <2>1, <2>3, <2>4 DEF BInv, SpecAccepts
    <3>3. QED BY <2>3, <3>1, <3>2 DEF BInv
  <2>5. CASE ~(Len(peers) < MinBootstrap)
    <3>1. stage' = "loop"
      BY <1>2, <2>5 DEF CheckCount
    <3>2. peers /= <<>> /\ Len(peers) >= MinBootstrap
      BY <1>0, <2>1, <2>3, <2>5 DEF BInv
    <3>3. i' = 1 /\ subnets_16' = {} /\ peers' = peers
      BY <2>3 DEF BInv
    <3>4. subnets_16' = Scanned(peers', i' - 1)
      BY <2>2, <3>3
    <3>5. i' \in 1..(Len(peers') + 1)
      BY <2>1, <3>3
    <3>6. QED BY <2>3, <3>1, <3>2, <3>3, <3>4, <3>5 DEF BInv
  <2>6. QED BY <2>4, <2>5
<1>3. CASE ScanPeer
  <2> DEFINE a == peers[i]
             ip == ExtractIpFromMultiaddr(a)
             Cond == HasIP(a) /\ FirstIP(a) \in IPv4
  <2>1. i \in 1..Len(peers) /\ stage = "loop"
    BY <1>3 DEF ScanPeer, BInv
  <2>2. a \in Seq(Part)
    BY <2>1, ElementOfSeq DEF BInv
  <2>3. ip = IF HasIP(a) THEN FirstIP(a) ELSE NoIP
    BY <2>2, ExtractFirst
  <2>4. HasIP(a) => FirstIP(a) \in Part
    BY <2>2, ExtractFirst DEF IPs, Part
  <2>5. (ip /= NoIP /\ ExtractSubnet16(ip) /= NoSubnet) <=> Cond
    BY <2>3, <2>4 DEF ExtractSubnet16, Part
  <2>6. Cond => ExtractSubnet16(ip) = Prefix16[FirstIP(a)]
    BY <2>3 DEF ExtractSubnet16
  <2>7. Scanned(peers, i) = IF Cond THEN Scanned(peers, i - 1) \cup {Prefix16[FirstIP(a)]}
                                     ELSE Scanned(peers, i - 1)
    BY <2>1, ScanSplit
  <2>8. subnets_16' = Scanned(peers, i)
    BY <1>3, <2>5, <2>6, <2>7 DEF ScanPeer, BInv
  <2>9. i' \in 1..(Len(peers) + 1) /\ i' - 1 = i
    BY <1>3, <2>1 DEF ScanPeer
  <2>10. QED BY <1>3, <2>8, <2>9 DEF ScanPeer, BInv
<1>4. CASE CheckDiversity
  <2>0. Len(peers) \in Nat /\ subnets_16 = Scanned(peers, Len(peers))
    BY <1>4, LenProperties DEF CheckDiversity, BInv
  <2>1. subnets_16 = SpecPrefixes(peers)
    BY <2>0 DEF Scanned, SpecPrefixes
  <2>2. Cardinality(subnets_16) \in Nat
    BY <2>0, ScannedFinite
  <2>3. QED BY <1>0, <1>4, <2>1, <2>2 DEF CheckDiversity, BInv, SpecAccepts
<1>5. CASE CheckMaxConnections
  BY <1>5 DEF CheckMaxConnections, BInv, SpecAccepts
<1>6. CASE UNCHANGED vars
  BY <1>6 DEF vars, BInv
<1>7. QED BY <1>1, <1>2, <1>3, <1>4, <1>5, <1>6 DEF Next

(* Main's steps other than Validate, and the other processes, leave the   *)
(* validator's state alone.                                                *)
LEMMA NodeFrame ==
    ASSUME NodeNext
    PROVE  Next \/ UNCHANGED vars
BY DEF NodeNext, Main, InitCommand, HealthCommand, StartCommand, LoadConfig,
       Validate, NewNetwork, InitSearch, SpawnApi, Recv, Handle, CtrlC, Shutdown,
       ApiFails, Network, Signal

(* validate_network_config accepts a configuration exactly when spec.md   *)
(* 4.5 and 4.6 do, for every bootstrap list and every bound: the loop's    *)
(* HashSet of /16 prefixes, filled from the first part of each multiaddr  *)
(* that parses as an IpAddr, is the set SpecPrefixes describes.           *)
THEOREM ValidatorMatchesSpec == NodeSpec => []MatchesSpec
<1>1. NodeInit => BInv
  BY BInit, BootstrapAssumption DEF NodeInit
<1>2. BInv /\ [NodeNext]_allVars => BInv'
  <2> SUFFICES ASSUME BInv, [NodeNext]_allVars PROVE BInv'
    OBVIOUS
  <2>1. [Next]_vars
    BY NodeFrame DEF allVars
  <2>2. QED BY <2>1, BStep, BootstrapAssumption
<1>3. BInv => MatchesSpec
  BY DEF BInv, MatchesSpec
<1>4. QED BY <1>1, <1>2, <1>3, PTL DEF NodeSpec
=============================================================================
