----------------------- MODULE AdmissionPipelineProofs -----------------------
(***************************************************************************)
(* Proofs about the whole admission path of AdmissionPipeline: the global *)
(* window, the per-IP backoff gate and the three trackers, for every value *)
(* of the constants that satisfies the modules' assumptions.               *)
(*                                                                         *)
(* The invariant PipeInv conjoins three parts, one per group of state:     *)
(*   - IInv (AdmissionProofs): the trackers' slot accounting;              *)
(*   - TotalInv: the total tracker's set is finite and within the cap;     *)
(*   - LimiterInv (ConnectionRateLimiterProofs): the per-IP entries are    *)
(*     well typed and none is stamped after now.                           *)
(* A pipeline step is a tracker step (an Admission step), a limiter call, *)
(* a tick, or the global gate, which only writes the address of an idle   *)
(* handle.  Each part is kept by the lemmas of its own module, except for *)
(* that last write, which GateKeepsIInv covers.                           *)
(*                                                                         *)
(* The global limiter has its own invariant GInv (TimesPast, WindowKept   *)
(* and its run's properties), kept by the gate and the tick and left      *)
(* alone by every other step; GatedIdle adds that a handle between the    *)
(* two limiters is idle, which completes PipelineTypeOK.                   *)
(***************************************************************************)
EXTENDS AdmissionPipeline, AdmissionProofs, SequenceTheorems

RP == INSTANCE ConnectionRateLimiterProofs

(* The total tracker's set is finite and never above max_connections.     *)
TotalInv == IsFiniteSet(total) /\ TotalCap

PipeInv == IInv /\ TotalInv /\ RP!LimiterInv

-----------------------------------------------------------------------------
(* The global gate writes the address of a handle that is idle, so no    *)
(* tracker's holder set moves.                                             *)
LEMMA GateKeepsIInv ==
    ASSUME IInv, NEW c \in Conn, NEW ip \in IP, pc[c] = "idle",
           peer' = [peer EXCEPT ![c] = ip] \/ peer' = peer,
           UNCHANGED <<sub24, sub16, total, pc>>
    PROVE  IInv'
<1>1. TypeOK'
  BY DEF IInv, TypeOK, Tracker24!TypeOK, Tracker16!TypeOK, Total!TypeOK
<1>2. \A s : Holders24(s)' = Holders24(s) /\ Holders16(s)' = Holders16(s)
  BY DEF IInv, TypeOK, Holders24, Holders16, Holds24, Holds16
<1>3. \A s : Tracker24!Count(s)' = Tracker24!Count(s)
             /\ Tracker16!Count(s)' = Tracker16!Count(s)
  BY DEF Tracker24!Count, Tracker16!Count
<1>4. QED BY <1>1, <1>2, <1>3 DEF IInv, Slots24, Slots16

(* A step of Admission moves the total tracker's set in one of three ways: *)
(* not at all, by removing an address, or by adding an address that was   *)
(* absent while the set was below the cap.                                 *)
LEMMA TotalMoves ==
    ASSUME TypeOK, [Next]_vars
    PROVE  \/ total' = total
           \/ \E x \in IP : total' = total \ {x}
           \/ \E x \in IP : /\ x \notin total
                            /\ Cardinality(total) < MaxConnections
                            /\ total' = total \cup {x}
<1>2. ASSUME NEW c \in Conn, AddTotal(c)
      PROVE  \/ total' = total
             \/ \E x \in IP : /\ x \notin total
                              /\ Cardinality(total) < MaxConnections
                              /\ total' = total \cup {x}
  <2> DEFINE x == peer[c]
  <2>1. x \in IP /\ total' = IF Total!AddSucceeds(x) THEN total \cup {x} ELSE total
    BY <1>2 DEF AddTotal, Total!AddConnection, TypeOK
  <2>2. CASE x \in total
    BY <2>1, <2>2 DEF Total!AddSucceeds
  <2>3. CASE x \notin total /\ Cardinality(total) < MaxConnections
    BY <2>1, <2>3 DEF Total!AddSucceeds, Total!CanAcceptConnection
  <2>4. CASE x \notin total /\ ~Total!CanAcceptConnection
    BY <2>1, <2>4 DEF Total!AddSucceeds
  <2>6. Total!CanAcceptConnection <=> Cardinality(total) < MaxConnections
    BY DEF Total!CanAcceptConnection, Total!Cardinality, Cardinality
  <2>5. QED BY <2>2, <2>3, <2>4, <2>6
<1>3. ASSUME NEW c \in Conn, RemoveTotal(c)
      PROVE  \E x \in IP : total' = total \ {x}
  BY <1>3 DEF RemoveTotal, Total!RemoveConnection, TypeOK
<1>4. QED
  BY <1>2, <1>3 DEF Next, vars, IncomingConnection, AddSubnet24, AddSubnet16,
     RemoveSubnet24, RemoveSubnet16
(* The total cap holds initially: the tracker starts empty.               *)
LEMMA TotalInit == Init => TotalInv
BY PrefixAssumption, FS_EmptySet DEF Init, Total!Init, TotalInv, TotalCap

(* Every step of Admission keeps the total tracker finite and within the  *)
(* cap: an address is added only when the set is below it.                *)
LEMMA TotalStep ==
    ASSUME TotalInv, TypeOK, [Next]_vars
    PROVE  TotalInv'
<1>1. Cardinality(total) \in Nat /\ MaxConnections \in Nat
  BY PrefixAssumption, FS_CardinalityType DEF TotalInv
<1>2. CASE total' = total
  BY <1>2 DEF TotalInv, TotalCap
<1>3. CASE \E x \in IP : total' = total \ {x}
  <2>1. PICK x \in IP : total' = total \ {x}
    BY <1>3
  <2>2. IsFiniteSet(total') /\ Cardinality(total') <= Cardinality(total)
    BY <2>1, <1>1, FS_RemoveElement DEF TotalInv
  <2>3. QED BY <1>1, <2>2, FS_CardinalityType DEF TotalInv, TotalCap
<1>4. CASE \E x \in IP : /\ x \notin total
                         /\ Cardinality(total) < MaxConnections
                         /\ total' = total \cup {x}
  <2>1. PICK x \in IP : /\ x \notin total
                        /\ Cardinality(total) < MaxConnections
                        /\ total' = total \cup {x}
    BY <1>4
  <2>2. IsFiniteSet(total') /\ Cardinality(total') = Cardinality(total) + 1
    BY <2>1, FS_AddElement DEF TotalInv
  <2>3. QED BY <1>1, <2>1, <2>2 DEF TotalInv, TotalCap
<1>5. QED BY <1>2, <1>3, <1>4, TotalMoves

(* The trackers' part of the invariant is kept by every Admission step.   *)
LEMMA AdmissionPart ==
    ASSUME IInv, TotalInv, [Next]_vars
    PROVE  IInv' /\ TotalInv'
BY IInvStep, TotalStep DEF IInv

(* The limiter that AdmissionPipeline runs, R, and the one the limiter's   *)
(* proofs are about, RP, are the same module under the same parameters.   *)
LEMMA LimiterAgrees ==
    /\ R!LimiterAssumption <=> RP!LimiterAssumption
    /\ \A ip : R!RecordAttempt(ip) <=> RP!RecordAttempt(ip)
    /\ \A ip : R!RecordFailure(ip) <=> RP!RecordFailure(ip)
    /\ \A ip : R!RecordSuccess(ip) <=> RP!RecordSuccess(ip)
    /\ \A a : R!Cleanup(a) <=> RP!Cleanup(a)
    /\ R!Tick <=> RP!Tick
BY DEF R!LimiterAssumption, RP!LimiterAssumption, R!RecordAttempt, RP!RecordAttempt,
       R!RecordFailure, RP!RecordFailure, R!RecordSuccess, RP!RecordSuccess,
       R!Cleanup, RP!Cleanup, R!Tick, RP!Tick, R!Store, RP!Store, R!Current, RP!Current
(* A step that leaves the per-IP limiter alone keeps its invariant.       *)
LEMMA LimiterIdle ==
    ASSUME PipeInv, UNCHANGED <<attempts, now, banned>>
    PROVE  RP!LimiterInv'
BY RP!StutterStep DEF PipeInv, RP!vars

-----------------------------------------------------------------------------
(* The global limiter.  Its run's properties are not inductive: a step's  *)
(* effect on the window depends on the history.  GInv adds two facts      *)
(* about it: no admission is stamped after now, and every admission still *)
(* inside the window ending now is one the Vec holds, because             *)
(* cleanup_expired drops only expired entries.                             *)
TimesPast == \A k \in 1..Len(admitted) : admitted[k] <= now

WindowKept ==
    \A k \in 1..Len(admitted) : G!InWindow(admitted[k]) => k \in connection_times

GInv ==
    /\ G!TypeOK /\ TimesPast /\ WindowKept
    /\ G!BoundedTimes /\ G!WindowCap /\ G!NoSpuriousRejection

(* The admissions of the history inside the window ending now.            *)
Live == {k \in 1..Len(admitted) : G!InWindow(admitted[k])}

(* The limiter counts with its own copy of FiniteSets.                    *)
LEMMA CardAgree == \A S : G!Cardinality(S) = Cardinality(S)
BY DEF G!Cardinality, Cardinality

(* The Vec is a finite set of positions of the history, and pruning it    *)
(* never makes it larger.                                                  *)
LEMMA TimesFinite ==
    ASSUME G!TypeOK
    PROVE  /\ Len(admitted) \in Nat
           /\ IsFiniteSet(connection_times)
           /\ Cardinality(connection_times) \in Nat
           /\ IsFiniteSet(G!Pruned)
           /\ Cardinality(G!Pruned) \in Nat
           /\ Cardinality(G!Pruned) <= Cardinality(connection_times)
<1>1. Len(admitted) \in Nat /\ IsFiniteSet(1..Len(admitted))
  BY FS_Interval DEF G!TypeOK
<1>2. IsFiniteSet(connection_times)
  BY <1>1, FS_Subset DEF G!TypeOK
<1>3. G!Pruned \subseteq connection_times
  BY DEF G!Pruned
<1>4. QED BY <1>1, <1>2, <1>3, FS_Subset, FS_CardinalityType

(* Under the invariant, the window ending now holds exactly the entries   *)
(* cleanup_expired keeps: what AdmittedIn(now) counts in the history is   *)
(* what current_count counts in the Vec.                                   *)
LEMMA LiveCounted ==
    ASSUME G!TypeOK, TimesPast, WindowKept
    PROVE  /\ Live = G!Pruned
           /\ G!AdmittedIn(now) = Cardinality(G!Pruned)
           /\ G!CurrentCount = Cardinality(G!Pruned)
<1>1. Live = G!Pruned
  BY DEF Live, G!Pruned, WindowKept, G!TypeOK
<1>2. {k \in 1..Len(admitted) :
         now - admitted[k] < WindowDuration /\ admitted[k] <= now} = Live
  BY DEF Live, G!InWindow, TimesPast
<1>3. G!AdmittedIn(now) = Cardinality(Live)
  BY <1>2, CardAgree DEF G!AdmittedIn
<1>4. G!CurrentCount = Cardinality(G!Pruned)
  BY CardAgree DEF G!CurrentCount, G!Pruned
<1>5. QED BY <1>1, <1>3, <1>4

(* One more than a count below the limit is within it.                   *)
LEMMA SuccWithin ==
    ASSUME NEW x, NEW c \in Nat, NEW m \in Nat, x = c + 1, c < m
    PROVE  x <= m
OBVIOUS

(* The order of the integers is transitive.                              *)
LEMMA LeChain ==
    ASSUME NEW x \in Int, NEW y \in Int, NEW m \in Int, x <= y, y <= m
    PROVE  x <= m
OBVIOUS

(* record_new_connection admits: the pruned Vec had room, and the new     *)
(* admission, stamped now, is the one entry the window ending now gains;  *)
(* no earlier window can contain it.                                       *)
LEMMA GAdmitKeeps ==
    ASSUME GInv, G!GlobalAssumption,
           Cardinality(G!Pruned) < MaxPerWindow,
           connection_times' = G!Pruned \cup {Len(admitted) + 1},
           result' = "admitted",
           admitted' = Append(admitted, now),
           now' = now
    PROVE  GInv'
<1> DEFINE n == Len(admitted)
<1>1. /\ n \in Nat /\ IsFiniteSet(G!Pruned) /\ Cardinality(G!Pruned) \in Nat
      /\ now \in 0..MaxTime /\ admitted \in Seq(0..MaxTime)
      /\ MaxPerWindow \in Nat /\ WindowDuration \in Nat \ {0}
  BY TimesFinite DEF GInv, G!TypeOK, G!GlobalAssumption
<1>2. /\ Len(admitted') = n + 1
      /\ \A k \in 1..n : admitted'[k] = admitted[k]
      /\ admitted'[n + 1] = now
      /\ admitted' \in Seq(0..MaxTime)
  BY <1>1, AppendProperties
<1>3. G!Pruned \subseteq 1..n
  BY DEF G!Pruned, GInv, G!TypeOK
<1>4. G!TypeOK'
  <2>1. connection_times' \subseteq 1..Len(admitted')
    <3>1. 1..n \cup {n + 1} = 1..Len(admitted')
      BY <1>1, <1>2 DEF n
    <3>2. connection_times' \subseteq 1..n \cup {n + 1}
      BY <1>3 DEF n
    <3>3. QED BY <3>1, <3>2
  <2>2. QED BY <1>1, <1>2, <2>1 DEF G!TypeOK
<1>5. TimesPast'
  BY <1>1, <1>2 DEF TimesPast, GInv
<1>6. WindowKept'
  BY <1>1, <1>2 DEF WindowKept, GInv, G!InWindow, G!Pruned
<1>7. IsFiniteSet(connection_times')
      /\ Cardinality(connection_times') = Cardinality(G!Pruned) + 1
  BY <1>1, <1>3, FS_AddElement
<1>8. G!BoundedTimes'
  BY <1>1, <1>7, CardAgree DEF G!BoundedTimes
<1>9. G!WindowCap'
  <2> DEFINE Old(u) == {k \in 1..n : u - admitted[k] < WindowDuration /\ admitted[k] <= u}
             New(u) == {k \in 1..n + 1 :
                          u - admitted'[k] < WindowDuration /\ admitted'[k] <= u}
  <2>1. \A u : /\ G!AdmittedIn(u)' = Cardinality(New(u))
               /\ G!AdmittedIn(u) = Cardinality(Old(u))
    BY <1>2, CardAgree DEF G!AdmittedIn
  <2>2. SUFFICES ASSUME NEW t \in 0..now PROVE Cardinality(New(t)) <= MaxPerWindow
    BY <2>1 DEF G!WindowCap
  <2>3. CASE t < now
    <3>1. New(t) = Old(t)
      BY <1>1, <1>2, <2>3
    <3>2. QED BY <2>1, <3>1 DEF GInv, G!WindowCap
  <2>4. CASE t = now
    <3>1. Old(now) = G!Pruned
      BY LiveCounted DEF GInv, Live, G!InWindow, TimesPast
    <3>2. New(t) = G!Pruned \cup {n + 1}
      BY <1>1, <1>2, <2>4, <3>1
    <3>3. n + 1 \notin G!Pruned
      BY <1>1, <1>3 DEF n
    <3>4. Cardinality(New(t)) = Cardinality(G!Pruned) + 1
      BY <1>1, <3>2, <3>3, FS_AddElement
    <3>5. QED BY <1>1, <3>4, SuccWithin
  <2>5. t < now \/ t = now
    BY <1>1
  <2>6. QED BY <2>3, <2>4, <2>5
<1>10. G!NoSpuriousRejection'
  BY DEF G!NoSpuriousRejection
<1>11. QED BY <1>4, <1>5, <1>6, <1>8, <1>9, <1>10 DEF GInv

(* record_new_connection rejects: the pruned Vec is full, the window      *)
(* ending now holds exactly its entries, and the history is unchanged.    *)
LEMMA GRejectKeeps ==
    ASSUME GInv, G!GlobalAssumption,
           Cardinality(G!Pruned) >= MaxPerWindow,
           connection_times' = G!Pruned, result' = "rejected",
           admitted' = admitted, now' = now
    PROVE  GInv'
<1>1. /\ Cardinality(G!Pruned) <= Cardinality(connection_times)
      /\ Cardinality(connection_times) \in Nat /\ Cardinality(G!Pruned) \in Nat
  BY TimesFinite DEF GInv
<1>2. G!TypeOK'
  BY DEF GInv, G!TypeOK, G!Pruned
<1>3. TimesPast' /\ WindowKept'
  BY DEF GInv, TimesPast, WindowKept, G!Pruned, G!InWindow
<1>4. G!BoundedTimes'
  BY <1>1, CardAgree DEF GInv, G!BoundedTimes, G!GlobalAssumption
<1>5. G!WindowCap'
  BY DEF GInv, G!WindowCap, G!AdmittedIn
<1>6. G!NoSpuriousRejection'
  <2>1. G!AdmittedIn(now)' = G!AdmittedIn(now)
    BY DEF G!AdmittedIn
  <2>2. QED BY <2>1, LiveCounted DEF GInv, G!NoSpuriousRejection
<1>7. QED BY <1>2, <1>3, <1>4, <1>5, <1>6 DEF GInv

(* record_new_connection keeps GInv, whichever way it decides.            *)
LEMMA GRecordKeeps ==
    ASSUME GInv, G!GlobalAssumption, G!RecordNewConnection
    PROVE  GInv'
<1>1. Cardinality(G!Pruned) \in Nat /\ MaxPerWindow \in Nat
  BY TimesFinite DEF GInv, G!GlobalAssumption
<1>2. CASE Cardinality(G!Pruned) >= MaxPerWindow
  BY <1>2, GRejectKeeps, CardAgree DEF G!RecordNewConnection
<1>3. CASE Cardinality(G!Pruned) < MaxPerWindow
  <2>1. ~(G!Cardinality(G!Pruned) >= MaxPerWindow)
    BY <1>1, <1>3, CardAgree
  <2>2. /\ connection_times' = G!Pruned \cup {Len(admitted) + 1}
        /\ result' = "admitted"
        /\ admitted' = Append(admitted, now)
        /\ now' = now
    BY <2>1 DEF G!RecordNewConnection
  <2>3. QED BY <1>3, <2>2, GAdmitKeeps
<1>4. QED BY <1>1, <1>2, <1>3

(* A tick: every admission that is inside the new window was inside the   *)
(* old one, so the Vec still holds it, and the new window ending now + 1  *)
(* counts only entries of the Vec.                                         *)
LEMMA GTickKeeps ==
    ASSUME GInv, G!GlobalAssumption, G!Tick
    PROVE  GInv'
<1>1. /\ now \in 0..MaxTime /\ now < MaxTime /\ admitted \in Seq(0..MaxTime)
      /\ MaxPerWindow \in Nat /\ Len(admitted) \in Nat /\ MaxTime \in Nat
      /\ WindowDuration \in Nat
      /\ IsFiniteSet(connection_times) /\ Cardinality(connection_times) \in Nat
  BY TimesFinite DEF GInv, G!TypeOK, G!Tick, G!GlobalAssumption
<1>2. \A k \in 1..Len(admitted) : admitted[k] \in 0..MaxTime
  BY <1>1
<1>3. G!TypeOK'
  BY <1>1 DEF GInv, G!TypeOK, G!Tick
<1>4. TimesPast'
  BY <1>1, <1>2 DEF GInv, G!Tick, TimesPast
<1>5. WindowKept'
  BY <1>1, <1>2 DEF GInv, WindowKept, G!InWindow, G!Tick
<1>6. G!BoundedTimes' /\ G!NoSpuriousRejection'
  BY DEF GInv, G!BoundedTimes, G!NoSpuriousRejection, G!Tick
<1>7. G!WindowCap'
  <2>1. \A u : G!AdmittedIn(u)' = G!AdmittedIn(u)
    BY DEF G!Tick, G!AdmittedIn
  <2>2. SUFFICES ASSUME NEW t \in 0..now + 1 PROVE G!AdmittedIn(t) <= MaxPerWindow
    BY <2>1 DEF G!Tick, G!WindowCap
  <2>3. CASE t \in 0..now
    BY <2>3 DEF GInv, G!WindowCap
  <2>4. CASE t = now + 1
    <3> DEFINE S == {k \in 1..Len(admitted) :
                       t - admitted[k] < WindowDuration /\ admitted[k] <= t}
    <3>1. S \subseteq connection_times
      BY <1>1, <1>2, <2>4 DEF GInv, WindowKept, G!InWindow
    <3>2. IsFiniteSet(S) /\ Cardinality(S) <= Cardinality(connection_times)
      BY <1>1, <3>1, FS_Subset
    <3>3. Cardinality(S) \in Nat
      BY <3>2, FS_CardinalityType
    <3>4. Cardinality(connection_times) <= MaxPerWindow
      BY CardAgree DEF GInv, G!BoundedTimes
    <3>5. G!AdmittedIn(t) = Cardinality(S)
      BY CardAgree DEF G!AdmittedIn
    <3>6. QED BY <1>1, <3>2, <3>3, <3>4, <3>5, LeChain
  <2>5. QED BY <1>1, <2>3, <2>4
<1>8. QED BY <1>3, <1>4, <1>5, <1>6, <1>7 DEF GInv

(* A step that leaves the global limiter's state alone keeps GInv.        *)
LEMMA GIdle ==
    ASSUME GInv, UNCHANGED <<connection_times, result, admitted, now>>
    PROVE  GInv'
BY DEF GInv, G!TypeOK, TimesPast, WindowKept, G!InWindow, G!BoundedTimes,
       G!WindowCap, G!AdmittedIn, G!NoSpuriousRejection

(* The limiter starts with an empty Vec and an empty history.             *)
LEMMA GInit ==
    ASSUME G!GlobalAssumption, G!Init
    PROVE  GInv
<1>1. G!TypeOK /\ TimesPast /\ WindowKept /\ G!NoSpuriousRejection
  BY DEF G!Init, G!TypeOK, G!GlobalAssumption, TimesPast, WindowKept,
         G!NoSpuriousRejection
<1>2. Cardinality({}) = 0
  BY FS_EmptySet
<1>3. G!BoundedTimes
  BY <1>2, CardAgree DEF G!Init, G!BoundedTimes, G!GlobalAssumption
<1>4. G!WindowCap
  <2>1. \A t \in 0..now : {k \in 1..Len(admitted) :
                             t - admitted[k] < WindowDuration /\ admitted[k] <= t} = {}
    BY DEF G!Init
  <2>2. QED BY <1>2, <2>1, CardAgree DEF G!Init, G!WindowCap, G!AdmittedIn,
                                         G!GlobalAssumption
<1>5. QED BY <1>1, <1>3, <1>4 DEF GInv

-----------------------------------------------------------------------------
(* Every step of the pipeline keeps PipeInv.                              *)
LEMMA PipeStep ==
    ASSUME PipeInv, [PipelineNext]_pipeVars
    PROVE  PipeInv'
<1>0. /\ RP!LimiterAssumption /\ RP!LimiterInv /\ IInv /\ TotalInv
      /\ TypeOK /\ peer \in [Conn -> IP]
  BY GateAssumption, LimiterAgrees DEF PipeInv, IInv, TypeOK
<1>1. ASSUME NEW c \in Conn, NEW ip \in IP, GlobalGate(c, ip)
      PROVE  PipeInv'
  <2>1. IInv'
    BY <1>0, <1>1, GateKeepsIInv DEF GlobalGate
  <2>2. TotalInv'
    BY <1>0, <1>1 DEF GlobalGate, TotalInv, TotalCap
  <2>3. UNCHANGED <<attempts, now, banned>>
    BY <1>1 DEF GlobalGate, G!RecordNewConnection
  <2>4. QED BY <2>1, <2>2, <2>3, LimiterIdle DEF PipeInv
<1>2. ASSUME NEW c \in Conn, PerIpGate(c)
      PROVE  PipeInv'
  <2>1. CASE R!CanAttempt(peer[c])
    <3>1. IncomingConnection(c, peer[c]) /\ RP!RecordAttempt(peer[c])
      BY <1>2, <2>1, LimiterAgrees DEF PerIpGate
    <3>2. [Next]_vars
      BY <1>0, <3>1 DEF Next
    <3>3. IInv' /\ TotalInv'
      BY <1>0, <3>2, AdmissionPart
    <3>4. RP!LimiterInv'
      BY <1>0, <1>0, <3>1, RP!AttemptStep
    <3>5. QED BY <3>3, <3>4 DEF PipeInv
  <2>2. CASE ~R!CanAttempt(peer[c])
    <3>1. UNCHANGED <<vars, attempts, banned, now>>
      BY <1>2, <2>2 DEF PerIpGate
    <3>2. IInv' /\ TotalInv'
      BY <1>0, <3>1, AdmissionPart
    <3>3. QED BY <3>1, <3>2, LimiterIdle DEF PipeInv
  <2>3. QED BY <2>1, <2>2
<1>3. ASSUME NEW c \in Conn, TrackerStep(c)
      PROVE  PipeInv'
  <2>1. [Next]_vars
    BY <1>3 DEF TrackerStep, Next
  <2>2. IInv' /\ TotalInv'
    BY <1>0, <2>1, AdmissionPart
  <2>3. QED BY <1>3, <2>2, LimiterIdle DEF TrackerStep, PipeInv
<1>4. ASSUME LimiterCall
      PROVE  PipeInv'
  <2>1. IInv' /\ TotalInv'
    BY <1>0, <1>4, AdmissionPart DEF LimiterCall
  <2>2. RP!LimiterInv'
    <3>1. CASE \E ip \in IP : R!RecordFailure(ip)
      BY <1>0, <3>1, LimiterAgrees, RP!FailureStep
    <3>2. CASE \E ip \in IP : R!RecordSuccess(ip)
      BY <1>0, <3>2, LimiterAgrees, RP!SuccessStep
    <3>3. CASE \E a \in MaxAges : R!Cleanup(a)
      BY <1>0, <3>3, LimiterAgrees, RP!CleanupStep
    <3>4. QED BY <1>4, <3>1, <3>2, <3>3 DEF LimiterCall
  <2>3. QED BY <2>1, <2>2 DEF PipeInv
<1>5. ASSUME Tick
      PROVE  PipeInv'
  <2>1. IInv' /\ TotalInv'
    BY <1>0, <1>5, AdmissionPart DEF Tick
  <2>2. RP!LimiterInv'
    BY <1>0, <1>5, LimiterAgrees, RP!TickStep DEF Tick
  <2>3. QED BY <2>1, <2>2 DEF PipeInv
<1>6. CASE UNCHANGED pipeVars
  <2>1. IInv' /\ TotalInv'
    BY <1>0, <1>6, AdmissionPart DEF pipeVars
  <2>2. QED BY <1>6, <2>1, LimiterIdle DEF pipeVars, PipeInv
<1>7. QED BY <1>1, <1>2, <1>3, <1>4, <1>5, <1>6 DEF PipelineNext
(* The pipeline starts in PipeInv.                                         *)
LEMMA PipeInit == PipelineInit => PipeInv
<1> SUFFICES ASSUME PipelineInit PROVE PipeInv
  OBVIOUS
<1>1. RP!LimiterAssumption
  BY GateAssumption, LimiterAgrees
<1>2. RP!Init
  BY DEF PipelineInit, R!Init, RP!Init
<1>3. QED BY <1>1, <1>2, IInvInit, TotalInit, RP!InitInv DEF PipelineInit, PipeInv

(* The limiter's properties, as the pipeline states them through R, are   *)
(* the ones its proofs state through RP.                                   *)
LEMMA PropertiesAgree ==
    /\ BackoffRespected <=> RP!BackoffRespected
    /\ WaitAdvice <=> RP!WaitAdvice
<1>1. BackoffRespected <=> RP!BackoffRespected
  BY DEF BackoffRespected, R!BackoffRespected, RP!BackoffRespected,
     R!CanAttempt, RP!CanAttempt, R!CalculateDelay, RP!CalculateDelay,
     R!SpecDelay, RP!SpecDelay, R!MinOf, RP!MinOf, R!Pow2Capped, RP!Pow2Capped
<1>2. WaitAdvice <=> RP!WaitAdvice
  BY DEF WaitAdvice, R!WaitAdvice, RP!WaitAdvice, R!TimeUntilAllowed,
     RP!TimeUntilAllowed, R!NeverDelay, RP!NeverDelay, R!FailureCount, RP!FailureCount,
     R!CanAttempt, RP!CanAttempt, R!CalculateDelay, RP!CalculateDelay,
     R!SpecDelay, RP!SpecDelay, R!MinOf, RP!MinOf, R!Pow2Capped, RP!Pow2Capped
<1>3. QED BY <1>1, <1>2

-----------------------------------------------------------------------------
(* The global limiter inside the pipeline.  Only the global gate and the  *)
(* tick touch its state; every other step leaves it alone.                *)
LEMMA GPipeStep ==
    ASSUME GInv, [PipelineNext]_pipeVars
    PROVE  GInv'
<1>0. G!GlobalAssumption
  BY GateAssumption
<1>1. ASSUME NEW c \in Conn, NEW ip \in IP, GlobalGate(c, ip)
      PROVE  GInv'
  BY <1>0, <1>1, GRecordKeeps DEF GlobalGate
<1>2. ASSUME NEW c \in Conn, PerIpGate(c)
      PROVE  GInv'
  BY <1>2, GIdle DEF PerIpGate
<1>3. ASSUME NEW c \in Conn, TrackerStep(c)
      PROVE  GInv'
  BY <1>3, GIdle DEF TrackerStep
<1>4. CASE LimiterCall
  <2>1. now' = now
    BY <1>4 DEF LimiterCall, R!RecordFailure, R!RecordSuccess, R!Cleanup
  <2>2. QED BY <1>4, <2>1, GIdle DEF LimiterCall
<1>5. CASE Tick
  BY <1>0, <1>5, GTickKeeps DEF Tick
<1>6. CASE UNCHANGED pipeVars
  BY <1>6, GIdle DEF pipeVars
<1>7. QED BY <1>1, <1>2, <1>3, <1>4, <1>5, <1>6 DEF PipelineNext

(* The pipeline starts with the global limiter's initial state.           *)
LEMMA GPipeInit ==
    ASSUME PipelineInit
    PROVE  GInv
BY GateAssumption, GInit DEF PipelineInit

(* Under GInv, remaining_capacity and can_accept_new_connection report    *)
(* the window ending now: current_count is the count of that window, and *)
(* it never exceeds max_per_window, so the saturating subtraction never   *)
(* saturates below it.                                                     *)
LEMMA GAdvice ==
    ASSUME GInv, G!GlobalAssumption
    PROVE  G!CapacityAdvice
<1>1. Cardinality(G!Pruned) \in Nat /\ MaxPerWindow \in Nat /\ now \in Nat
  BY TimesFinite DEF GInv, G!GlobalAssumption, G!TypeOK
<1>2. G!AdmittedIn(now) = Cardinality(G!Pruned)
      /\ G!CurrentCount = Cardinality(G!Pruned)
  BY LiveCounted DEF GInv
<1>3. G!AdmittedIn(now) <= MaxPerWindow
  BY <1>1 DEF GInv, G!WindowCap
<1>4. G!RemainingCapacity = MaxPerWindow - G!CurrentCount
  BY <1>1, <1>2, <1>3 DEF G!RemainingCapacity
<1>5. G!CanAcceptNewConnection <=> G!CurrentCount < MaxPerWindow
  BY CardAgree DEF G!CanAcceptNewConnection, G!CurrentCount
<1>6. QED BY <1>1, <1>2, <1>4, <1>5 DEF G!CapacityAdvice

(* The handles the global gate admitted wait, idle, for the per-IP gate.  *)
GatedIdle == gated \subseteq Conn /\ \A c \in gated : pc[c] = "idle"

(* A tracker step moves only its own handle, which is past the per-IP     *)
(* gate, so not idle.                                                      *)
LEMMA TrackerMovesOwn ==
    ASSUME NEW c \in Conn, TrackerStep(c)
    PROVE  /\ pc[c] # "idle" /\ gated' = gated
           /\ \E v : pc' = [pc EXCEPT ![c] = v]
BY DEF TrackerStep, AddSubnet24, AddSubnet16, AddTotal, RemoveSubnet24,
       RemoveSubnet16, RemoveTotal, Advance

(* Every pipeline step keeps the gated handles idle: the global gate adds *)
(* only an idle handle, and the only step that moves a gated handle, the   *)
(* per-IP gate, removes it from gated in the same step.                    *)
LEMMA GatedStep ==
    ASSUME TypeOK, GatedIdle, [PipelineNext]_pipeVars
    PROVE  GatedIdle'
<1>1. ASSUME NEW c \in Conn, NEW ip \in IP, GlobalGate(c, ip)
      PROVE  GatedIdle'
  BY <1>1 DEF GlobalGate, GatedIdle
<1>2. ASSUME NEW c \in Conn, PerIpGate(c)
      PROVE  GatedIdle'
  <2>1. gated' = gated \ {c} /\ (pc' = [pc EXCEPT ![c] = "sub24"] \/ pc' = pc)
    BY <1>2 DEF PerIpGate, IncomingConnection, vars
  <2>2. QED BY <2>1 DEF GatedIdle, TypeOK
<1>3. ASSUME NEW c \in Conn, TrackerStep(c)
      PROVE  GatedIdle'
  <2>1. PICK v : pc' = [pc EXCEPT ![c] = v]
    BY <1>3, TrackerMovesOwn
  <2>2. QED BY <1>3, <2>1, TrackerMovesOwn DEF GatedIdle, TypeOK
<1>4. CASE LimiterCall \/ Tick
  BY <1>4 DEF LimiterCall, Tick, vars, GatedIdle
<1>5. CASE UNCHANGED pipeVars
  BY <1>5 DEF pipeVars, vars, GatedIdle
<1>6. QED BY <1>1, <1>2, <1>3, <1>4, <1>5 DEF PipelineNext
-----------------------------------------------------------------------------
(* The pipeline's invariant holds in every reachable state, whatever the  *)
(* interleaving of attempts, limiter calls and the clock.                  *)
THEOREM PipelineInvariant == PipelineSpec => []PipeInv
<1>1. PipeInv /\ [PipelineNext]_pipeVars => PipeInv'
  BY PipeStep
<1>2. QED BY <1>1, PipeInit, PTL DEF PipelineSpec

(* Slot accounting (the run's IInv) on the whole pipeline: each /24 and   *)
(* /16 count covers the connections holding a slot of it and stays within  *)
(* its limit, with the limiters' gates and the global gate's writes of a  *)
(* handle's address interleaved.                                           *)
THEOREM PipelineSlotAccounting == PipelineSpec => []IInv
BY PipelineInvariant, PTL DEF PipeInv

(* Sybil protection on the whole pipeline: no /24 or /16 prefix ever has  *)
(* more admitted connections than its limit.                               *)
THEOREM PipelineSybilSafety == PipelineSpec => []SybilLimits
BY PipelineSlotAccounting, IInvSybil, PTL

(* Total cap: connection_tracker never holds more than max_connections    *)
(* addresses, however the pipeline's add and remove calls interleave.      *)
THEOREM PipelineTotalCap == PipelineSpec => []TotalCap
<1>1. PipeInv => TotalCap
  BY DEF PipeInv, TotalInv
<1>2. QED BY <1>1, PipelineInvariant, PTL

(* Backoff: for every configuration with max_failures <= 33, can_attempt  *)
(* lets a tracked address through only once the spec's delay for its      *)
(* failure count has passed since its last attempt.                        *)
THEOREM PipelineBackoff ==
    ASSUME MaxFailures <= 33
    PROVE  PipelineSpec => []BackoffRespected
<1>1. PipeInv => BackoffRespected
  BY GateAssumption, RP!BackoffFromInv, PropertiesAgree DEF PipeInv, R!LimiterAssumption
<1>2. QED BY <1>1, PipelineInvariant, PTL

(* time_until_allowed tells the truth: for every configuration with       *)
(* 1 <= max_failures <= 33, it is 0 exactly when can_attempt passes,     *)
(* "never" exactly for a banned address, and otherwise long enough to     *)
(* wait out the spec's delay.                                              *)
THEOREM PipelineWaitAdvice ==
    ASSUME MaxFailures \in 1..33
    PROVE  PipelineSpec => []WaitAdvice
<1>1. PipeInv => WaitAdvice
  BY GateAssumption, LimiterAgrees, RP!WaitAdviceFromInv, PropertiesAgree DEF PipeInv
<1>2. QED BY <1>1, PipelineInvariant, PTL

(* The global limiter's inductive invariant holds in every reachable      *)
(* state of the pipeline.                                                   *)
THEOREM GlobalLimiterInvariant == PipelineSpec => []GInv
<1>1. PipelineInit => GInv
  BY GPipeInit
<1>2. GInv /\ [PipelineNext]_pipeVars => GInv'
  BY GPipeStep
<1>3. QED BY <1>1, <1>2, PTL DEF PipelineSpec

(* Sliding window: however attempts, limiter calls and the clock           *)
(* interleave, no window of window_duration ticks ending at any time up   *)
(* to now holds more than max_per_window admissions of                     *)
(* record_new_connection.                                                   *)
THEOREM PipelineWindowCap == PipelineSpec => []WindowCap
<1>1. GInv => WindowCap
  BY DEF GInv, WindowCap
<1>2. QED BY <1>1, GlobalLimiterInvariant, PTL

(* record_new_connection rejects only when max_per_window admissions     *)
(* already lie in the window ending now: pruning before the check makes   *)
(* the window exact.                                                        *)
THEOREM PipelineNoSpuriousRejection == PipelineSpec => []NoSpuriousRejection
<1>1. GInv => NoSpuriousRejection
  BY DEF GInv, NoSpuriousRejection
<1>2. QED BY <1>1, GlobalLimiterInvariant, PTL

(* Memory bound: connection_times never holds more than max_per_window    *)
(* entries, for every value of the constants.                              *)
THEOREM PipelineBoundedTimes == PipelineSpec => []BoundedTimes
<1>1. GInv => BoundedTimes
  BY DEF GInv, BoundedTimes
<1>2. QED BY <1>1, GlobalLimiterInvariant, PTL

(* remaining_capacity and can_accept_new_connection tell the truth about  *)
(* the window ending now in every reachable state.                         *)
THEOREM PipelineCapacityAdvice == PipelineSpec => []CapacityAdvice
<1>1. GInv => CapacityAdvice
  BY GateAssumption, GAdvice DEF CapacityAdvice
<1>2. QED BY <1>1, GlobalLimiterInvariant, PTL

(* Type correctness of the whole pipeline: every component's state is well *)
(* typed, and a handle waiting between the two limiters is idle, so the    *)
(* per-IP gate's IncomingConnection always finds it free.                  *)
THEOREM PipelineTypeCorrect == PipelineSpec => []PipelineTypeOK
<1> DEFINE TypeInv == PipeInv /\ GInv /\ GatedIdle
<1>1. PipelineInit => TypeInv
  BY PipeInit, GPipeInit DEF PipelineInit, GatedIdle, TypeInv
<1>2. TypeInv /\ [PipelineNext]_pipeVars => TypeInv'
  BY PipeStep, GPipeStep, GatedStep DEF TypeInv, PipeInv, IInv
<1>3. TypeInv => PipelineTypeOK
  BY DEF TypeInv, PipeInv, IInv, GInv, GatedIdle, RP!LimiterInv, PipelineTypeOK,
         R!TypeOK, RP!TypeOK, R!Entry, RP!Entry
<1>4. QED BY <1>1, <1>2, <1>3, PTL DEF PipelineSpec
====
