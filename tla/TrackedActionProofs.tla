------------------------- MODULE TrackedActionProofs -------------------------
(***************************************************************************)
(* Proof that the shared counters of TrackedAction stay ordered:           *)
(* error_count <= execution_count in every reachable state, for any number *)
(* of concurrent executions and stats callers.                             *)
(*                                                                         *)
(* ErrorsWithinExecutions is not inductive: a task that has passed the     *)
(* count block and will fail is about to add an error.  CountsCover adds   *)
(* those pending errors to the left-hand side, and records that only a     *)
(* failed execution reaches the error block.                               *)
(***************************************************************************)
EXTENDS TrackedAction, FiniteSetTheorems, TLAPS

(* The pending errors form a finite set of tasks.                         *)
LEMMA PendingFinite ==
    /\ IsFiniteSet(PendingErrors)
    /\ Cardinality(PendingErrors) \in Nat
<1>1. PendingErrors \subseteq Task
  BY DEF PendingErrors
<1>2. IsFiniteSet(PendingErrors)
  BY <1>1, TrackedAssumption, FS_Subset
<1>3. QED BY <1>2, FS_CardinalityType

LEMMA PendingFiniteNext ==
    /\ IsFiniteSet(PendingErrors')
    /\ Cardinality(PendingErrors') \in Nat
<1>1. PendingErrors' \subseteq Task
  BY DEF PendingErrors
<1>2. IsFiniteSet(PendingErrors')
  BY <1>1, TrackedAssumption, FS_Subset
<1>3. QED BY <1>2, FS_CardinalityType

LEMMA CoverInit == Init => CountsCover
<1> SUFFICES ASSUME Init PROVE CountsCover
  OBVIOUS
<1>1. PendingErrors = {}
  BY DEF Init, PendingErrors
<1>2. TypeOK
  BY TrackedAssumption DEF Init, TypeOK, TaskStage, ReaderStage
<1>3. QED BY <1>1, <1>2, FS_EmptySet DEF Init, CountsCover

LEMMA CoverStep == CountsCover /\ [Next]_vars => CountsCover'
<1> SUFFICES ASSUME CountsCover, [Next]_vars PROVE CountsCover'
  OBVIOUS
<1> USE DEF CountsCover
<1>0. /\ IsFiniteSet(PendingErrors) /\ Cardinality(PendingErrors) \in Nat
      /\ IsFiniteSet(PendingErrors') /\ Cardinality(PendingErrors') \in Nat
  BY PendingFinite, PendingFiniteNext
<1>1. ASSUME NEW t \in Task, NEW err \in BOOLEAN, NEW d \in Durations,
             Execute(t, err, d)
      PROVE  CountsCover'
  <2>1. PendingErrors' = PendingErrors
    BY <1>1 DEF Execute, PendingErrors, TypeOK
  <2>2. TypeOK'
    BY <1>1 DEF Execute, TypeOK, TaskStage
  <2>3. QED BY <1>1, <2>1, <2>2 DEF Execute, TypeOK
<1>2. ASSUME NEW t \in Task, IncCount(t) PROVE CountsCover'
  <2>1. PendingErrors' = IF failed[t] THEN PendingErrors \cup {t} ELSE PendingErrors
    BY <1>2 DEF IncCount, PendingErrors, TypeOK
  <2>2. Cardinality(PendingErrors') <= Cardinality(PendingErrors) + 1
    BY <1>0, <2>1, FS_AddElement
  <2>3. TypeOK'
    BY <1>2 DEF IncCount, TypeOK, TaskStage
  <2>4. QED BY <1>0, <1>2, <2>2, <2>3 DEF IncCount, TypeOK
<1>3. ASSUME NEW t \in Task, IncTotal(t) PROVE CountsCover'
  <2>1. PendingErrors' = PendingErrors
    BY <1>3 DEF IncTotal, PendingErrors, TypeOK
  <2>2. TypeOK'
    <3>0. dur[t] \in Nat /\ total_duration_ms \in Nat
      <4>1. dur[t] \in Durations \cup {0}
        BY DEF TypeOK
      <4>2. Durations \subseteq Nat
        BY TrackedAssumption
      <4>3. CASE dur[t] = 0
        BY <4>3 DEF TypeOK
      <4>4. CASE dur[t] \in Durations
        BY <4>2, <4>4 DEF TypeOK
      <4>5. QED BY <4>1, <4>3, <4>4
    <3>1. total_duration_ms' \in Nat
      BY <1>3, <3>0 DEF IncTotal
    <3>2. tpc' \in [Task -> TaskStage]
      BY <1>3 DEF IncTotal, TypeOK, TaskStage
    <3>3. QED BY <1>3, <3>1, <3>2 DEF IncTotal, TypeOK
  <2>3. QED BY <1>3, <2>1, <2>2 DEF IncTotal, TypeOK
<1>4. ASSUME NEW t \in Task, IncErrors(t) PROVE CountsCover'
  <2>1. t \in PendingErrors
    BY <1>4 DEF IncErrors, PendingErrors
  <2>2. PendingErrors' = PendingErrors \ {t}
    BY <1>4 DEF IncErrors, PendingErrors, TypeOK
  <2>3. Cardinality(PendingErrors') = Cardinality(PendingErrors) - 1
    BY <1>0, <2>1, <2>2, FS_RemoveElement
  <2>4. TypeOK'
    BY <1>4 DEF IncErrors, TypeOK, TaskStage
  <2>5. QED BY <1>0, <1>4, <2>3, <2>4 DEF IncErrors, TypeOK
<1>5. ASSUME NEW r \in Reader,
             ReadCount(r) \/ ReadTotal(r) \/ ReadErrors(r) \/ ReturnStats(r)
      PROVE  CountsCover'
  <2>1. PendingErrors' = PendingErrors
    BY <1>5 DEF ReadCount, ReadTotal, ReadErrors, ReturnStats, PendingErrors
  <2>2. TypeOK'
    <3>1. CASE ReadCount(r)
      BY <3>1 DEF ReadCount, TypeOK, ReaderStage
    <3>2. CASE ReadTotal(r)
      BY <3>2 DEF ReadTotal, TypeOK, ReaderStage
    <3>3. CASE ReadErrors(r)
      BY <3>3 DEF ReadErrors, TypeOK, ReaderStage
    <3>4. CASE ReturnStats(r)
      BY <3>4 DEF ReturnStats, TypeOK, ReaderStage
    <3>5. QED BY <1>5, <3>1, <3>2, <3>3, <3>4
  <2>3. QED BY <1>5, <2>1, <2>2 DEF ReadCount, ReadTotal, ReadErrors, ReturnStats
<1>6. CASE UNCHANGED vars
  BY <1>6 DEF vars, TypeOK, PendingErrors
<1>7. QED BY <1>1, <1>2, <1>3, <1>4, <1>5, <1>6 DEF Next

(* Whatever the interleaving of concurrent execute_tracked calls, the     *)
(* shared error_count never exceeds execution_count.                       *)
THEOREM CountsOrdered == Spec => []ErrorsWithinExecutions
<1>1. CountsCover => ErrorsWithinExecutions
  BY PendingFinite DEF CountsCover, ErrorsWithinExecutions, TypeOK
<1>2. QED BY <1>1, CoverInit, CoverStep, PTL DEF Spec

(* CountsCover holds in every reachable state.                             *)
THEOREM CoverInvariant == Spec => []CountsCover
BY CoverInit, CoverStep, PTL DEF Spec
=============================================================================
