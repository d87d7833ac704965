------------------------ MODULE ServiceShutdownProofs ------------------------
(***************************************************************************)
(* Proof that wait_for_shutdown, on a context with a shutdown signal,      *)
(* returns only after reading true, for any number of sends of any value. *)
(* The invariant is inductive together with the type invariant: the loop *)
(* leaves only through its Check step, which records the value it read.  *)
(* The same holds in MC_Service, where a ManagedService runs beside the   *)
(* context: its steps leave the context's state alone.                    *)
(***************************************************************************)
EXTENDS MC_Service, TLAPS

ShutdownInv == TypeOK /\ ReturnsOnShutdown

LEMMA ShutdownInit == Init => ShutdownInv
<1> SUFFICES ASSUME Init PROVE ShutdownInv
  OBVIOUS
<1>1. version \in 0..MaxSends /\ seen \in 0..MaxSends
  BY ShutdownAssumption DEF Init
<1>2. hasRx \in BOOLEAN
  BY ShutdownAssumption, Zenon DEF Init
<1>3. QED BY <1>1, <1>2, Zenon DEF Init, ShutdownInv, TypeOK, ReturnsOnShutdown

LEMMA ShutdownStep == ShutdownInv /\ [Next]_vars => ShutdownInv'
<1> SUFFICES ASSUME ShutdownInv, [Next]_vars PROVE ShutdownInv'
  OBVIOUS
<1> USE DEF ShutdownInv, TypeOK, ReturnsOnShutdown
<1>1. ASSUME NEW v \in BOOLEAN, Send(v) PROVE ShutdownInv'
  <2>1. version' \in 0..MaxSends
    BY <1>1, ShutdownAssumption DEF Send
  <2>2. QED BY <1>1, <2>1, Zenon DEF Send
<1>2. CASE DropSender
  BY <1>2 DEF DropSender
<1>3. CASE Attach
  BY <1>3 DEF Attach
<1>4. CASE WaitBegin
  BY <1>4 DEF WaitBegin
<1>5. CASE Check
  BY <1>5 DEF Check
<1>6. CASE Changed
  BY <1>6 DEF Changed
<1>7. CASE ChangedErr
  BY <1>7 DEF ChangedErr
<1>8. CASE UNCHANGED vars
  BY <1>8 DEF vars
<1>9. QED BY <1>1, <1>2, <1>3, <1>4, <1>5, <1>6, <1>7, <1>8 DEF Next, Host, Waiter

(* wait_for_shutdown with a receiver never returns without having read    *)
(* shutdown = true, whatever values the host sends and whenever it drops  *)
(* its sender.                                                             *)
THEOREM ShutdownOnlyOnTrue == Spec => []ReturnsOnShutdown
<1>1. ShutdownInv => ReturnsOnShutdown
  BY DEF ShutdownInv
<1>2. QED BY <1>1, ShutdownInit, ShutdownStep, PTL DEF Spec
-----------------------------------------------------------------------------
(* A step of the composition is a step of the context or a stutter of it. *)
LEMMA ContextSteps == [ServiceNext]_serviceVars => [Next]_vars
BY DEF ServiceNext, serviceVars, vars

(* With a ManagedService shared by other callers beside it, the context's *)
(* wait still returns only after reading shutdown = true.                  *)
THEOREM ComposedShutdownOnlyOnTrue == ServiceSpec => []ReturnsOnShutdown
<1>1. ShutdownInv /\ [ServiceNext]_serviceVars => ShutdownInv'
  BY ContextSteps, ShutdownStep
<1>2. ServiceInit => ShutdownInv
  BY ShutdownInit DEF ServiceInit
<1>3. QED BY <1>1, <1>2, PTL DEF ServiceSpec, ShutdownInv
=============================================================================
