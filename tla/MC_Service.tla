------------------------------ MODULE MC_Service ------------------------------
(***************************************************************************)
(* The two halves of service.rs side by side: a ServiceContext waiting for *)
(* shutdown on its host's channel, and a ManagedService shared by two      *)
(* callers.  They share no state (ManagedService hands its receiver to no  *)
(* context), so the composed steps are the steps of one or the other.      *)
(***************************************************************************)
EXTENDS ServiceShutdown

CONSTANT Caller

VARIABLES startedAt, shutdown, spc

MS == INSTANCE ManagedService

serviceVars == <<vars, startedAt, shutdown, spc>>

ServiceInit == Init /\ MS!MsInit

ServiceNext ==
    \/ Next /\ UNCHANGED <<startedAt, shutdown, spc>>
    \/ MS!MsNext /\ UNCHANGED vars

ServiceSpec ==
    /\ ServiceInit
    /\ [][ServiceNext]_serviceVars
    /\ WF_serviceVars(Waiter /\ UNCHANGED <<startedAt, shutdown, spc>>)
=============================================================================
