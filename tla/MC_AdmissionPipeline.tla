------------------------ MODULE MC_AdmissionPipeline ------------------------
(***************************************************************************)
(* A small instance of the admission pipeline.  a1 and b1 lie in the /24  *)
(* prefixes A and B of the one /16 prefix X, v6 is an IPv6 address.  With *)
(* a /24 limit of 2, a /16 limit of 1 and a total cap of 1, every tracker  *)
(* can reject an attempt the stages before it passed, and two attempts of  *)
(* a1 can hold the /24 slots of A at once.                                 *)
(***************************************************************************)
EXTENDS AdmissionPipeline, TLC

CONSTANTS a1, b1, v6, c1, c2

MCIP == {a1, b1, v6}
MCConn == {c1, c2}
MCPrefix24 == (a1 :> "A") @@ (b1 :> "B") @@ (v6 :> NoSubnet)
MCPrefix16 == (a1 :> "X") @@ (b1 :> "X") @@ (v6 :> NoSubnet)

(* Connection handles are interchangeable.                                *)
ConnSymmetry == Permutations(MCConn)
=============================================================================
