--------------------------- MODULE MC_Admission ----------------------------
(***************************************************************************)
(* A small instance of Admission.  Addresses a1 and a2 share the /24      *)
(* prefix A, b1 is in another /24 prefix B, and all three share the /16   *)
(* prefix X; v6 is an IPv6 address.  With both subnet limits at 2, a /16  *)
(* can fill up while a /24 still has room, so every tracker can reject a  *)
(* connection that the trackers before it accepted.                       *)
(***************************************************************************)
EXTENDS Admission, TLC

CONSTANTS a1, a2, b1, v6, c1, c2, c3

MCIP == {a1, a2, b1, v6}
MCConn == {c1, c2, c3}
MCPrefix24 == (a1 :> "A") @@ (a2 :> "A") @@ (b1 :> "B") @@ (v6 :> NoSubnet)
MCPrefix16 == (a1 :> "X") @@ (a2 :> "X") @@ (b1 :> "X") @@ (v6 :> NoSubnet)

(* Connection handles are interchangeable.                                *)
ConnSymmetry == Permutations(MCConn)
=============================================================================
