-------------------------- MODULE MCResourceClaims --------------------------
(* Small instances of ResourceClaims for TLC. *)
EXTENDS ResourceClaims, TLC

CONSTANTS a, b, x, y, o1, o2, j, v

MCOwners == {o1, o2}

(* Two sessions compete for the machine y, and one of them asks for the    *)
(* Git directory x as well.                                                *)
MCRequests == {a, b}
MCOwnerOf == a :> o1 @@ b :> o2
MCNeeds == a :> {y} @@ b :> {x, y}

(* A retained deployment to the machine. *)
MCUses == j :> {y}
MCMachineOf == v :> y
MCReservationOf == j :> v

=============================================================================
