--------------------------- MODULE MCRetainedJobs ---------------------------
(* Small instances of RetainedJobs for TLC. *)
EXTENDS RetainedJobs, TLC

CONSTANTS j1, j2, o1, v1, x, y

(* A session merges, and then activates a profile under its reservation. *)
MCJobs == {j1, j2}
MCOwnerOf == j1 :> o1 @@ j2 :> o1
MCKind == j1 :> "merge" @@ j2 :> "profile"
MCUses == j1 :> {x} @@ j2 :> {y}
MCDependsOn == j1 :> {} @@ j2 :> {j1}
MCReservationOf == j1 :> NoReservation @@ j2 :> v1
MCHolderOf == v1 :> o1
MCMachineOf == v1 :> y

=============================================================================
