SPECIFICATION Spec
CONSTANTS
  j1 = j1 j2 = j2 o1 = o1 v1 = v1 x = x y = y
  NoReservation = NoReservation
  Jobs <- MCJobs
  Owners = {o1}
  Reservations = {v1}
  Resources = {x, y}
  Wanted = {y}
  OwnerOf <- MCOwnerOf
  Kind <- MCKind
  Uses <- MCUses
  DependsOn <- MCDependsOn
  ReservationOf <- MCReservationOf
  HolderOf <- MCHolderOf
  MachineOf <- MCMachineOf
  Slots = 4
  MaxAttempts = 2
  MaxCrash = 1
INVARIANTS
  MutatorsExclude
  VerdictsTrue
  ReleasedIsSettled
CHECK_DEADLOCK FALSE
