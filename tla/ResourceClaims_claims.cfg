SPECIFICATION FairSpec
CONSTANTS
  a = a b = b x = x y = y o1 = o1 o2 = o2 j = j v = v
  Owners <- MCOwners
  Requests <- MCRequests
  Resources = {x, y}
  OwnerOf <- MCOwnerOf
  Needs <- MCNeeds
  NoOwner = NoOwner
  Jobs = {j}
  Uses <- MCUses
  Reservations = {v}
  MachineOf <- MCMachineOf
  ReservationOf <- MCReservationOf
  NoReservation = NoReservation
  MaxCrash = 1
INVARIANTS
  HeldExclusive
  SweepUndisturbed
  FencedHoldsNothing
  CutNeverGranted
PROPERTIES
  NoOvertaking
  NeverStuckGrantable
CHECK_DEADLOCK FALSE
