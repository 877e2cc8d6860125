SPECIFICATION ConversionSpec
SYMMETRY MCSymmetry
CONSTANTS
  Owners = {alice, bob}
  Keys = {k}
  Prospects = {p1, p2}
  Leads = {old}
  Customers = {client}
  Pool = Pool
  None = None
  MaxActs = 4
  MaxFaults = 2
INVARIANTS
  ConversionTypeOK
  ConversionTraced
  ClaimHolds
PROPERTIES
  RefusedNotConverted
CHECK_DEADLOCK FALSE
