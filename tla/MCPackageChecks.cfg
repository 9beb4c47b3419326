SPECIFICATION Spec
CONSTANTS
  Users <- TwoUsers
  a1 = a1
  a2 = a2
  Authors = {a1, a2}
  MaxRequests = 3
SYMMETRY Interchangeable
INVARIANT TrustedPackages
CHECK_DEADLOCK FALSE
