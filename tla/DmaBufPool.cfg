SPECIFICATION Spec
CONSTANTS
  a1 = a1
  a2 = a2
  a3 = a3
  l1 = l1
  l2 = l2
  l3 = l3
  NoAddress = NoAddress
  Addresses <- MCAddresses
  Leases <- MCLeases
  MaxBuffers = 2
  MaxGeneration = 4
SYMMETRY Symmetry
INVARIANTS TypeOK LeaseExclusive PoolConserved AcquiredMarks
