SPECIFICATION Spec
CONSTANTS
  book = book
  other = other
  alice = alice
  bob = bob
  Paths <- MCPaths
  Clients <- MCClients
  MaxTransfers = 4
  MaxFaults = 2
SYMMETRY MCSymmetry
INVARIANTS
  NoTruncatedFile
  PromisesAreKept
PROPERTIES
  LateDisconnectIsHarmless
