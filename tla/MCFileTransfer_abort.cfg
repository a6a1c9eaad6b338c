SPECIFICATION Spec
CONSTANTS
  book = book
  other = other
  alice = alice
  bob = bob
  Paths <- MCPaths
  Clients <- MCClients
  MaxTransfers = 2
  MaxFaults = 0
PROPERTIES
  OnlyIncompleteUploadsAreDeleted
