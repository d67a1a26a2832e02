SPECIFICATION Spec
CONSTANTS
  Users = {u1}
  Bodies = {b1, b2}
  NoRow = NoRow
  Clients = {c1, c2, c3}
  NoClient = NoClient
  FirstRaces = FALSE
  Faults = TRUE
  MaxVersion = 3
INVARIANTS
  TypeOK
  ColumnsAgree
  VersionsAreNew
PROPERTIES
  Implements
