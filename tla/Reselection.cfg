SPECIFICATION Spec
CONSTANTS
  Gnbs = {g1, g2}
  Dbm <- MCDbm
  Shaky = {g1}
  MaxOutages = 1
  OutagesWhileServed = FALSE
INVARIANTS CellsAgree ServingIsCurrent ConnectedIsServed
