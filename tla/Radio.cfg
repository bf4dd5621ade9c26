SPECIFICATION Spec
CONSTANTS
  Gnbs = {g1}
  Dbm <- MCDbm
  Shaky = {g1}
  MaxOutages = 2
  OutagesWhileServed = FALSE
INVARIANTS TypeOK ConnectedIsServed SetupCarriesNas
PROPERTIES Reconnects
