SPECIFICATION Spec
CONSTANTS
  Gnbs = {g1}
  Dbm <- MCDbm
  Shaky = {g1}
  MaxOutages = 1
  OutagesWhileServed = TRUE
PROPERTIES Reconnects
