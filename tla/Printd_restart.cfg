SPECIFICATION Spec
CONSTANTS
  Clients = {c1, c2}
  NoOne = NoOne
  MaxJob = 3
  MaxDown = 1
  MaxFaults = 0
  MaxConf = 0
PROPERTIES FreshJobNo
