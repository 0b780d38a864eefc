SPECIFICATION FairSpec
CONSTANTS
  Targets = {"name", "address"}
  Names = {"name"}
  Wires = {"plain", "tls"}
  Secured = {"tls"}
  Checks = {"check"}
  NoCheck = "unchecked"
  Limits = {1}
  Lookups = {1}
  Offered <- Switches
  Materials = {1}
  Addresses = {1, 2}
  Objects = {1, 2, 3, 4, 5, 6}
  MaxGen = 2
PROPERTIES
  NamesFollowed
