SPECIFICATION FairSpec
CONSTANTS
  Sites = {s1}
  Accounts = {a1, a2}
  Files = {f1}
  Internal = internal
  None = none
  Candidates = {c1}
  Tokens = {k1, k2, k3}
  MaxGen = 3
  MaxSerial = 2
PROPERTIES NeverRegresses 
