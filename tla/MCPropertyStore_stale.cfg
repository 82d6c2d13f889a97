SPECIFICATION StoreSpec
CONSTANTS
  st1 = st1
  st2 = st2
  v1 = v1
  v2 = v2
  Stores <- MCStores
  Blobs = {cal}
  Uints = {stamp}
  Flags = {pairing}
  Others = {}
  Values <- MCValues
  Absent = Absent
SYMMETRY Symmetry
INVARIANTS
  StoreTypeOK
  StaleOnlyBehindOwnValue
