SPECIFICATION FairSpec
CONSTANTS
  c1 = c1  c2 = c2  c3 = c3  c4 = c4  k1 = k1  k2 = k2
  Caller = {c1, c2, c3, c4}
  Key = {k1, k2}
  KeyOf <- MCKeyOf
  None = None
  MaxRetries = 5
  Mortal = {c1, c4}
INVARIANT TypeOK
PROPERTIES Returns IsDispenser
CHECK_DEADLOCK FALSE
