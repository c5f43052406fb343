SPECIFICATION Spec
CONSTANTS
  None = None
  Processes = {p1, p2}
  Ttl = 2
  Window = 3
  Prefix <- MCPrefix
  Key <- MCKey
  MaxWrites = 2
  MaxHits = 3
  MaxFaults = 2
PROPERTIES PatternInvalidates
