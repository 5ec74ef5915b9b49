SPECIFICATION WalkSpec
CONSTANTS
  a1 = a1
  a2 = a2
  a3 = a3
  s1 = s1
  s2 = s2
  Addresses <- MCAddresses
  Strings <- MCStrings
  NULL = NULL
SYMMETRY AddressAndStringSymmetry
INVARIANTS
  WalkTypeOK
  CountsAreExact
  CurrentUnlessMissed
  DanglingOnlyIfCollected
  SurvivorsKeepTheirFile
