SPECIFICATION Spec
CONSTANTS
  a1 = a1
  a2 = a2
  s1 = s1
  s2 = s2
  Addresses <- MCAddresses
  Strings <- MCStrings
  NULL = NULL
SYMMETRY AddressAndStringSymmetry
INVARIANT DumpedFileIsCorrect
