SPECIFICATION Spec
CONSTANTS
  NULL = NULL
  Threads = {t1, t2}
  MaxEvents = 3
  MaxSize = 2
SYMMETRY ThreadSymmetry
INVARIANTS
  ListHoldsWholeMessages
  WhatIsSentIsOneObject
  StuckOnlyIfOvertaken
CHECK_DEADLOCK FALSE
