CONSTANTS
  d1 = d1  d2 = d2  w1 = w1  w2 = w2  s1 = s1  s2 = s2  s3 = s3  s4 = s4  zero = zero  torn = torn  none = none
  None <- none
  Zero <- zero
  Torn <- torn
  MaxData = 1
  Dirs <- TwoDirs
  Passwords <- TwoPasswords
  Salts <- FourSalts
SYMMETRY Symmetry
SPECIFICATION Spec
INVARIANTS TypeOK NeverStranded PromiseKept
PROPERTIES StoreSpec FinishedCopiesOpen
CHECK_DEADLOCK FALSE
