CONSTANTS
  i1 = i1  i2 = i2  d1 = d1  d2 = d2  w1 = w1  w2 = w2  k1 = k1  k2 = k2  zero = zero  torn = torn  none = none
  None <- none
  Zero <- zero
  Torn <- torn
  MaxData = 1
  Procs <- TwoProcs
  Dirs <- TwoDirs
  Passwords <- TwoPasswords
  DataKeys <- TwoKeys
SYMMETRY Symmetry
SPECIFICATION TurnsSpec
INVARIANTS TypeOK Restartable
PROPERTIES StoreSpec FinishedBackupOpens ChangeKeepsOtherSlot
CHECK_DEADLOCK FALSE
