CONSTANTS
  i1 = i1  i2 = i2  d1 = d1  d2 = d2  w1 = w1  w2 = w2  k1 = k1  k2 = k2  zero = zero  torn = torn  none = none
  None <- none
  Zero <- zero
  Torn <- torn
  MaxData = 1
  Procs <- OneProc
  Dirs <- OneDir
  Passwords <- TwoPasswords
  DataKeys <- TwoKeys
SPECIFICATION Spec
INVARIANTS BackupKeepsSource
CHECK_DEADLOCK FALSE
