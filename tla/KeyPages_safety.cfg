CONSTANTS
  main = main  watcher = watcher  p1 = p1  p2 = p2  p3 = p3  none = none
  None <- none
  MaxLocked = 2
  Threads <- TwoThreads
  Makers <- OneMaker
  Pages <- ThreePages
SYMMETRY Symmetry
SPECIFICATION Spec
INVARIANTS TypeOK NothingIsLeft LocksLast
