CONSTANTS
  f1 = f1  f2 = f2  f3 = f3  x1 = x1  root = root  none = none
  Root <- root
  None <- none
  FolderIds <- ThreeFolders
  FileIds <- OneFile
  MaxPath = 2
  MaxQueue = 2
SYMMETRY Symmetry
SPECIFICATION Spec
INVARIANTS TypeOK NothingHidden WalkIsAbove GridSettles
CHECK_DEADLOCK FALSE
