\* Four frames in every order within the buffer's depth, with equal times, and rules that are replaced.
SPECIFICATION Spec
CONSTANTS
  a = a  b = b
  Picture = {a, b}
  NoPicture = NoPicture
  RuleLists <- Lists
  MaxRules = 2
  MaxPts = 2
  MaxFrame = 4
INVARIANTS
  DisplayOrder
  EveryFrameOnce
  
  
  IntervalKeptInDrain
SYMMETRY PictureSymmetry
CHECK_DEADLOCK FALSE
