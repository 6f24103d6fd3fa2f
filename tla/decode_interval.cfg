\* One interval rule that nobody changes.
SPECIFICATION Spec
CONSTANTS
  a = a  b = b
  Picture = {a}
  NoPicture = NoPicture
  RuleLists <- OneInterval
  MaxRules = 1
  MaxPts = 3
  MaxFrame = 4
INVARIANT IntervalKept
CHECK_DEADLOCK FALSE
