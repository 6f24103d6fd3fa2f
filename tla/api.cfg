SPECIFICATION Spec
CONSTANTS
  Stream = {s1}
  Client = {c1, c2}
  Rule = {interval, scene}
  SceneRule = {scene}
  DefaultRule = interval
  MaxRules = 2
  MaxConfig = 3
SYMMETRY Interchangeable
INVARIANTS
  RegisteredStreamRemovable
  StreamExistsAfterAdd
  SettledRowMatches
  PanicNeedsOverlap
  CreatedRuleIndexed
PROPERTIES
  RulesChangeOneByOne
