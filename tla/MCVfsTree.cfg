SPECIFICATION Spec
CONSTANTS
  Names <- MCNames
  Targets <- MCTargets
  NameMax = 5
  MaxNodes = 5
  ScriptDepth = 1
  MaxEditors = 1
  MaxRestarts = 1
CHECK_DEADLOCK FALSE
INVARIANT WholeTree
PROPERTY ImplementsNamespace
