SPECIFICATION Spec
CONSTANTS
  Sources <- ThreeSources
  Plugins <- Both
  Paces <- AnyPace
  MaxEdits = 2
INVARIANTS RestartsServer
CHECK_DEADLOCK FALSE
