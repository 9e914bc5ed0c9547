SPECIFICATION Spec
CONSTANTS
  Sources <- ThreeSources
  Plugins <- Both
  Paces <- AnyPace
  MaxEdits = 2
INVARIANTS StoppedOnce  ServerFollowsSources OpenAPITypesFollow
CHECK_DEADLOCK FALSE
