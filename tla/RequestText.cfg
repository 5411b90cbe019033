SPECIFICATION Spec
CONSTANTS
  Names <- NameSet
  MaxDepth = 5
  ConditionalTypename = FALSE
  Sketches <- MCSketches
  Additions <- SomeAdditions
  Types <- TypeSet
  MaxSelections = 7
CHECK_DEADLOCK FALSE
INVARIANTS
  TextReadsBack
  RequestAsksTheSame
  TransformOnce
  ObjectsIdentifiable
