SPECIFICATION Spec
CONSTANTS
  Names <- NameSet
  MaxDepth = 5
  ConditionalTypename = TRUE
  Sketches <- MCSketches
  Additions <- ConditionalAdditions
  Types <- TypeSet
  MaxSelections = 7
CHECK_DEADLOCK FALSE
INVARIANT ObjectsIdentifiable
