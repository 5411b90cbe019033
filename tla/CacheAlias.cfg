SPECIFICATION Spec
CONSTANTS
  Names <- NameSet
  MaxDepth = 3
  ConditionalTypename = FALSE
  TypePolicies <- Policies
  MaxCalls = 10
  Answers <- AliasAnswers
  Facts <- FactSet
  Values <- ValueSet
  MaxEvicted = 1
CHECK_DEADLOCK FALSE
INVARIANTS
  Coherent
