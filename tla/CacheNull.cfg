SPECIFICATION Spec
CONSTANTS
  Names <- NameSet
  MaxDepth = 3
  ConditionalTypename = FALSE
  TypePolicies <- Policies
  MaxCalls = 10
  Answers <- NullableAnswers
  Facts <- FactSet
  Values <- NullableValues
  MaxEvicted = 1
CHECK_DEADLOCK FALSE
INVARIANTS
  RoundTrip
