SPECIFICATION BuildSpec
CONSTANTS
  Programs <- MCPrograms
  Jobs <- MCJobs
  Expand <- ExpandForms
  Lower <- LowerForms
  Layout <- collect_symbol_spaces
  Check <- CheckHir
  Escapes <- analyze_effects
  Profile <- MCProfile
  ProfileEffects = {}
  MaxDepth = 5
  Standard = {"f", "g", "m", "q"}
INVARIANTS ResolutionAgrees TailPositions ValidatorAccepts ErrorsDecide
CHECK_DEADLOCK FALSE
