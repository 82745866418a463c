SPECIFICATION Spec
CONSTANTS
  Units <- MCUnits
  MaxUnits = 2
  MaxDepth = 5
  Standard = {"+", "-", "f"}
INVARIANTS Hygienic MacroScopes QuasiquoteAgrees
CHECK_DEADLOCK FALSE
