\* A reducer that dismisses the dialog of a row, inside its own update.
SPECIFICATION Spec
CONSTANTS
  k1 = k1
  k2 = k2
  Key <- Keys
  Nobody = Nobody
  OutsideEdits = FALSE
  MaxOwed = 1
  MaxHolders = 1
INVARIANTS TornInTheUpdate
