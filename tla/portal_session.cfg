SPECIFICATION Spec
CONSTANTS
  k1 = k1
  k2 = k2
  s1 = s1
  r1 = r1
  r2 = r2
  None = None
  Keys = {k1, k2}
  FullKeys = {k1}
  AdminKeys = {k1}
  Forms <- MCForms
  Pages = 2
  Requests = {r1, r2}
  MaxErrors = 1
SYMMETRY Symmetry
INVARIANTS LastAskedIsShown KeysShownAsTheyAre NoSpinnerForever
