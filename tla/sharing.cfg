SPECIFICATION Spec
CONSTANTS
  Users = {ann, bob}
  Nobody = Nobody
  Ttls = {0, 1}
  CacheAge = 2
  MaxTokens = 4
  Budgets <- MCBudgets
SYMMETRY MCSymmetry
INVARIANTS
  KilledTokensStayDead
  AssetsGoDark
  RestingDialogIsAccurate
CHECK_DEADLOCK FALSE
