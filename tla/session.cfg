SPECIFICATION FairSpec
CONSTANTS
  Themes = {warm, dark}
  Default = warm
  NoSession = NoSession
  NoTheme = NoTheme
  NoRow = NoRow
  Keep = Keep
  MaxAttempts = 1
  Window = 2
  Life = 2
  Margin = 1
  MaxTime = 2
  MaxSends = 3
  MaxTrouble = 1
INVARIANTS
  SessionSurvives
  QuietSignOutIsFinal
  LimitHolds
  RestingThemeIsStored

PROPERTY NavigationSettles
CHECK_DEADLOCK FALSE
