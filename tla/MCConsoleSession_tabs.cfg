SPECIFICATION Spec
CONSTANTS
  Tabs = {t1, t2}
  Lifetimes = {1}
  Margin = 1
  MaxLogins = 2
  MaxReplays = 1
  MaxTime = 1
INVARIANTS NoExpiredToken OneIdentity SignedOutStaysOut
PROPERTIES LoginOpensConsole
