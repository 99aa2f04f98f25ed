SPECIFICATION Spec
CONSTANTS
  NumLaunches = 3
  Rounds = 2
  Targets = {t1}
  NoTarget = NoTarget
INVARIANT PendingHandoffKept
