SPECIFICATION SkillSpec
CONSTANTS
  MaxChanges = 1
INVARIANT
  YankedNotResolved
CHECK_DEADLOCK FALSE
