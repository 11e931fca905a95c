SPECIFICATION FairSpec
CONSTANTS
  Requests = {r1, r2}
  Earlier = {e1}
  Devices = {d1}
  None = None
  Keys = {k1, k2}
  Budget = 3
  MaxCrashes = 1
INVARIANTS TypeOK OneRunPerKey OnlyPanicsLeakKeys OneTerminalRes PromptSeesAnswered
PROPERTIES DuplicateHasARun EveryRunIsAnswered ConversationSpec
CHECK_DEADLOCK FALSE
