SPECIFICATION FairSpec
CONSTANTS
  Tasks = {t1, t2, t3}
  Answerers = {a1}
  Configs <- OneOrOff
  NoTask = NoTask
  Askers = {t1}
  MaxAsks = 1
INVARIANTS TypeOK SlotsAreBounded ListIsBounded WorkersHoldSlots QuestionsMatchWaits
PROPERTIES SlotIsFreed
CHECK_DEADLOCK FALSE
