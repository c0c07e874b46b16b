SPECIFICATION FairBotSpec
CONSTANTS
  Updates <- MCUpdates
  Consumers = {c1, c2}
  BatchSize = 2
  MaxLen = 2
  MaxFaults = 2
  Chats = {"chat"}
  Backlogs <- MCBacklogs
  Starts <- MCStarts
INVARIANTS
  BotTypeOK
  NoUpdateVanishes
  QueuedOnce
  EachEntryOnce
  EveryQuestionAnswered
  EndsOnce
PROPERTY
  HandledInTheEnd
CHECK_DEADLOCK FALSE
