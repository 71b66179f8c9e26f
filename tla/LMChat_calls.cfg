\* Two chats; results may overtake answers; one unload or reload at any moment.
SPECIFICATION FairSpec
CONSTANTS
  Calls = {c1, c2}
  NoTicket = NoTicket
  NoAnswer = NoAnswer
  Failed = Failed
  Undefined = Undefined
  NoId = NoId
  MaxResets = 1
INVARIANTS
  RegistrySound
PROPERTIES
  SettledOnce
  EveryChatSettles
\* Every call has ended.
CHECK_DEADLOCK FALSE
