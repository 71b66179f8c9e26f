\* A result overtakes the answer of lm_chat_start.
SPECIFICATION FairSpec
CONSTANTS
  Calls = {c1}
  NoTicket = NoTicket
  NoAnswer = NoAnswer
  Failed = Failed
  Undefined = Undefined
  NoId = NoId
  MaxResets = 0
PROPERTY EarlyChatSettles
CHECK_DEADLOCK FALSE
