\* The destructor against the worker that is about to sleep.
SPECIFICATION FairSpec
CONSTANTS
  Tickets = {t1}
  NoTicket = NoTicket
PROPERTY DestructionEnds
CHECK_DEADLOCK FALSE
