\* Producers, cancels, worker and destructor in every interleaving, three requests.
SPECIFICATION FairSpec
CONSTANTS
  Tickets = {t1, t2, t3}
  NoTicket = NoTicket
INVARIANTS
  TypeOK
  PendingIsHeld
  CancelledNeverRuns
  NoSleepOnWork
PROPERTIES
  ImplementsQueue
  EveryTicketSettles
\* The queue is gone, or the destructor hangs in its join.
CHECK_DEADLOCK FALSE
