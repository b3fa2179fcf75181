SPECIFICATION TeamSpec
CONSTANTS
  Pushers = {p1, p2}
  Poppers = {c1, c2}
  defaultfixsize = 4
  MaxPush = 9
INVARIANTS
  TypeOK
  DeliveredInOrder
  Accounts
  TicketsBounded
PROPERTIES
  OverwriteOnlyRead
  PushReturns
  PopReturns
\* Calls stop at MaxPush.
CHECK_DEADLOCK FALSE
