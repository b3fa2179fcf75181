SPECIFICATION Spec
CONSTANTS
  Pushers = {p1, p2}
  Poppers = {c1, c2}
  defaultfixsize = 4
  MaxPush = 6
INVARIANTS
  DeliveredOnce
\* Calls stop at MaxPush.
CHECK_DEADLOCK FALSE
