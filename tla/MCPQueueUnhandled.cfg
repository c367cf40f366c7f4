SPECIFICATION Spec
CONSTANTS
  p1 = p1
  p2 = p2
  p3 = p3
  f1 = f1
  f2 = f2
  w1 = w1
  w2 = w2
  Push <- MCPush
  Fn <- MCFn
  Waiter <- MCWaiter
  Concurrencies <- MCConcurrencies
  MayThrow = FALSE
  Nobody = Nobody
INVARIANTS
  HandledOutsideIsHandled
CHECK_DEADLOCK FALSE
