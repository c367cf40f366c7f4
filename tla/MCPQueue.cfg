SPECIFICATION FairSpec
CONSTANTS
  p1 = p1
  p2 = p2
  p3 = p3
  f1 = f1
  f2 = f2
  w1 = w1
  w2 = w2
  Push <- MCPush
  Fn <- MCFn
  Waiter <- MCWaiter
  Concurrencies <- MCConcurrencies
  MayThrow = TRUE
  Nobody = Nobody
INVARIANTS
  SlotsAccounted
  QueueIsUnstarted
  NoListenerLeftAtIdle
  AnsweredByItsJob
PROPERTIES
  ListenersWakeOnlyAtIdle
  ImplementsPool
  EveryPushAnswered
CHECK_DEADLOCK FALSE
