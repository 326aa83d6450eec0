SPECIFICATION FairSpec
CONSTANTS
  b1 = b1  b2 = b2  c1 = c1  c2 = c2  t1 = t1  t2 = t2  t3 = t3
  None = None
  Tab <- TwoTabs
  Call <- Calls
  Token <- Tokens
CONSTRAINT Bounded
INVARIANTS NoFalseAlarm StoreIsLive
PROPERTIES RotatesOnce CallsEnd
CHECK_DEADLOCK FALSE
