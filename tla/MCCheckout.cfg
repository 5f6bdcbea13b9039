SPECIFICATION FairSpec
CONSTANTS
  vip = vip
  general = general
  o1 = o1
  o2 = o2
  TicketTypes = {vip, general}
  Orders = {o1, o2}
  MaxQty = 2
  Quota <- MCQuota
  Providers <- MCProviders
  Mock = "mock"
  Refs = {"r1", "r2"}
  NoOrder = NoOrder
  ReservationTTL = 1
  HandlerLag = 1
  Horizon = 3
INVARIANTS
  TypeOK
  StockConserved
  HoldMatchesStatus
  NoOversell
  TicketsExact
  PaymentsAccounted
  LateCaseExact
  AuditMatchesStatus
PROPERTIES
  PaidWhileHeld
  ImplementsTicketStock
  ImplementsOrderSteps
  ReservationSettles
CHECK_DEADLOCK FALSE
