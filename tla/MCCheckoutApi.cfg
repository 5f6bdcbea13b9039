SPECIFICATION ApiFairSpec
CONSTANTS
  general = general
  o1 = o1
  o2 = o2
  q1 = q1
  q2 = q2
  TicketTypes = {general}
  Orders = {o1, o2}
  MaxQty = 1
  Quota <- MCQuota
  Providers = {"mock"}
  Mock = "mock"
  Refs = {"r1", "r2"}
  NoOrder = NoOrder
  ReservationTTL = 0
  HandlerLag = 0
  Horizon = 1
  ReserveIds = {"a", "b"}
  ConfirmIds = {"k"}
  Requests = {q1, q2}
  NoKey = NoKey
  MaxCrashes = 1
INVARIANTS
  OneOrderPerRequest
  ConfirmedMeansPaid
PROPERTY
  CommitsAreAcknowledged
CHECK_DEADLOCK FALSE
