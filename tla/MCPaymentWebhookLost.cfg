SPECIFICATION WebhookFairSpec
CONSTANTS
  general = general
  o1 = o1
  o2 = o2
  TicketTypes = {general}
  Orders = {o1}
  MaxQty = 1
  Quota <- MCQuota
  Providers <- MCProviders
  Mock = "mock"
  Refs = {"r1"}
  NoOrder = NoOrder
  ReservationTTL = 1
  HandlerLag = 0
  Horizon = 2
  Events = {"e1"}
  Handlers = {"h1"}
  NoPayment = NoPayment
  NoContent = NoContent
  UnknownOrder = UnknownOrder
  MaxFailures = 1
PROPERTY
  FailedAttemptsAreRetried
CHECK_DEADLOCK FALSE
