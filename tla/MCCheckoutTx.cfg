SPECIFICATION TxFairSpec
CONSTANTS
  vip = vip
  general = general
  o1 = o1
  o2 = o2
  w1 = w1
  w2 = w2
  TicketTypes = {vip, general}
  Orders = {o1, o2}
  MaxQty = 1
  Quota <- MCQuota
  IdOf <- MCIdOf
  Workers = {w1, w2}
INVARIANTS
  ReadingsHold
  DeadlocksNeedTheJobOrTickets
PROPERTIES
  TxImplementsTicketStock
  TxImplementsOrderSteps
  TransactionsEnd
CHECK_DEADLOCK FALSE
