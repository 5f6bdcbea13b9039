SPECIFICATION FulfilSpec
CONSTANTS
  t1 = t1
  t2 = t2
  q1 = q1
  q2 = q2
  q3 = q3
  Tickets = {t1, t2}
  Cases = {"c"}
  Requests = {q1, q2, q3}
  NoRequest = NoRequest
SYMMETRY MCSymmetry
INVARIANTS
  EntriesJustified
  HistoryIsComplete
CHECK_DEADLOCK FALSE
