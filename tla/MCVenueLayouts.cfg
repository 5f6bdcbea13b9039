SPECIFICATION VenueSpec
CONSTANTS
  a = a
  b = b
  ea = ea
  ta = ta
  z = z
  s = s
  v = v
  t = t
  n1 = n1
  n2 = n2
  q1 = q1
  q2 = q2
  Organizers = {a, b}
  Users = {"u"}
  MemberRoles = {"admin", "staff"}
  Events = {ea}
  TicketTypes = {ta}
  OrganizerOf <- MCOrganizerOf
  EventOf <- MCEventOf
  VenueIds = {v}
  TemplateIds = {t}
  VersionIds = {n1, n2}
  Slugs = {"slug"}
  EntityIds = {z, s}
  Layouts <- MCLayouts
  NoRow = NoRow
  Requests = {q1, q2}
  MaxNumber = 3
SYMMETRY MCSymmetry
INVARIANTS
  VersionsNumbered
  LayoutsFit
  RowsStayWithTheirOrganizer
  WhatIsShownHangsTogether
CHECK_DEADLOCK FALSE
