SPECIFICATION OrgSpec
CONSTANTS
  m1 = m1
  m2 = m2
  m3 = m3
  i1 = i1
  i2 = i2
  q1 = q1
  q2 = q2
  Users = {"ana", "beto"}
  NoUser = NoUser
  Founders = {"ana"}
  MutableRoles = {"admin", "staff"}
  MembershipIds = {m1, m2, m3}
  NoMembership = NoMembership
  InvitationIds = {i1, i2}
  Requests = {q1, q2}
  InvitationTTL = 1
  MaxRotations = 1
  Horizon = 2
SYMMETRY MCSymmetry
INVARIANTS
  InvitationsMatchMembers
PROPERTIES
  AcceptedByCurrentToken
  EndedForGood
CHECK_DEADLOCK FALSE
