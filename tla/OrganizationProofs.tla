------------------------- MODULE OrganizationProofs -------------------------
(***************************************************************************)
(* Theorems about Organization, for any number of users, rows and requests *)
(* in progress.                                                            *)
(***************************************************************************)
EXTENDS Organization, TLAPS

-----------------------------------------------------------------------------
(* Types. *)

LEMMA NoUserIsNone == NoUser \notin Users /\ "unused" \notin Roles /\ "deleted" \notin Roles
BY OrganizationAssumption DEF Roles

(* What a request keeps is of the kinds listed in OrgTypeOK. *)
LEMMA BeginKeepsTypes ==
  ASSUME OrgTypeOK, NEW r \in Requests, NEW what, Begin(r, what),
         \/ what \in [at : {"add"}, user : Users, role : MutableRoles]
         \/ what \in [at : {"change"}, membership : MembershipIds, role : MutableRoles]
         \/ what \in [at : {"remove"}, membership : MembershipIds]
         \/ what \in [at : {"invite"}, user : Users, role : MutableRoles, expiresAt : Times]
         \/ what \in [at : {"resend"}, invitation : InvitationIds, expiresAt : Times]
         \/ what \in [at : {"revoke"}, invitation : InvitationIds, revokedAt : Times]
         \/ what \in [at : {"accept"}, invitation : InvitationIds, user : Users, token : 0..MaxRotations,
                       arrivedAt : 0..Horizon]
  PROVE  OrgTypeOK'
BY DEF OrgTypeOK, Begin

LEMMA FinishKeepsTypes ==
  ASSUME OrgTypeOK, NEW r \in Requests, Finish(r), now' = now,
         membership' \in [MembershipIds -> [user : Users, role : Roles] \cup {Unused, Deleted}],
         invitation' \in [InvitationIds -> {NoInvitation} \cup
           [email : Users, role : MutableRoles, status : {"pending", "accepted", "revoked"},
            token : 0..MaxRotations, expiresAt : Times,
            membership : MembershipIds \cup {NoMembership}]]
  PROVE  OrgTypeOK'
BY DEF OrgTypeOK, Finish

LEMMA CreateKeepsTypes ==
  ASSUME OrgTypeOK, NEW m \in MembershipIds, NEW u \in Users, NEW role \in Roles,
         CreateMembership(m, u, role)
  PROVE  membership' \in [MembershipIds -> [user : Users, role : Roles] \cup {Unused, Deleted}]
BY DEF OrgTypeOK, CreateMembership

(* What a request in progress has read. *)
LEMMA RequestTypes ==
  ASSUME OrgTypeOK, NEW r \in Requests
  PROVE  /\ request[r].at = "add" => request[r].user \in Users /\ request[r].role \in MutableRoles
         /\ request[r].at = "change" =>
              request[r].membership \in MembershipIds /\ request[r].role \in MutableRoles
         /\ request[r].at = "remove" => request[r].membership \in MembershipIds
         /\ request[r].at = "invite" =>
              /\ request[r].user \in Users /\ request[r].role \in MutableRoles
              /\ request[r].expiresAt \in Times
         /\ request[r].at = "resend" =>
              request[r].invitation \in InvitationIds /\ request[r].expiresAt \in Times
         /\ request[r].at = "revoke" => request[r].invitation \in InvitationIds
         /\ request[r].at = "accept" =>
              /\ request[r].invitation \in InvitationIds /\ request[r].user \in Users
              /\ request[r].arrivedAt \in 0..Horizon
BY DEF OrgTypeOK, Idle

(* An invitation that exists has all its fields. *)
LEMMA InvitationTypes ==
  ASSUME OrgTypeOK, NEW i \in InvitationIds, invitation[i].status # "unused"
  PROVE  invitation[i] \in
           [email : Users, role : MutableRoles, status : {"pending", "accepted", "revoked"},
            token : 0..MaxRotations, expiresAt : Times,
            membership : MembershipIds \cup {NoMembership}]
BY DEF OrgTypeOK, NoInvitation

LEMMA ClockTypes ==
  ASSUME OrgTypeOK
  PROVE  now \in Times /\ now + InvitationTTL \in Times
BY OrganizationAssumption DEF OrgTypeOK, Times

LEMMA ArriveKeepsTypes ==
  ASSUME OrgTypeOK, NEW r \in Requests, Arrive(r)
  PROVE  OrgTypeOK'
<1>0. now \in Times /\ now + InvitationTTL \in Times
  BY ClockTypes
<1>1. ASSUME NEW actor \in Users, NEW u \in Users, NEW role \in MutableRoles, BeginAdd(r, actor, u, role)
      PROVE  OrgTypeOK'
  BY <1>1, BeginKeepsTypes DEF BeginAdd
<1>2. ASSUME NEW actor \in Users, NEW u \in Users, NEW role \in MutableRoles, BeginInvite(r, actor, u, role)
      PROVE  OrgTypeOK'
  BY <1>0, <1>2, BeginKeepsTypes DEF BeginInvite
<1>3. ASSUME NEW actor \in Users, NEW m \in MembershipIds, BeginRemove(r, actor, m)
      PROVE  OrgTypeOK'
  BY <1>3, BeginKeepsTypes DEF BeginRemove
<1>4. ASSUME NEW actor \in Users, NEW m \in MembershipIds, NEW role \in MutableRoles, BeginChangeRole(r, actor, m, role)
      PROVE  OrgTypeOK'
  BY <1>4, BeginKeepsTypes DEF BeginChangeRole
<1>5. ASSUME NEW actor \in Users, NEW i \in InvitationIds, BeginResend(r, actor, i)
      PROVE  OrgTypeOK'
  BY <1>0, <1>5, BeginKeepsTypes DEF BeginResend
<1>6. ASSUME NEW actor \in Users, NEW i \in InvitationIds, BeginRevoke(r, actor, i)
      PROVE  OrgTypeOK'
  BY <1>0, <1>6, BeginKeepsTypes DEF BeginRevoke
<1>7. ASSUME NEW actor \in Users, NEW i \in InvitationIds, BeginAccept(r, actor, i)
      PROVE  OrgTypeOK'
  <2>1. invitation[i].token \in 0..MaxRotations
    BY <1>7, InvitationTypes DEF BeginAccept
  <2>2. now \in 0..Horizon
    BY DEF OrgTypeOK
  <2>3. QED
    BY <1>7, <2>1, <2>2, BeginKeepsTypes DEF BeginAccept
<1>8. QED
  BY <1>1, <1>2, <1>3, <1>4, <1>5, <1>6, <1>7 DEF Arrive

(* A resend never meets a row that is not there: the types alone do not     *)
(* exclude it, and it would make an invitation of nothing.                  *)
ResentExists ==
  \A r \in Requests : request[r].at = "resend" =>
    invitation[request[r].invitation].status # "unused"

LEMMA StepKeepsTypes == OrgTypeOK /\ ResentExists /\ [OrgNext]_vars => OrgTypeOK'
<1> SUFFICES ASSUME OrgTypeOK, ResentExists, [OrgNext]_vars
             PROVE  OrgTypeOK'
  OBVIOUS
<1> DEFINE MembershipRows == [MembershipIds -> [user : Users, role : Roles] \cup {Unused, Deleted}]
           Invited == [email : Users, role : MutableRoles, status : {"pending", "accepted", "revoked"},
                       token : 0..MaxRotations, expiresAt : Times,
                       membership : MembershipIds \cup {NoMembership}]
<1>0. membership \in MembershipRows /\ invitation \in [InvitationIds -> {NoInvitation} \cup Invited]
  BY DEF OrgTypeOK
<1>1. CASE Tick
  BY <1>1, OrganizationAssumption DEF Tick, OrgTypeOK
<1>2. ASSUME NEW r \in Requests, Add(r)
      PROVE  OrgTypeOK'
  <2>1. request[r].user \in Users /\ request[r].role \in Roles
    BY <1>2, RequestTypes DEF Add, Roles
  <2>2. membership' \in MembershipRows
    BY <1>0, <1>2, <2>1, CreateKeepsTypes DEF Add
  <2>3. QED
    BY <1>0, <1>2, <2>2, FinishKeepsTypes DEF Add
<1>3. ASSUME NEW r \in Requests, ChangeRole(r)
      PROVE  OrgTypeOK'
  <2> DEFINE m == request[r].membership
  <2>1. m \in MembershipIds /\ request[r].role \in Roles
    BY <1>3, RequestTypes DEF ChangeRole, Roles
  <2>2. Live(m) => membership[m] \in [user : Users, role : Roles]
    BY <1>0, <2>1, NoUserIsNone DEF Live, Unused, Deleted
  <2>3. membership' \in MembershipRows
    BY <1>0, <1>3, <2>1, <2>2 DEF ChangeRole
  <2>4. QED
    BY <1>0, <1>3, <2>3, FinishKeepsTypes DEF ChangeRole
<1>4. ASSUME NEW r \in Requests, Remove(r)
      PROVE  OrgTypeOK'
  <2> DEFINE m == request[r].membership
  <2>1. m \in MembershipIds
    BY <1>4, RequestTypes DEF Remove
  <2>2. CASE Live(m)
    <3>1. membership' \in MembershipRows
      BY <1>0, <1>4, <2>1, <2>2 DEF Remove
    <3>2. \A i \in InvitationIds : invitation'[i] = invitation[i] \/
            invitation'[i] = [invitation[i] EXCEPT !.membership = NoMembership]
      BY <1>4, <2>2 DEF Remove
    <3>3. ASSUME NEW i \in InvitationIds
          PROVE  invitation'[i] \in {NoInvitation} \cup Invited
      <4>1. CASE invitation[i] = NoInvitation
        <5>1. [NoInvitation EXCEPT !.membership = NoMembership] = NoInvitation
          BY DEF NoInvitation
        <5>2. QED
          BY <3>2, <4>1, <5>1
      <4>2. CASE invitation[i] \in Invited
        <5>1. [invitation[i] EXCEPT !.membership = NoMembership] \in Invited
          BY <4>2
        <5>2. QED
          BY <3>2, <4>2, <5>1
      <4>3. QED
        BY <1>0, <4>1, <4>2
    <3>4. invitation' \in [InvitationIds -> {NoInvitation} \cup Invited]
      BY <1>4, <2>2, <3>3 DEF Remove
    <3>5. QED
      BY <1>4, <3>1, <3>4, FinishKeepsTypes DEF Remove
  <2>3. CASE ~Live(m)
    BY <1>0, <1>4, <2>3, FinishKeepsTypes DEF Remove
  <2>4. QED
    BY <2>2, <2>3
<1>5. ASSUME NEW r \in Requests, Invite(r)
      PROVE  OrgTypeOK'
  <2>1. /\ request[r].user \in Users /\ request[r].role \in MutableRoles
        /\ request[r].expiresAt \in Times
    BY <1>5, RequestTypes DEF Invite
  <2>2. NewInvitation(request[r]) \in Invited
    <3>1. 0 \in 0..MaxRotations
      BY OrganizationAssumption
    <3>2. QED
      BY <2>1, <3>1 DEF NewInvitation
  <2>3. invitation' \in [InvitationIds -> {NoInvitation} \cup Invited]
    <3>1. CASE UNCHANGED invitation
      BY <1>0, <3>1
    <3>2. CASE ~UNCHANGED invitation
      <4>1. PICK i \in InvitationIds : invitation' = [invitation EXCEPT ![i] = NewInvitation(request[r])]
        BY <1>5, <3>2 DEF Invite
      <4> HIDE DEF Invited
      <4>2. QED
        BY <1>0, <2>2, <4>1
    <3>3. QED
      BY <3>1, <3>2
  <2>4. QED
    BY <1>0, <1>5, <2>3, FinishKeepsTypes DEF Invite
<1>6. ASSUME NEW r \in Requests, Resend(r)
      PROVE  OrgTypeOK'
  <2> DEFINE i == request[r].invitation
  <2>1. i \in InvitationIds /\ request[r].expiresAt \in Times
    BY <1>6, RequestTypes DEF Resend
  <2>2. invitation[i] \in Invited
    BY <1>6, <2>1, InvitationTypes DEF Resend, ResentExists
  <2>3. invitation[i].token + 1 \in 0..MaxRotations
    BY <1>6, <2>2, OrganizationAssumption DEF Resend
  <2>4. [invitation[i] EXCEPT !.token = @ + 1, !.expiresAt = request[r].expiresAt] \in Invited
    BY <2>1, <2>2, <2>3
  <2>5. invitation' \in [InvitationIds -> {NoInvitation} \cup Invited]
    BY <1>0, <1>6, <2>1, <2>4 DEF Resend
  <2>6. QED
    BY <1>0, <1>6, <2>5, FinishKeepsTypes DEF Resend
<1>7. ASSUME NEW r \in Requests, Revoke(r)
      PROVE  OrgTypeOK'
  <2> DEFINE i == request[r].invitation
  <2>1. i \in InvitationIds
    BY <1>7, RequestTypes DEF Revoke
  <2>2. invitation[i].status = "pending" => invitation[i] \in Invited
    BY <2>1, InvitationTypes
  <2>3. invitation' \in [InvitationIds -> {NoInvitation} \cup Invited]
    BY <1>0, <1>7, <2>1, <2>2 DEF Revoke, RevokeClaims
  <2>4. QED
    BY <1>0, <1>7, <2>3, FinishKeepsTypes DEF Revoke
<1>8. ASSUME NEW r \in Requests, Accept(r)
      PROVE  OrgTypeOK'
  <2> DEFINE i == request[r].invitation
  <2>1. i \in InvitationIds /\ request[r].user \in Users
    BY <1>8, RequestTypes DEF Accept
  <2>2. invitation[i] \in Invited
    BY <1>8, <2>1, InvitationTypes DEF Accept, AcceptClaims
  <2>3. PICK m \in MembershipIds :
          /\ CreateMembership(m, request[r].user, invitation[i].role)
          /\ invitation' = [invitation EXCEPT ![i].status = "accepted", ![i].membership = m]
    BY <1>8 DEF Accept
  <2>4. membership' \in MembershipRows
    BY <2>1, <2>2, <2>3, CreateKeepsTypes DEF Roles
  <2>5. invitation' \in [InvitationIds -> {NoInvitation} \cup Invited]
    BY <1>0, <2>1, <2>2, <2>3
  <2>6. QED
    BY <1>8, <2>4, <2>5, FinishKeepsTypes DEF Accept
<1>9. ASSUME NEW r \in Requests, AcceptRefused(r)
      PROVE  OrgTypeOK'
  BY <1>0, <1>9, FinishKeepsTypes DEF AcceptRefused
<1>10. CASE UNCHANGED vars
  BY <1>10 DEF vars, OrgTypeOK
<1>11. QED
  BY <1>1, <1>2, <1>3, <1>4, <1>5, <1>6, <1>7, <1>8, <1>9, <1>10, ArriveKeepsTypes DEF OrgNext, Commit

(* A request that arrives touches no row, and keeps what it is to do. *)
LEMMA ArriveOnlyReads ==
  ASSUME NEW r \in Requests, Arrive(r)
  PROVE  UNCHANGED <<now, membership, invitation>> /\ \E what : Begin(r, what)
BY DEF Arrive, Begin, BeginAdd, BeginInvite, BeginRemove, BeginChangeRole, BeginResend,
       BeginRevoke, BeginAccept

LEMMA CommitFinishes ==
  ASSUME NEW r \in Requests, Commit(r)
  PROVE  Finish(r)
BY DEF Commit, Add, ChangeRole, Remove, Invite, Resend, Revoke, Accept, AcceptRefused

(* Invitations that exist go on existing. *)
LEMMA InvitationsStay ==
  ASSUME OrgTypeOK, [OrgNext]_vars, NEW i \in InvitationIds, invitation[i].status # "unused"
  PROVE  invitation'[i].status # "unused"
<1> USE DEF OrgTypeOK
<1>1. ASSUME NEW r \in Requests, Remove(r)
      PROVE  invitation'[i].status # "unused"
  <2>1. [invitation[i] EXCEPT !.membership = NoMembership].status = invitation[i].status
    BY InvitationTypes
  <2>2. invitation'[i] \in {invitation[i], [invitation[i] EXCEPT !.membership = NoMembership]}
    BY <1>1 DEF Remove
  <2>3. QED
    BY <2>1, <2>2
<1>2. ASSUME NEW r \in Requests, Invite(r)
      PROVE  invitation'[i].status # "unused"
  <2>1. CASE UNCHANGED invitation
    BY <2>1
  <2>2. CASE ~UNCHANGED invitation
    <3>1. PICK j \in InvitationIds :
            /\ invitation[j] = NoInvitation
            /\ invitation' = [invitation EXCEPT ![j] = NewInvitation(request[r])]
      BY <1>2, <2>2 DEF Invite
    <3>2. j # i
      BY <3>1 DEF NoInvitation
    <3>3. QED
      BY <3>1, <3>2
  <2>3. QED
    BY <2>1, <2>2
<1>3. ASSUME NEW r \in Requests, Resend(r)
      PROVE  invitation'[i].status # "unused"
  <2>1. invitation'[i].status = invitation[i].status
    BY <1>3 DEF Resend
  <2>2. QED
    BY <2>1
<1>4. ASSUME NEW r \in Requests, Revoke(r)
      PROVE  invitation'[i].status # "unused"
  BY <1>4 DEF Revoke
<1>5. ASSUME NEW r \in Requests, Accept(r)
      PROVE  invitation'[i].status # "unused"
  BY <1>5 DEF Accept
<1>6. ASSUME NEW r \in Requests, Arrive(r) \/ Add(r) \/ ChangeRole(r) \/ AcceptRefused(r)
      PROVE  invitation'[i].status # "unused"
  BY <1>6, ArriveOnlyReads DEF Add, ChangeRole, AcceptRefused
<1>7. CASE Tick \/ UNCHANGED vars
  BY <1>7 DEF Tick, vars
<1>8. QED
  BY <1>1, <1>2, <1>3, <1>4, <1>5, <1>6, <1>7 DEF OrgNext, Commit

LEMMA StepKeepsResentExists ==
  OrgTypeOK /\ ResentExists /\ [OrgNext]_vars => ResentExists'
<1> SUFFICES ASSUME OrgTypeOK, ResentExists, [OrgNext]_vars,
                    NEW r \in Requests, request'[r].at = "resend"
             PROVE  invitation'[request'[r].invitation].status # "unused"
  BY DEF ResentExists
<1>0. request \in [Requests -> UNION {{request[q]} : q \in Requests}]
  BY DEF OrgTypeOK
<1>1. CASE request'[r] = request[r]
  BY <1>1, InvitationsStay, RequestTypes DEF ResentExists
<1>2. CASE request'[r] # request[r]
  <2>1. ASSUME NEW q \in Requests, Commit(q)
        PROVE  FALSE
    <3>1. request' = [request EXCEPT ![q] = Idle]
      BY <2>1, CommitFinishes DEF Finish
    <3>2. request'[r] = Idle
      BY <1>0, <1>2, <3>1
    <3>3. QED
      BY <3>2 DEF Idle
  <2>2. PICK q \in Requests : Arrive(q)
    BY <1>2, <2>1 DEF OrgNext, Tick, vars
  <2>3. q = r
    BY <1>0, <1>2, <2>2, ArriveOnlyReads DEF Begin
  <2>4. \E actor \in Users, i \in InvitationIds : BeginResend(r, actor, i)
    <3>1. ASSUME NEW what, Begin(r, what)
          PROVE  request'[r] = what
      BY <1>0, <3>1 DEF Begin
    <3>2. ASSUME NEW actor \in Users, NEW u \in Users, NEW role \in MutableRoles,
                 BeginAdd(r, actor, u, role) \/ BeginInvite(r, actor, u, role)
          PROVE  FALSE
      BY <3>1, <3>2 DEF BeginAdd, BeginInvite
    <3>3. ASSUME NEW actor \in Users, NEW m \in MembershipIds,
                 BeginRemove(r, actor, m) \/ \E role \in MutableRoles : BeginChangeRole(r, actor, m, role)
          PROVE  FALSE
      <4>1. CASE BeginRemove(r, actor, m)
        BY <3>1, <4>1 DEF BeginRemove
      <4>2. CASE \E role \in MutableRoles : BeginChangeRole(r, actor, m, role)
        BY <3>1, <4>2 DEF BeginChangeRole
      <4>3. QED
        BY <3>3, <4>1, <4>2
    <3>4. ASSUME NEW actor \in Users, NEW i \in InvitationIds,
                 BeginRevoke(r, actor, i) \/ BeginAccept(r, actor, i)
          PROVE  FALSE
      BY <3>1, <3>4 DEF BeginRevoke, BeginAccept
    <3>5. QED
      BY <2>2, <2>3, <3>2, <3>3, <3>4 DEF Arrive
  <2>5. PICK actor \in Users, i \in InvitationIds : BeginResend(r, actor, i)
    BY <2>4
  <2>6. request'[r].invitation = i /\ invitation' = invitation
    BY <1>0, <2>5 DEF BeginResend, Begin
  <2>7. QED
    BY <2>5, <2>6 DEF BeginResend
<1>3. QED
  BY <1>1, <1>2

(* Every reachable state has the types of its rows and requests. *)
THEOREM OrgTypeCorrect == OrgSpec => []OrgTypeOK
<1>1. OrgInit => OrgTypeOK /\ ResentExists
  BY OrganizationAssumption DEF OrgInit, OrgTypeOK, ResentExists, Roles, Times, Idle
<1>2. OrgTypeOK /\ ResentExists /\ [OrgNext]_vars => OrgTypeOK' /\ ResentExists'
  BY StepKeepsTypes, StepKeepsResentExists
<1>3. QED
  BY <1>1, <1>2, PTL DEF OrgSpec

-----------------------------------------------------------------------------
(* Invitations that have ended. *)

LEMMA StepKeepsEnded ==
  ASSUME OrgTypeOK, [OrgNext]_vars, NEW i \in InvitationIds,
         invitation[i].status \in {"accepted", "revoked"}
  PROVE  /\ invitation'[i].status = invitation[i].status
         /\ invitation'[i].membership \in {invitation[i].membership, NoMembership}
<1> DEFINE Kept == /\ invitation'[i].status = invitation[i].status
                   /\ invitation'[i].membership \in {invitation[i].membership, NoMembership}
<1>0. invitation \in [InvitationIds -> UNION {{invitation[j]} : j \in InvitationIds}]
  BY DEF OrgTypeOK
<1>1. invitation[i] \in
        [email : Users, role : MutableRoles, status : {"pending", "accepted", "revoked"},
         token : 0..MaxRotations, expiresAt : Times,
         membership : MembershipIds \cup {NoMembership}]
  BY InvitationTypes
<1>2. ASSUME NEW r \in Requests, Remove(r)
      PROVE  Kept
  <2>1. invitation'[i] \in {invitation[i], [invitation[i] EXCEPT !.membership = NoMembership]}
    BY <1>2 DEF Remove
  <2>2. QED
    BY <1>1, <2>1
<1>3. ASSUME NEW r \in Requests, Invite(r)
      PROVE  Kept
  <2>1. CASE UNCHANGED invitation
    BY <2>1
  <2>2. CASE ~UNCHANGED invitation
    <3>1. PICK j \in InvitationIds :
            /\ invitation[j] = NoInvitation
            /\ invitation' = [invitation EXCEPT ![j] = NewInvitation(request[r])]
      BY <1>3, <2>2 DEF Invite
    <3>2. j # i
      BY <3>1 DEF NoInvitation
    <3>3. QED
      BY <1>0, <3>1, <3>2
  <2>3. QED
    BY <2>1, <2>2
<1>4. ASSUME NEW r \in Requests, Resend(r)
      PROVE  Kept
  <2>1. invitation'[i] \in {invitation[i],
          [invitation[i] EXCEPT !.token = @ + 1, !.expiresAt = request[r].expiresAt]}
    BY <1>0, <1>4 DEF Resend
  <2>2. QED
    BY <1>1, <2>1
<1>5. ASSUME NEW r \in Requests, Revoke(r)
      PROVE  Kept
  BY <1>0, <1>5 DEF Revoke, RevokeClaims
<1>6. ASSUME NEW r \in Requests, Accept(r)
      PROVE  Kept
  BY <1>0, <1>6 DEF Accept, AcceptClaims
<1>7. ASSUME NEW r \in Requests, Arrive(r) \/ Add(r) \/ ChangeRole(r) \/ AcceptRefused(r)
      PROVE  Kept
  BY <1>7, ArriveOnlyReads DEF Add, ChangeRole, AcceptRefused
<1>8. CASE Tick \/ UNCHANGED vars
  BY <1>8 DEF Tick, vars
<1>9. QED
  BY <1>2, <1>3, <1>4, <1>5, <1>6, <1>7, <1>8 DEF OrgNext, Commit

(* However accept, resend, revoke and remove overlap, an invitation that    *)
(* was accepted or revoked stays so.                                        *)
THEOREM EndedIsForGood == OrgSpec => EndedForGood
<1>1. OrgTypeOK /\ [OrgNext]_vars =>
        [\A i \in InvitationIds : invitation[i].status \in {"accepted", "revoked"} =>
           /\ invitation'[i].status = invitation[i].status
           /\ invitation'[i].membership \in {invitation[i].membership, NoMembership}]_vars
  BY StepKeepsEnded
<1>2. QED
  BY <1>1, OrgTypeCorrect, PTL DEF OrgSpec, EndedForGood

-----------------------------------------------------------------------------
(* Members and invitations. *)

(* The two parts of InvitationsMatchMembers, for one user and one invitation. *)
OneMembership(u) == \A m, n \in MembershipsOf(u) : m = n

PointsToItsMember(i) ==
  invitation[i].membership # NoMembership =>
    /\ invitation[i].status = "accepted"
    /\ invitation[i].membership \in MembershipsOf(invitation[i].email)
    /\ \A j \in InvitationIds : invitation[j].membership = invitation[i].membership => j = i

LEMMA MatchInParts ==
  InvitationsMatchMembers <=>
    (\A u \in Users : OneMembership(u)) /\ (\A i \in InvitationIds : PointsToItsMember(i))
BY DEF InvitationsMatchMembers, OneMembership, PointsToItsMember

(* A member who joins has no other membership, and his row was nobody's. *)
LEMMA CreateKeepsMembers ==
  ASSUME OrgTypeOK, NEW m \in MembershipIds, NEW u \in Users, NEW role \in Roles,
         CreateMembership(m, u, role)
  PROVE  /\ MembershipsOf(u)' = {m}
         /\ \A v \in Users \ {u} : MembershipsOf(v)' = MembershipsOf(v)
         /\ \A v \in Users : m \notin MembershipsOf(v)
<1>0. membership \in [MembershipIds -> [user : Users, role : Roles] \cup {Unused, Deleted}]
  BY DEF OrgTypeOK
<1>1. membership' = [membership EXCEPT ![m] = [user |-> u, role |-> role]] /\ ~Live(m)
  BY NoUserIsNone DEF CreateMembership, Live, Unused
<1>2. membership'[m] = [user |-> u, role |-> role]
  BY <1>0, <1>1
<1>3. \A n \in MembershipIds \ {m} : membership'[n] = membership[n]
  BY <1>0, <1>1
<1>4. \A n \in MembershipIds : n \notin MembershipsOf(u)
  BY DEF CreateMembership
<1>5. MembershipsOf(u)' = {m}
  BY <1>2, <1>3, <1>4 DEF MembershipsOf, Live
<1>6. \A v \in Users \ {u} : MembershipsOf(v)' = MembershipsOf(v)
  BY <1>1, <1>2, <1>3 DEF MembershipsOf, Live
<1>7. QED
  BY <1>1, <1>5, <1>6 DEF MembershipsOf

(* What a step that leaves the memberships alone may do to invitations. *)
LEMMA SameMembersMatch ==
  ASSUME InvitationsMatchMembers,
         \A u \in Users : MembershipsOf(u)' = MembershipsOf(u),
         \A i \in InvitationIds :
           \/ invitation'[i].membership = NoMembership
           \/ /\ invitation'[i].membership = invitation[i].membership
              /\ invitation[i].status = "accepted" => invitation'[i].status = "accepted"
              /\ invitation'[i].email = invitation[i].email,
         \A i \in InvitationIds : invitation[i].membership # NoMembership => invitation[i].email \in Users
  PROVE  InvitationsMatchMembers'
<1>1. ASSUME NEW u \in Users
      PROVE  OneMembership(u)'
  BY MatchInParts DEF OneMembership
<1>2. ASSUME NEW i \in InvitationIds, invitation'[i].membership # NoMembership
      PROVE  /\ invitation'[i].status = "accepted"
             /\ invitation'[i].membership \in MembershipsOf(invitation[i].email)'
             /\ invitation'[i].email = invitation[i].email
  BY <1>2, MatchInParts DEF PointsToItsMember
<1>3. ASSUME NEW i \in InvitationIds, NEW j \in InvitationIds,
             invitation'[i].membership # NoMembership,
             invitation'[j].membership = invitation'[i].membership
      PROVE  j = i
  BY <1>3, MatchInParts DEF PointsToItsMember
<1>4. QED
  BY <1>1, <1>2, <1>3 DEF InvitationsMatchMembers, OneMembership

(* Who accepts is who was invited; an address never changes. *)
AcceptsTheirOwn ==
  \A r \in Requests : request[r].at = "accept" =>
    /\ invitation[request[r].invitation].status # "unused"
    /\ invitation[request[r].invitation].email = request[r].user

LEMMA StepKeepsMatch ==
  OrgTypeOK /\ AcceptsTheirOwn /\ InvitationsMatchMembers /\ [OrgNext]_vars
    => InvitationsMatchMembers'
<1> SUFFICES ASSUME OrgTypeOK, AcceptsTheirOwn, InvitationsMatchMembers, [OrgNext]_vars
             PROVE  InvitationsMatchMembers'
  OBVIOUS
<1> DEFINE Invited == [email : Users, role : MutableRoles, status : {"pending", "accepted", "revoked"},
                       token : 0..MaxRotations, expiresAt : Times,
                       membership : MembershipIds \cup {NoMembership}]
<1>0. /\ membership \in [MembershipIds -> [user : Users, role : Roles] \cup {Unused, Deleted}]
      /\ invitation \in [InvitationIds -> {NoInvitation} \cup Invited]
  BY DEF OrgTypeOK
<1>1. \A i \in InvitationIds : invitation[i].membership # NoMembership => invitation[i] \in Invited
  BY <1>0 DEF NoInvitation
<1>2. ASSUME UNCHANGED <<membership, invitation>>
      PROVE  InvitationsMatchMembers'
  BY <1>2 DEF InvitationsMatchMembers, MembershipsOf, Live
<1>3. ASSUME UNCHANGED membership,
             \A i \in InvitationIds :
               \/ invitation'[i].membership = NoMembership
               \/ /\ invitation'[i].membership = invitation[i].membership
                  /\ invitation[i].status = "accepted" => invitation'[i].status = "accepted"
                  /\ invitation'[i].email = invitation[i].email
      PROVE  InvitationsMatchMembers'
  <2>1. \A u \in Users : MembershipsOf(u)' = MembershipsOf(u)
    BY <1>3 DEF MembershipsOf, Live
  <2>2. QED
    BY <1>1, <1>3, <2>1, SameMembersMatch
<1>4. ASSUME NEW r \in Requests, Add(r)
      PROVE  InvitationsMatchMembers'
  <2>0. UNCHANGED invitation /\ request[r].user \in Users /\ request[r].role \in Roles
    BY <1>4, RequestTypes DEF Add, Roles
  <2>1. CASE UNCHANGED membership
    BY <1>2, <2>0, <2>1
  <2>2. CASE ~UNCHANGED membership
    <3>0. PICK u \in Users : u = request[r].user
      BY <2>0
    <3>1. PICK m \in MembershipIds : CreateMembership(m, u, request[r].role)
      BY <1>4, <2>2, <3>0 DEF Add
    <3>2. /\ MembershipsOf(u)' = {m}
          /\ \A v \in Users \ {u} : MembershipsOf(v)' = MembershipsOf(v)
      BY <2>0, <3>1, CreateKeepsMembers
    <3>3. \A v \in Users : MembershipsOf(v) \subseteq MembershipsOf(v)'
      BY <3>1, <3>2 DEF CreateMembership
    <3>4. ASSUME NEW v \in Users
          PROVE  OneMembership(v)'
      BY <3>2, MatchInParts DEF OneMembership
    <3>5. ASSUME NEW i \in InvitationIds
          PROVE  PointsToItsMember(i)'
      BY <1>1, <2>0, <3>3, MatchInParts DEF PointsToItsMember
    <3>6. QED
      BY <3>4, <3>5 DEF InvitationsMatchMembers, OneMembership, PointsToItsMember
  <2>3. QED
    BY <2>1, <2>2
<1>5. ASSUME NEW r \in Requests, ChangeRole(r)
      PROVE  InvitationsMatchMembers'
  <2> DEFINE m == request[r].membership
  <2>1. CASE UNCHANGED membership
    BY <1>2, <1>5, <2>1 DEF ChangeRole
  <2>2. CASE ~UNCHANGED membership
    <3>1. Live(m) /\ m \in MembershipIds /\ request[r].role \in Roles
      BY <1>5, <2>2, RequestTypes DEF ChangeRole, Roles
    <3>2. membership[m] \in [user : Users, role : Roles]
      BY <1>0, <3>1, NoUserIsNone DEF Live, Unused, Deleted
    <3>3. membership' = [membership EXCEPT ![m].role = request[r].role]
      BY <1>5, <3>1 DEF ChangeRole
    <3>4. membership'[m].user = membership[m].user /\ membership'[m].role \in Roles
      BY <1>0, <3>1, <3>2, <3>3
    <3>5. \A n \in MembershipIds \ {m} : membership'[n] = membership[n]
      BY <1>0, <3>3
    <3>6. \A u \in Users : MembershipsOf(u)' = MembershipsOf(u)
      BY <3>1, <3>4, <3>5 DEF MembershipsOf, Live
    <3>7. UNCHANGED invitation
      BY <1>5 DEF ChangeRole
    <3>8. QED
      BY <1>1, <3>6, <3>7, SameMembersMatch
  <2>3. QED
    BY <2>1, <2>2
<1>6. ASSUME NEW r \in Requests, Remove(r)
      PROVE  InvitationsMatchMembers'
  <2> DEFINE m == request[r].membership
  <2>1. CASE ~Live(m)
    BY <1>2, <1>6, <2>1 DEF Remove
  <2>2. CASE Live(m)
    <3>1. m \in MembershipIds /\ membership' = [membership EXCEPT ![m] = Deleted]
      BY <1>6, <2>2, RequestTypes DEF Remove
    <3>2. \A u \in Users : MembershipsOf(u)' = MembershipsOf(u) \ {m}
      BY <1>0, <3>1, NoUserIsNone DEF MembershipsOf, Live, Deleted
    <3>3. ASSUME NEW i \in InvitationIds
          PROVE  IF invitation[i].membership \in {m, NoMembership}
                 THEN invitation'[i].membership = NoMembership
                 ELSE invitation'[i] = invitation[i]
      <4>1. CASE invitation[i].membership = m
        <5>1. invitation[i] \in Invited
          BY <1>1, <3>1, <4>1, OrganizationAssumption
        <5>2. invitation'[i] = [invitation[i] EXCEPT !.membership = NoMembership]
          BY <1>6, <2>2, <4>1 DEF Remove
        <5>3. QED
          BY <4>1, <5>1, <5>2
      <4>2. CASE invitation[i].membership # m
        BY <1>6, <2>2, <4>2 DEF Remove
      <4>3. QED
        BY <4>1, <4>2
    <3>4. ASSUME NEW v \in Users
          PROVE  OneMembership(v)'
      BY <3>2, MatchInParts DEF OneMembership
    <3>5. ASSUME NEW i \in InvitationIds, invitation'[i].membership # NoMembership
          PROVE  /\ invitation'[i] = invitation[i]
                 /\ invitation[i].membership \notin {m, NoMembership}
      BY <3>3, <3>5
    <3>6. ASSUME NEW i \in InvitationIds
          PROVE  PointsToItsMember(i)'
      <4>1. CASE invitation'[i].membership = NoMembership
        BY <4>1 DEF PointsToItsMember
      <4>2. CASE invitation'[i].membership # NoMembership
        <5>1. /\ invitation'[i] = invitation[i]
              /\ invitation[i].membership \notin {m, NoMembership}
          BY <3>5, <4>2
        <5>2. invitation[i].email \in Users /\ PointsToItsMember(i)
          BY <1>1, <5>1, MatchInParts
        <5>3. /\ invitation'[i].status = "accepted"
              /\ invitation'[i].membership \in MembershipsOf(invitation[i].email)'
          BY <3>2, <5>1, <5>2 DEF PointsToItsMember
        <5>4. ASSUME NEW j \in InvitationIds, invitation'[j].membership = invitation'[i].membership
              PROVE  j = i
          BY <3>5, <4>2, <5>1, <5>2, <5>4 DEF PointsToItsMember
        <5>5. QED
          BY <5>3, <5>4 DEF PointsToItsMember
      <4>3. QED
        BY <4>1, <4>2
    <3>7. QED
      BY <3>4, <3>6 DEF InvitationsMatchMembers, OneMembership, PointsToItsMember
  <2>3. QED
    BY <2>1, <2>2
<1>7. ASSUME NEW r \in Requests, Invite(r)
      PROVE  InvitationsMatchMembers'
  <2>1. CASE UNCHANGED invitation
    BY <1>2, <1>7, <2>1 DEF Invite
  <2>2. CASE ~UNCHANGED invitation
    <3>1. PICK j \in InvitationIds :
            invitation' = [invitation EXCEPT ![j] = NewInvitation(request[r])]
      BY <1>7, <2>2 DEF Invite
    <3>2. invitation'[j].membership = NoMembership
      BY <1>0, <3>1 DEF NewInvitation
    <3>3. \A i \in InvitationIds \ {j} : invitation'[i] = invitation[i]
      BY <1>0, <3>1
    <3>4. UNCHANGED membership
      BY <1>7 DEF Invite
    <3>5. QED
      BY <1>3, <3>2, <3>3, <3>4
  <2>3. QED
    BY <2>1, <2>2
<1>8. ASSUME NEW r \in Requests, Resend(r)
      PROVE  InvitationsMatchMembers'
  <2> DEFINE i == request[r].invitation
  <2>1. invitation' = [invitation EXCEPT ![i] =
                         [invitation[i] EXCEPT !.token = @ + 1, !.expiresAt = request[r].expiresAt]]
    BY <1>0, <1>8 DEF Resend
  <2>2. i \in InvitationIds /\ UNCHANGED membership
    BY <1>8, RequestTypes DEF Resend
  <2>3. /\ invitation'[i].membership = invitation[i].membership
        /\ invitation'[i].status = invitation[i].status
        /\ invitation'[i].email = invitation[i].email
    BY <1>0, <2>1, <2>2 DEF NoInvitation
  <2>4. \A j \in InvitationIds \ {i} : invitation'[j] = invitation[j]
    BY <1>0, <2>1
  <2>5. QED
    BY <1>3, <2>2, <2>3, <2>4
<1>9. ASSUME NEW r \in Requests, Revoke(r)
      PROVE  InvitationsMatchMembers'
  <2> DEFINE i == request[r].invitation
  <2>1. CASE ~RevokeClaims(i, request[r].revokedAt)
    BY <1>2, <1>9, <2>1 DEF Revoke
  <2>2. CASE RevokeClaims(i, request[r].revokedAt)
    <3>1. i \in InvitationIds /\ invitation[i].status = "pending"
      BY <1>9, <2>2, RequestTypes DEF Revoke, RevokeClaims
    <3>2. /\ UNCHANGED membership
          /\ invitation' = [invitation EXCEPT ![i].status = "revoked"]
      BY <1>9, <2>2 DEF Revoke
    <3>3. invitation[i] \in Invited
      BY <1>0, <3>1 DEF NoInvitation
    <3>4. invitation[i].membership = NoMembership
      BY <3>1, MatchInParts DEF PointsToItsMember
    <3>5. invitation'[i].membership = NoMembership
      BY <1>0, <3>1, <3>2, <3>3, <3>4
    <3>6. \A j \in InvitationIds \ {i} : invitation'[j] = invitation[j]
      BY <1>0, <3>2
    <3>7. QED
      BY <1>3, <3>2, <3>5, <3>6
  <2>3. QED
    BY <2>1, <2>2
<1>10. ASSUME NEW r \in Requests, Accept(r)
       PROVE  InvitationsMatchMembers'
  <2>1. PICK i \in InvitationIds, u \in Users : i = request[r].invitation /\ u = request[r].user
    BY <1>10, RequestTypes DEF Accept
  <2>2. /\ invitation[i].status = "pending"
        /\ \E m \in MembershipIds :
             /\ CreateMembership(m, u, invitation[i].role)
             /\ invitation' = [invitation EXCEPT ![i].status = "accepted", ![i].membership = m]
    BY <1>10, <2>1 DEF Accept, AcceptClaims
  <2>3. PICK m \in MembershipIds :
          /\ CreateMembership(m, u, invitation[i].role)
          /\ invitation' = [invitation EXCEPT ![i].status = "accepted", ![i].membership = m]
    BY <2>2
  <2>4. invitation[i] \in Invited /\ invitation[i].role \in Roles
    BY <1>0, <2>2 DEF NoInvitation, Roles
  <2>5. /\ MembershipsOf(u)' = {m}
        /\ \A v \in Users \ {u} : MembershipsOf(v)' = MembershipsOf(v)
        /\ \A v \in Users : m \notin MembershipsOf(v)
    BY <2>3, <2>4, CreateKeepsMembers
  <2>6. \A v \in Users : MembershipsOf(v) \subseteq MembershipsOf(v)'
    BY <2>3, <2>5 DEF CreateMembership
  <2>7. /\ invitation'[i].membership = m /\ invitation'[i].status = "accepted"
        /\ invitation'[i].email = invitation[i].email
    BY <1>0, <2>3, <2>4
  <2>8. invitation[i].email = u
    BY <1>10, <2>1 DEF AcceptsTheirOwn, Accept
  <2>9. \A j \in InvitationIds \ {i} : invitation'[j] = invitation[j]
    BY <1>0, <2>3
  <2>10. \A j \in InvitationIds \ {i} : invitation[j].membership # m
    <3>1. ASSUME NEW j \in InvitationIds, invitation[j].membership = m
          PROVE  FALSE
      <4>1. m # NoMembership
        BY OrganizationAssumption
      <4>2. invitation[j].email \in Users /\ PointsToItsMember(j)
        BY <1>1, <3>1, <4>1, MatchInParts
      <4>3. QED
        BY <2>5, <3>1, <4>1, <4>2 DEF PointsToItsMember
    <3>2. QED
      BY <3>1
  <2>11. ASSUME NEW v \in Users
         PROVE  OneMembership(v)'
    BY <2>5, MatchInParts DEF OneMembership
  <2>12. ASSUME NEW j \in InvitationIds \ {i}
         PROVE  PointsToItsMember(j)'
    BY <1>1, <2>6, <2>7, <2>9, <2>10, MatchInParts DEF PointsToItsMember
  <2>13. PointsToItsMember(i)'
    BY <2>5, <2>7, <2>8, <2>9, <2>10 DEF PointsToItsMember
  <2>14. QED
    BY <2>11, <2>12, <2>13 DEF InvitationsMatchMembers, OneMembership, PointsToItsMember
<1>11. ASSUME NEW r \in Requests, Arrive(r) \/ AcceptRefused(r)
       PROVE  InvitationsMatchMembers'
  BY <1>2, <1>11, ArriveOnlyReads DEF AcceptRefused
<1>12. CASE Tick \/ UNCHANGED vars
  BY <1>2, <1>12 DEF Tick, vars
<1>13. QED
  BY <1>4, <1>5, <1>6, <1>7, <1>8, <1>9, <1>10, <1>11, <1>12 DEF OrgNext, Commit

LEMMA EmailsStay ==
  ASSUME OrgTypeOK, [OrgNext]_vars, NEW i \in InvitationIds, invitation[i].status # "unused"
  PROVE  invitation'[i].email = invitation[i].email
<1>0. invitation \in [InvitationIds -> UNION {{invitation[j]} : j \in InvitationIds}]
  BY DEF OrgTypeOK
<1>1. invitation[i] \in
        [email : Users, role : MutableRoles, status : {"pending", "accepted", "revoked"},
         token : 0..MaxRotations, expiresAt : Times,
         membership : MembershipIds \cup {NoMembership}]
  BY InvitationTypes
<1>2. ASSUME NEW r \in Requests, Remove(r)
      PROVE  invitation'[i].email = invitation[i].email
  <2>1. invitation'[i] \in {invitation[i], [invitation[i] EXCEPT !.membership = NoMembership]}
    BY <1>2 DEF Remove
  <2>2. QED
    BY <1>1, <2>1
<1>3. ASSUME NEW r \in Requests, Invite(r)
      PROVE  invitation'[i].email = invitation[i].email
  <2>1. CASE UNCHANGED invitation
    BY <2>1
  <2>2. CASE ~UNCHANGED invitation
    <3>1. PICK j \in InvitationIds :
            /\ invitation[j] = NoInvitation
            /\ invitation' = [invitation EXCEPT ![j] = NewInvitation(request[r])]
      BY <1>3, <2>2 DEF Invite
    <3>2. j # i
      BY <3>1 DEF NoInvitation
    <3>3. QED
      BY <1>0, <3>1, <3>2
  <2>3. QED
    BY <2>1, <2>2
<1>4. ASSUME NEW r \in Requests, Resend(r)
      PROVE  invitation'[i].email = invitation[i].email
  <2>1. invitation'[i] \in {invitation[i],
          [invitation[i] EXCEPT !.token = @ + 1, !.expiresAt = request[r].expiresAt]}
    BY <1>0, <1>4 DEF Resend
  <2>2. QED
    BY <1>1, <2>1
<1>5. ASSUME NEW r \in Requests, Revoke(r)
      PROVE  invitation'[i].email = invitation[i].email
  <2>1. invitation'[i] \in {invitation[i], [invitation[i] EXCEPT !.status = "revoked"]}
    BY <1>0, <1>5 DEF Revoke
  <2>2. QED
    BY <1>1, <2>1
<1>6. ASSUME NEW r \in Requests, Accept(r)
      PROVE  invitation'[i].email = invitation[i].email
  <2>1. PICK m : invitation' = [invitation EXCEPT ![request[r].invitation].status = "accepted",
                                                  ![request[r].invitation].membership = m]
    BY <1>6 DEF Accept
  <2>2. invitation'[i] \in {invitation[i],
          [invitation[i] EXCEPT !.status = "accepted", !.membership = m]}
    BY <1>0, <2>1
  <2>3. QED
    BY <1>1, <2>2
<1>7. ASSUME NEW r \in Requests, Arrive(r) \/ Add(r) \/ ChangeRole(r) \/ AcceptRefused(r)
      PROVE  invitation'[i].email = invitation[i].email
  BY <1>7, ArriveOnlyReads DEF Add, ChangeRole, AcceptRefused
<1>8. CASE Tick \/ UNCHANGED vars
  BY <1>8 DEF Tick, vars
<1>9. QED
  BY <1>2, <1>3, <1>4, <1>5, <1>6, <1>7, <1>8 DEF OrgNext, Commit

LEMMA StepKeepsAcceptsTheirOwn ==
  OrgTypeOK /\ AcceptsTheirOwn /\ [OrgNext]_vars => AcceptsTheirOwn'
<1> SUFFICES ASSUME OrgTypeOK, AcceptsTheirOwn, [OrgNext]_vars,
                    NEW r \in Requests, request'[r].at = "accept"
             PROVE  /\ invitation'[request'[r].invitation].status # "unused"
                    /\ invitation'[request'[r].invitation].email = request'[r].user
  BY DEF AcceptsTheirOwn
<1>0. request \in [Requests -> UNION {{request[q]} : q \in Requests}]
  BY DEF OrgTypeOK
<1>1. CASE request'[r] = request[r]
  BY <1>1, InvitationsStay, EmailsStay, RequestTypes DEF AcceptsTheirOwn
<1>2. CASE request'[r] # request[r]
  <2>1. ASSUME NEW q \in Requests, Commit(q)
        PROVE  FALSE
    <3>1. request' = [request EXCEPT ![q] = Idle]
      BY <2>1, CommitFinishes DEF Finish
    <3>2. request'[r] = Idle
      BY <1>0, <1>2, <3>1
    <3>3. QED
      BY <3>2 DEF Idle
  <2>2. PICK q \in Requests : Arrive(q)
    BY <1>2, <2>1 DEF OrgNext, Tick, vars
  <2>3. q = r
    BY <1>0, <1>2, <2>2, ArriveOnlyReads DEF Begin
  <2>4. \E actor \in Users, i \in InvitationIds : BeginAccept(r, actor, i)
    <3>1. ASSUME NEW what, Begin(r, what)
          PROVE  request'[r] = what
      BY <1>0, <3>1 DEF Begin
    <3>2. ASSUME NEW actor \in Users, NEW u \in Users, NEW role \in MutableRoles,
                 BeginAdd(r, actor, u, role) \/ BeginInvite(r, actor, u, role)
          PROVE  FALSE
      BY <3>1, <3>2 DEF BeginAdd, BeginInvite
    <3>3. ASSUME NEW actor \in Users, NEW m \in MembershipIds,
                 BeginRemove(r, actor, m) \/ \E role \in MutableRoles : BeginChangeRole(r, actor, m, role)
          PROVE  FALSE
      <4>1. CASE BeginRemove(r, actor, m)
        BY <3>1, <4>1 DEF BeginRemove
      <4>2. CASE \E role \in MutableRoles : BeginChangeRole(r, actor, m, role)
        BY <3>1, <4>2 DEF BeginChangeRole
      <4>3. QED
        BY <3>3, <4>1, <4>2
    <3>4. ASSUME NEW actor \in Users, NEW i \in InvitationIds,
                 BeginResend(r, actor, i) \/ BeginRevoke(r, actor, i)
          PROVE  FALSE
      BY <3>1, <3>4 DEF BeginResend, BeginRevoke
    <3>5. QED
      BY <2>2, <2>3, <3>2, <3>3, <3>4 DEF Arrive
  <2>5. PICK actor \in Users, i \in InvitationIds : BeginAccept(r, actor, i)
    BY <2>4
  <2>6. request'[r] = [at |-> "accept", invitation |-> i, user |-> actor, token |-> invitation[i].token,
                       arrivedAt |-> now]
    BY <1>0, <2>5 DEF BeginAccept, Begin
  <2>7. QED
    BY <2>5, <2>6 DEF BeginAccept, Begin
<1>3. QED
  BY <1>1, <1>2

LEMMA InitMatches == OrgInit => AcceptsTheirOwn /\ InvitationsMatchMembers
<1> SUFFICES ASSUME OrgInit
             PROVE  AcceptsTheirOwn /\ InvitationsMatchMembers
  OBVIOUS
<1>1. AcceptsTheirOwn
  BY DEF OrgInit, AcceptsTheirOwn, Idle
<1>2. \A i \in InvitationIds : invitation[i].membership = NoMembership
  BY DEF OrgInit, NoInvitation
<1>3. ASSUME NEW u \in Users, NEW m \in MembershipsOf(u)
      PROVE  u \in Founders
  BY NoUserIsNone, <1>3 DEF OrgInit, MembershipsOf, Live, Unused
<1>4. \A u \in Users : \A m, n \in MembershipsOf(u) : m = n
  BY <1>3 DEF OrgInit
<1>5. QED
  BY <1>1, <1>2, <1>4 DEF InvitationsMatchMembers

(* Members and invitations agree, whichever requests overlap: nobody is a   *)
(* member twice, and an accepted invitation points to its user's own row.   *)
THEOREM MembersMatchInvitations == OrgSpec => []InvitationsMatchMembers
<1>1. OrgTypeOK /\ AcceptsTheirOwn /\ InvitationsMatchMembers /\ [OrgNext]_vars
        => AcceptsTheirOwn' /\ InvitationsMatchMembers'
  BY StepKeepsMatch, StepKeepsAcceptsTheirOwn
<1>2. QED
  BY <1>1, InitMatches, OrgTypeCorrect, PTL DEF OrgSpec

-----------------------------------------------------------------------------
(* Acceptance. *)

(* Accept alone makes an invitation accepted. *)
LEMMA OnlyAcceptAccepts ==
  ASSUME OrgTypeOK, [OrgNext]_vars, NEW i \in InvitationIds,
         invitation'[i].status = "accepted", invitation[i].status # "accepted"
  PROVE  \E r \in Requests : Accept(r) /\ request[r].invitation = i
<1>0. invitation \in [InvitationIds -> UNION {{invitation[j]} : j \in InvitationIds}]
  BY DEF OrgTypeOK
<1>1. ASSUME invitation[i].status # "unused"
      PROVE  invitation[i] \in
        [email : Users, role : MutableRoles, status : {"pending", "accepted", "revoked"},
         token : 0..MaxRotations, expiresAt : Times,
         membership : MembershipIds \cup {NoMembership}]
  BY <1>1, InvitationTypes
<1>2. invitation[i].status = "unused" => invitation[i] = NoInvitation
  BY DEF OrgTypeOK
<1>3. ASSUME NEW r \in Requests, Remove(r)
      PROVE  FALSE
  <2>1. invitation'[i] \in {invitation[i], [invitation[i] EXCEPT !.membership = NoMembership]}
    BY <1>3 DEF Remove
  <2>2. QED
    BY <1>1, <1>2, <2>1 DEF NoInvitation
<1>4. ASSUME NEW r \in Requests, Invite(r)
      PROVE  FALSE
  <2>1. PICK j \in InvitationIds :
          invitation' = [invitation EXCEPT ![j] = NewInvitation(request[r])]
    BY <1>4 DEF Invite
  <2>2. NewInvitation(request[r]).status = "pending"
    BY DEF NewInvitation
  <2>3. QED
    BY <1>0, <2>1, <2>2
<1>5. ASSUME NEW r \in Requests, Resend(r)
      PROVE  FALSE
  <2>1. invitation'[i] \in {invitation[i],
          [invitation[i] EXCEPT !.token = @ + 1, !.expiresAt = request[r].expiresAt]}
    BY <1>0, <1>5 DEF Resend
  <2>2. QED
    BY <1>1, <1>2, <2>1 DEF NoInvitation
<1>6. ASSUME NEW r \in Requests, Revoke(r)
      PROVE  FALSE
  <2>1. invitation'[i] \in {invitation[i], [invitation[i] EXCEPT !.status = "revoked"]}
    BY <1>0, <1>6 DEF Revoke
  <2>2. QED
    BY <1>1, <1>2, <2>1 DEF NoInvitation
<1>7. ASSUME NEW r \in Requests, Accept(r), request[r].invitation # i
      PROVE  FALSE
  BY <1>0, <1>7 DEF Accept
<1>8. ASSUME NEW r \in Requests, Arrive(r) \/ Add(r) \/ ChangeRole(r) \/ AcceptRefused(r)
      PROVE  FALSE
  BY <1>8, ArriveOnlyReads DEF Add, ChangeRole, AcceptRefused
<1>9. ASSUME Tick \/ UNCHANGED vars
      PROVE  FALSE
  BY <1>9 DEF Tick, vars
<1>10. QED
  BY <1>3, <1>4, <1>5, <1>6, <1>7, <1>8, <1>9 DEF OrgNext, Commit

(* Whatever overlaps with it, an acceptance uses the token in force, by a   *)
(* request of the invited user that came before it expires.                 *)
THEOREM AcceptedByTheTokenInForce == OrgSpec => AcceptedByCurrentToken
<1> DEFINE ByToken(i) ==
      \E r \in Requests :
        /\ request[r].at = "accept" /\ request[r].invitation = i
        /\ request[r].user = invitation[i].email
        /\ request[r].token = invitation[i].token
        /\ request[r].arrivedAt < invitation[i].expiresAt
        /\ request'[r] = Idle
<1>1. ASSUME OrgTypeOK, AcceptsTheirOwn, [OrgNext]_vars, NEW i \in InvitationIds,
             invitation'[i].status = "accepted", invitation[i].status # "accepted"
      PROVE  ByToken(i)
  <2>1. PICK r \in Requests : Accept(r) /\ request[r].invitation = i
    BY <1>1, OnlyAcceptAccepts
  <2>2. PICK claimedAt \in ClaimTimes(r) : AcceptClaims(i, request[r].token, claimedAt)
    BY <2>1 DEF Accept
  <2>3. request[r].at = "accept" /\ request[r].token = invitation[i].token
    BY <2>1, <2>2 DEF Accept, AcceptClaims
  <2>4. request[r].user = invitation[i].email
    BY <1>1, <2>1, <2>3 DEF AcceptsTheirOwn
  <2>5. request[r].arrivedAt < invitation[i].expiresAt
    <3>1. request[r].arrivedAt \in Nat /\ now \in Nat
      BY <1>1, <2>3, RequestTypes, OrganizationAssumption DEF OrgTypeOK
    <3>2. invitation[i].expiresAt \in Nat
      BY <1>1, <2>2, InvitationTypes, OrganizationAssumption DEF AcceptClaims, Times
    <3>3. QED
      BY <2>2, <3>1, <3>2 DEF AcceptClaims, ClaimTimes
  <2>6. request'[r] = Idle
    BY <1>1, <2>1 DEF OrgTypeOK, Accept, Finish
  <2>7. QED
    BY <2>1, <2>3, <2>4, <2>5, <2>6
<1>2. OrgTypeOK /\ AcceptsTheirOwn /\ [OrgNext]_vars =>
        [\A i \in InvitationIds :
           invitation'[i].status = "accepted" /\ invitation[i].status # "accepted" => ByToken(i)]_vars
  BY <1>1
<1>3. QED
  BY <1>2, InitMatches, StepKeepsAcceptsTheirOwn, OrgTypeCorrect, PTL DEF OrgSpec, AcceptedByCurrentToken
=============================================================================
