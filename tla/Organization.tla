---------------------------- MODULE Organization ----------------------------
(***************************************************************************)
(* The members of one organizer and the invitations to join it. Every      *)
(* request first reads and checks, in statements of their own, and then    *)
(* writes in a transaction that repeats only some of the checks; other     *)
(* requests run in between. A request that fails writes nothing.           *)
(*                                                                         *)
(* A user stands for his canonical e-mail address; registered or not makes *)
(* a difference only to who can log in and accept. Audit rows are written  *)
(* in the same transactions, read by none of them, and left out.           *)
(***************************************************************************)
EXTENDS Naturals, FiniteSets

CONSTANTS
  Users, NoUser,
  Founders,       \* owners when the organizer is created or seeded
  MutableRoles,   \* the roles a member can be given
  MembershipIds, NoMembership,
  InvitationIds,
  Requests,       \* requests in progress at once
  InvitationTTL,  \* 7 days in the code
  MaxRotations,   \* bound: how often an invitation is sent again
  Horizon         \* bound: the clock stops here

ASSUME OrganizationAssumption ==
  /\ Founders \subseteq Users /\ NoUser \notin Users
  /\ NoMembership \notin MembershipIds
  /\ MutableRoles \cap {"owner", "unused", "deleted"} = {}
  /\ InvitationTTL \in Nat /\ MaxRotations \in Nat /\ Horizon \in Nat

VARIABLES
  now,         \* the clock
  membership,  \* Membership rows
  invitation,  \* OrganizerInvitation rows
  request      \* what each request has read and is about to write

vars == <<now, membership, invitation, request>>

Roles == {"owner"} \cup MutableRoles

(* An identifier is used once: a member who comes back has a new row. *)
Unused == [user |-> NoUser, role |-> "unused"]
Deleted == [user |-> NoUser, role |-> "deleted"]

NoInvitation == [email |-> NoUser, role |-> "unused", status |-> "unused",
                 token |-> 0, expiresAt |-> 0, membership |-> NoMembership]

Idle == [at |-> "idle"]

Times == 0..(Horizon + InvitationTTL)

OrgTypeOK ==
  /\ now \in 0..Horizon
  /\ membership \in [MembershipIds -> [user : Users, role : Roles] \cup {Unused, Deleted}]
  /\ invitation \in [InvitationIds -> {NoInvitation} \cup
       [email : Users, role : MutableRoles, status : {"pending", "accepted", "revoked"},
        token : 0..MaxRotations, expiresAt : Times,
        membership : MembershipIds \cup {NoMembership}]]
  /\ request \in [Requests -> {Idle}
       \cup [at : {"add"}, user : Users, role : MutableRoles]
       \cup [at : {"change"}, membership : MembershipIds, role : MutableRoles]
       \cup [at : {"remove"}, membership : MembershipIds]
       \cup [at : {"invite"}, user : Users, role : MutableRoles, expiresAt : Times]
       \cup [at : {"resend"}, invitation : InvitationIds, expiresAt : Times]
       \cup [at : {"revoke"}, invitation : InvitationIds, revokedAt : Times]
       \cup [at : {"accept"}, invitation : InvitationIds, user : Users, token : 0..MaxRotations,
          arrivedAt : 0..Horizon]]

Live(m) == membership[m].role \in Roles

MembershipsOf(u) == {m \in MembershipIds : Live(m) /\ membership[m].user = u}

Owners == {m \in MembershipIds : membership[m].role = "owner"}

IsOwner(u) == \E m \in Owners : membership[m].user = u

OrgInit ==
  /\ now = 0
  /\ membership \in [MembershipIds -> [user : Founders, role : {"owner"}] \cup {Unused}]
  /\ \A u \in Founders : \E m \in MembershipIds : MembershipsOf(u) = {m}
  /\ invitation = [i \in InvitationIds |-> NoInvitation]
  /\ request = [r \in Requests |-> Idle]

(* A request passes its checks, and keeps what it read. *)
Begin(r, what) ==
  /\ request[r] = Idle
  /\ request' = [request EXCEPT ![r] = what]
  /\ UNCHANGED <<now, membership, invitation>>

Finish(r) == request' = [request EXCEPT ![r] = Idle]

(* Membership.create, under the unique index on user and organizer. *)
CreateMembership(m, u, role) ==
  /\ MembershipsOf(u) = {}
  /\ membership[m] = Unused
  /\ membership' = [membership EXCEPT ![m] = [user |-> u, role |-> role]]

-----------------------------------------------------------------------------
(* Memberships. *)

BeginAdd(r, actor, u, role) ==
  /\ IsOwner(actor)
  /\ MembershipsOf(u) = {}
  /\ Begin(r, [at |-> "add", user |-> u, role |-> role])

Add(r) ==
  /\ request[r].at = "add"
  /\ \/ \E m \in MembershipIds : CreateMembership(m, request[r].user, request[r].role)
     \/ MembershipsOf(request[r].user) # {} /\ UNCHANGED membership
  /\ Finish(r)
  /\ UNCHANGED <<now, invitation>>

(* An owner's role is never changed, nor is one's own. *)
BeginChangeRole(r, actor, m, role) ==
  /\ IsOwner(actor)
  /\ membership[m].role \in MutableRoles \ {role}
  /\ membership[m].user # actor
  /\ Begin(r, [at |-> "change", membership |-> m, role |-> role])

ChangeRole(r) ==
  /\ request[r].at = "change"
  /\ membership' = IF Live(request[r].membership)
                   THEN [membership EXCEPT ![request[r].membership].role = request[r].role]
                   ELSE membership
  /\ Finish(r)
  /\ UNCHANGED <<now, invitation>>

LeavesAnOwner(m) == membership[m].role = "owner" => Cardinality(Owners) > 1

BeginRemove(r, actor, m) ==
  /\ IsOwner(actor)
  /\ Live(m)
  /\ membership[m].user # actor
  /\ LeavesAnOwner(m)
  /\ Begin(r, [at |-> "remove", membership |-> m])

(* The invitation the member came by loses its link to the row. *)
Remove(r) ==
  LET m == request[r].membership
  IN  /\ request[r].at = "remove"
      /\ IF Live(m)
         THEN /\ membership' = [membership EXCEPT ![m] = Deleted]
              /\ invitation' = [i \in InvitationIds |->
                                  IF invitation[i].membership = m
                                  THEN [invitation[i] EXCEPT !.membership = NoMembership]
                                  ELSE invitation[i]]
         ELSE UNCHANGED <<membership, invitation>>
      /\ Finish(r)
      /\ UNCHANGED now

-----------------------------------------------------------------------------
(* Invitations. *)

PendingFor(u) == {i \in InvitationIds : invitation[i].status = "pending" /\ invitation[i].email = u}

BeginInvite(r, actor, u, role) ==
  /\ IsOwner(actor)
  /\ MembershipsOf(u) = {}
  /\ Begin(r, [at |-> "invite", user |-> u, role |-> role, expiresAt |-> now + InvitationTTL])

NewInvitation(req) ==
  [email |-> req.user, role |-> req.role, status |-> "pending",
   token |-> 0, expiresAt |-> req.expiresAt, membership |-> NoMembership]

(* One pending invitation per address, by a partial unique index; one that  *)
(* has expired counts.                                                      *)
Invite(r) ==
  /\ request[r].at = "invite"
  /\ \/ /\ PendingFor(request[r].user) = {}
        /\ \E i \in InvitationIds :
             /\ invitation[i] = NoInvitation
             /\ invitation' = [invitation EXCEPT ![i] = NewInvitation(request[r])]
     \/ PendingFor(request[r].user) # {} /\ UNCHANGED invitation
  /\ Finish(r)
  /\ UNCHANGED <<now, membership>>

BeginResend(r, actor, i) ==
  /\ IsOwner(actor)
  /\ invitation[i].status = "pending"
  /\ Begin(r, [at |-> "resend", invitation |-> i, expiresAt |-> now + InvitationTTL])

(* The update names the row only: the invitation may have ended meanwhile.  *)
Resend(r) ==
  LET i == request[r].invitation
  IN  /\ request[r].at = "resend"
      /\ invitation[i].token < MaxRotations
      /\ invitation' = [invitation EXCEPT ![i].token = @ + 1,
                                          ![i].expiresAt = request[r].expiresAt]
      /\ Finish(r)
      /\ UNCHANGED <<now, membership>>

BeginRevoke(r, actor, i) ==
  /\ IsOwner(actor)
  /\ invitation[i].status = "pending"
  /\ invitation[i].expiresAt > now
  /\ Begin(r, [at |-> "revoke", invitation |-> i, revokedAt |-> now])

(* Mutant of RevokeClaims: the update of revoke names the row only. *)
RevokeAnything(i, revokedAt) == TRUE

(* The condition of the update: count is 1. *)
RevokeClaims(i, revokedAt) ==
  invitation[i].status = "pending" /\ invitation[i].expiresAt > revokedAt

Revoke(r) ==
  LET i == request[r].invitation
  IN  /\ request[r].at = "revoke"
      /\ invitation' = IF RevokeClaims(i, request[r].revokedAt)
                       THEN [invitation EXCEPT ![i].status = "revoked"]
                       ELSE invitation
      /\ Finish(r)
      /\ UNCHANGED <<now, membership>>

(* The invitation is found by its current token and is the user's own.      *)
BeginAccept(r, u, i) ==
  /\ invitation[i].status = "pending"
  /\ invitation[i].email = u
  /\ invitation[i].expiresAt > now
  /\ Begin(r, [at |-> "accept", invitation |-> i, user |-> u, token |-> invitation[i].token,
              arrivedAt |-> now])

(* Mutants of AcceptClaims: the update of accept does not look at the token *)
(* again, or not at the status.                                             *)
AcceptAnyToken(i, token, claimedAt) ==
  invitation[i].status = "pending" /\ invitation[i].expiresAt > claimedAt
AcceptAnyStatus(i, token, claimedAt) ==
  invitation[i].token = token /\ invitation[i].expiresAt > claimedAt

AcceptClaims(i, token, claimedAt) ==
  /\ invitation[i].token = token
  /\ invitation[i].status = "pending"
  /\ invitation[i].expiresAt > claimedAt

(* The code reads the clock before its update, which may then wait for the  *)
(* row: at any time since the request arrived.                              *)
ClaimTimes(r) == request[r].arrivedAt..now

(* The claim and the membership commit together or not at all. *)
Accept(r) ==
  LET i == request[r].invitation
      u == request[r].user
  IN  /\ request[r].at = "accept"
      /\ \E claimedAt \in ClaimTimes(r) : AcceptClaims(i, request[r].token, claimedAt)
      /\ \E m \in MembershipIds :
           /\ CreateMembership(m, u, invitation[i].role)
           /\ invitation' = [invitation EXCEPT ![i].status = "accepted", ![i].membership = m]
      /\ Finish(r)
      /\ UNCHANGED now

AcceptRefused(r) ==
  /\ request[r].at = "accept"
  /\ \/ \E claimedAt \in ClaimTimes(r) :
          ~AcceptClaims(request[r].invitation, request[r].token, claimedAt)
     \/ MembershipsOf(request[r].user) # {}
  /\ Finish(r)
  /\ UNCHANGED <<now, membership, invitation>>

-----------------------------------------------------------------------------
Tick ==
  /\ now < Horizon
  /\ now' = now + 1
  /\ UNCHANGED <<membership, invitation, request>>

(* A request arrives. Anyone may send it; the checks are in the actions. *)
Arrive(r) ==
  \E actor \in Users :
    \/ \E u \in Users, role \in MutableRoles :
         BeginAdd(r, actor, u, role) \/ BeginInvite(r, actor, u, role)
    \/ \E m \in MembershipIds :
         BeginRemove(r, actor, m) \/ \E role \in MutableRoles : BeginChangeRole(r, actor, m, role)
    \/ \E i \in InvitationIds :
         BeginResend(r, actor, i) \/ BeginRevoke(r, actor, i) \/ BeginAccept(r, actor, i)

(* Its transaction commits, or fails and changes nothing. *)
Commit(r) ==
  \/ Add(r) \/ ChangeRole(r) \/ Remove(r)
  \/ Invite(r) \/ Resend(r) \/ Revoke(r) \/ Accept(r) \/ AcceptRefused(r)

OrgNext == Tick \/ \E r \in Requests : Arrive(r) \/ Commit(r)

OrgSpec == OrgInit /\ [][OrgNext]_vars
-----------------------------------------------------------------------------
(* Properties. *)

(* Members and invitations agree whichever of add, accept and remove came   *)
(* first: a user is a member once, an accepted invitation points to its     *)
(* user's membership as long as that lasts, and no two to the same one.     *)
InvitationsMatchMembers ==
  /\ \A u \in Users : \A m, n \in MembershipsOf(u) : m = n
  /\ \A i \in InvitationIds : invitation[i].membership # NoMembership =>
       /\ invitation[i].status = "accepted"
       /\ invitation[i].membership \in MembershipsOf(invitation[i].email)
       /\ \A j \in InvitationIds :
            invitation[j].membership = invitation[i].membership => j = i

(* An invitation is accepted only by the token in force, and by a request   *)
(* that came before it expires: a resend voids the previous token           *)
(* (docs/API.md) also for an accept that has passed its checks already.     *)
AcceptedByCurrentToken ==
  [][\A i \in InvitationIds :
       invitation'[i].status = "accepted" /\ invitation[i].status # "accepted" =>
         \E r \in Requests :
           /\ request[r].at = "accept" /\ request[r].invitation = i
           /\ request[r].user = invitation[i].email
           /\ request[r].token = invitation[i].token
           /\ request[r].arrivedAt < invitation[i].expiresAt
           /\ request'[r] = Idle]_vars

(* An accepted or revoked invitation is over: revoke, accept and resend     *)
(* that overlap cannot turn it into the other, and none lets its user in    *)
(* again once the membership was removed.                                   *)
EndedForGood ==
  [][\A i \in InvitationIds : invitation[i].status \in {"accepted", "revoked"} =>
       /\ invitation'[i].status = invitation[i].status
       /\ invitation'[i].membership \in {invitation[i].membership, NoMembership}]_vars

(* server.ts refuses to remove the last owner: "No se puede remover el      *)
(* último owner".                                                           *)
LastOwnerStays == Owners # {}
=============================================================================
