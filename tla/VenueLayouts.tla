---------------------------- MODULE VenueLayouts ----------------------------
(***************************************************************************)
(* The venues of an organizer, the templates and numbered versions of      *)
(* their layouts, the copy of a version that an event is held with, and    *)
(* the ticket types bound to zones and seats of that copy. Rows are only   *)
(* ever inserted. An insertion first reads and checks, in statements of    *)
(* their own, and then writes its row and an audit row in one transaction; *)
(* other requests, and changes of membership, come in between.             *)
(*                                                                         *)
(* A layout is a function from its zones to their capacities and one from  *)
(* its seats to what is known of them: two of one id are refused. That the *)
(* numbering transaction is serializable can only make it fail more often, *)
(* and any transaction may fail here at any time.                          *)
(***************************************************************************)
EXTENDS Naturals, AdminAuthz

CONSTANTS
  Organizers, Users,
  MemberRoles,    \* roles that members have
  Events, TicketTypes,
  OrganizerOf,    \* of each event
  EventOf,        \* of each ticket type
  VenueIds, TemplateIds, VersionIds,
  Slugs,
  EntityIds,      \* ids of zones and seats
  Layouts,        \* layouts a client sends
  NoRow,
  Requests,       \* requests in progress at once
  MaxNumber       \* bound: version numbers, capacities and limits

LayoutModes == {"seated", "ga", "mixed"}

(* capacity 0: the zone has none. *)
AllLayouts ==
  [zones : UNION {[S -> 0..MaxNumber] : S \in SUBSET EntityIds},
   seats : UNION {[S -> [zone : EntityIds, active : BOOLEAN]] : S \in SUBSET EntityIds}]

Entities == [type : {"zone", "seat"}, id : EntityIds]

VenueRows == [organizer : Organizers, slug : Slugs]
TemplateRows == [venue : VenueIds, mode : LayoutModes]

(* assigned: the API chose the number, not the client. *)
VersionRows == [template : TemplateIds, number : 1..(MaxNumber + 1), layout : Layouts,
                assigned : BOOLEAN]
SnapshotRows == [version : VersionIds, layout : Layouts]

(* limit 0: the binding has none. *)
BindingRows == [event : Events, entity : Entities, ticketType : TicketTypes,
                limit : 0..MaxNumber]

(* The capability each insertion asks for, by the action it is audited as. *)
CapabilityFor ==
  [venue_created |-> "manageVenues",
   venue_layout_template_created |-> "manageVenueLayouts",
   venue_layout_version_created |-> "manageVenueLayouts",
   event_layout_snapshot_created |-> "createEventLayoutSnapshot",
   event_layout_inventory_binding_created |-> "manageLayoutInventoryBindings"]

ASSUME VenueAssumption ==
  /\ OrganizerOf \in [Events -> Organizers]
  /\ EventOf \in [TicketTypes -> Events]
  /\ MemberRoles \subseteq OrganizerRoles
  /\ Layouts \subseteq AllLayouts
  /\ MaxNumber \in Nat
  /\ NoRow \notin VenueRows \cup TemplateRows \cup VersionRows \cup SnapshotRows

VARIABLES
  role,      \* Membership.role of each user in each organizer, "none" without a row
  venue,     \* Venue rows
  template,  \* VenueLayoutTemplate rows
  version,   \* VenueLayoutVersion rows
  snapshot,  \* the event's EventLayoutSnapshot row
  binding,   \* EventLayoutInventoryBinding rows
  audit,     \* AuditLog rows of these insertions
  request    \* what each request has read and is about to write

rows == <<venue, template, version, snapshot, binding, audit>>

vars == <<role, rows, request>>

Idle == [at |-> "idle"]

(* Who acts, for which organizer, with the role that was read. *)
Actors == [user : Users, organizer : Organizers, role : MemberRoles]

VenueTypeOK ==
  /\ role \in [Users -> [Organizers -> MemberRoles \cup {"none"}]]
  /\ venue \in [VenueIds -> VenueRows \cup {NoRow}]
  /\ template \in [TemplateIds -> TemplateRows \cup {NoRow}]
  /\ version \in [VersionIds -> VersionRows \cup {NoRow}]
  /\ snapshot \in [Events -> SnapshotRows \cup {NoRow}]
  /\ binding \subseteq BindingRows
  /\ audit \subseteq [action : DOMAIN CapabilityFor, by : Actors,
       entity : VenueIds \cup TemplateIds \cup VersionIds \cup Events \cup BindingRows]
  /\ request \in [Requests -> {Idle}
       \cup [at : {"venue"}, by : Actors, row : VenueRows]
       \cup [at : {"template"}, by : Actors, row : TemplateRows]
       \cup [at : {"version"}, by : Actors, template : TemplateIds, layout : Layouts]
       \cup [at : {"numbered"}, by : Actors, row : VersionRows]
       \cup [at : {"snapshot"}, by : Actors, event : Events, row : SnapshotRows]
       \cup [at : {"binding"}, by : Actors, row : BindingRows]]

VenueInit ==
  /\ role \in [Users -> [Organizers -> MemberRoles \cup {"none"}]]
  /\ venue = [v \in VenueIds |-> NoRow]
  /\ template = [t \in TemplateIds |-> NoRow]
  /\ version = [n \in VersionIds |-> NoRow]
  /\ snapshot = [e \in Events |-> NoRow]
  /\ binding = {}
  /\ audit = {}
  /\ request = [r \in Requests |-> Idle]

-----------------------------------------------------------------------------
(* Authorization and lookups. *)

(* Mutant of Can: a signed-in user is enough. *)
Anyone(u, o, capability) == TRUE

(* requireOrganizerCapability *)
Can(u, o, capability) == hasAdminCapability(role[u][o], capability)

By(u, o) == [user |-> u, organizer |-> o, role |-> role[u][o]]

TemplateOrganizer(t) == venue[template[t].venue].organizer

VersionOrganizer(n) == TemplateOrganizer(version[n].template)

(* validateLayoutDataForMode *)
ValidLayout(l, mode) ==
  /\ \A s \in DOMAIN l.seats : l.seats[s].zone \in DOMAIN l.zones
  /\ mode = "seated" => \E s \in DOMAIN l.seats : l.seats[s].active
  /\ mode = "mixed" => DOMAIN l.zones # {}

(* findSnapshotLayoutEntity *)
HasEntity(l, entity) ==
  entity.id \in (IF entity.type = "zone" THEN DOMAIN l.zones ELSE DOMAIN l.seats)

NumbersOf(t) == {version[n].number : n \in {m \in VersionIds :
                    version[m] # NoRow /\ version[m].template = t}}

(* A request passes its checks, and keeps what it read. *)
Begin(r, what) ==
  /\ request[r] = Idle
  /\ request' = [request EXCEPT ![r] = what]
  /\ UNCHANGED <<role, rows>>

Finish(r) == request' = [request EXCEPT ![r] = Idle] /\ UNCHANGED role

Audited(r, action, entity) ==
  audit' = audit \cup {[action |-> action, by |-> request[r].by, entity |-> entity]}

-----------------------------------------------------------------------------
(* Venues and templates. *)

BeginVenue(r, u, o, slug) ==
  /\ Can(u, o, "manageVenues")
  /\ Begin(r, [at |-> "venue", by |-> By(u, o), row |-> [organizer |-> o, slug |-> slug]])

(* Under the unique index on organizer and slug. *)
CreateVenue(r, v) ==
  /\ request[r].at = "venue"
  /\ venue[v] = NoRow
  /\ \A w \in VenueIds : venue[w] # request[r].row
  /\ venue' = [venue EXCEPT ![v] = request[r].row]
  /\ Audited(r, "venue_created", v)
  /\ Finish(r)
  /\ UNCHANGED <<template, version, snapshot, binding>>

BeginTemplate(r, u, v, mode) ==
  /\ venue[v] # NoRow
  /\ Can(u, venue[v].organizer, "manageVenueLayouts")
  /\ Begin(r, [at |-> "template", by |-> By(u, venue[v].organizer),
               row |-> [venue |-> v, mode |-> mode]])

CreateTemplate(r, t) ==
  /\ request[r].at = "template"
  /\ template[t] = NoRow
  /\ template' = [template EXCEPT ![t] = request[r].row]
  /\ Audited(r, "venue_layout_template_created", t)
  /\ Finish(r)
  /\ UNCHANGED <<venue, version, snapshot, binding>>

-----------------------------------------------------------------------------
(* Versions. *)

Numbered(by, t, l, number, assigned) ==
  [at |-> "numbered", by |-> by,
   row |-> [template |-> t, number |-> number, layout |-> l, assigned |-> assigned]]

(* The client gives the number, or leaves it to the API. *)
BeginVersion(r, u, t, l) ==
  /\ template[t] # NoRow
  /\ Can(u, TemplateOrganizer(t), "manageVenueLayouts")
  /\ ValidLayout(l, template[t].mode)
  /\ LET by == By(u, TemplateOrganizer(t))
     IN  \/ Begin(r, [at |-> "version", by |-> by, template |-> t, layout |-> l])
         \/ \E number \in 1..MaxNumber : Begin(r, Numbered(by, t, l, number, FALSE))

(* The highest number of the template's versions, and one more. *)
IsNext(t, k) == k - 1 \in NumbersOf(t) \cup {0} /\ \A i \in NumbersOf(t) : i < k

(* The first statement of the transaction; a rival may take the number yet. *)
ReadNumber(r) ==
  /\ request[r].at = "version"
  /\ \E k \in 1..(MaxNumber + 1) :
       /\ IsNext(request[r].template, k)
       /\ request' = [request EXCEPT ![r] = Numbered(@.by, @.template, @.layout, k, TRUE)]
  /\ UNCHANGED <<role, rows>>

(* Mutant of NumberFree: the unique index on template and number is lost. *)
NumberIgnored(t, number) == TRUE

NumberFree(t, number) == number \notin NumbersOf(t)

CreateVersion(r, n) ==
  /\ request[r].at = "numbered"
  /\ version[n] = NoRow
  /\ NumberFree(request[r].row.template, request[r].row.number)
  /\ version' = [version EXCEPT ![n] = request[r].row]
  /\ Audited(r, "venue_layout_version_created", n)
  /\ Finish(r)
  /\ UNCHANGED <<venue, template, snapshot, binding>>

-----------------------------------------------------------------------------
(* An event's layout. *)

(* Mutant of OwnVersion: any published version will do. *)
AnyVersion(o, n) == version[n] # NoRow

OwnVersion(o, n) == version[n] # NoRow /\ VersionOrganizer(n) = o

BeginSnapshot(r, u, o, e, n) ==
  /\ Can(u, o, "createEventLayoutSnapshot")
  /\ OrganizerOf[e] = o
  /\ OwnVersion(o, n)
  /\ Begin(r, [at |-> "snapshot", by |-> By(u, o), event |-> e,
               row |-> [version |-> n, layout |-> version[n].layout]])

(* Under the unique index on the event. *)
CreateSnapshot(r) ==
  /\ request[r].at = "snapshot"
  /\ snapshot[request[r].event] = NoRow
  /\ snapshot' = [snapshot EXCEPT ![request[r].event] = request[r].row]
  /\ Audited(r, "event_layout_snapshot_created", request[r].event)
  /\ Finish(r)
  /\ UNCHANGED <<venue, template, version, binding>>

(* Mutant of LimitFits: a seat is taken for a zone without capacity. *)
LimitFitsZone(l, entity, limit) ==
  entity.type = "zone" => l.zones[entity.id] = 0 \/ limit <= l.zones[entity.id]

(* A seat takes one person, a zone at most its capacity. *)
LimitFits(l, entity, limit) ==
  IF entity.type = "seat" THEN limit \in {0, 1}
  ELSE l.zones[entity.id] = 0 \/ limit <= l.zones[entity.id]

BeginBinding(r, u, o, row) ==
  /\ Can(u, o, "manageLayoutInventoryBindings")
  /\ OrganizerOf[row.event] = o
  /\ snapshot[row.event] # NoRow
  /\ EventOf[row.ticketType] = row.event
  /\ HasEntity(snapshot[row.event].layout, row.entity)
  /\ LimitFits(snapshot[row.event].layout, row.entity, row.limit)
  /\ Begin(r, [at |-> "binding", by |-> By(u, o), row |-> row])

SameKey(a, b) == a.event = b.event /\ a.entity = b.entity /\ a.ticketType = b.ticketType

(* Under the unique index on snapshot, entity and ticket type. *)
CreateBinding(r) ==
  /\ request[r].at = "binding"
  /\ \A b \in binding : ~SameKey(b, request[r].row)
  /\ binding' = binding \cup {request[r].row}
  /\ Audited(r, "event_layout_inventory_binding_created", request[r].row)
  /\ Finish(r)
  /\ UNCHANGED <<venue, template, version, snapshot>>

(* A unique index refuses the row (409), or the transaction fails. *)
Refuse(r) == request[r] # Idle /\ Finish(r) /\ UNCHANGED rows

(* The organizer's owners add, change and remove members. *)
ChangeMembership(u, o, new) ==
  /\ role[u][o] # new
  /\ role' = [role EXCEPT ![u][o] = new]
  /\ UNCHANGED <<rows, request>>

VenueNext ==
  \/ \E r \in Requests :
       \/ \E u \in Users :
            \/ \E o \in Organizers, slug \in Slugs : BeginVenue(r, u, o, slug)
            \/ \E v \in VenueIds, mode \in LayoutModes : BeginTemplate(r, u, v, mode)
            \/ \E t \in TemplateIds, l \in Layouts : BeginVersion(r, u, t, l)
            \/ \E o \in Organizers, e \in Events, n \in VersionIds : BeginSnapshot(r, u, o, e, n)
            \/ \E o \in Organizers, row \in BindingRows : BeginBinding(r, u, o, row)
       \/ \E v \in VenueIds : CreateVenue(r, v)
       \/ \E t \in TemplateIds : CreateTemplate(r, t)
       \/ ReadNumber(r)
       \/ \E n \in VersionIds : CreateVersion(r, n)
       \/ CreateSnapshot(r)
       \/ CreateBinding(r)
       \/ Refuse(r)
  \/ \E u \in Users, o \in Organizers, new \in MemberRoles \cup {"none"} :
       ChangeMembership(u, o, new)

VenueSpec == VenueInit /\ [][VenueNext]_vars

-----------------------------------------------------------------------------
(* What the GET routes show a user. *)

VenuesShown(u) == {v \in VenueIds : venue[v] # NoRow /\ Can(u, venue[v].organizer, "viewVenues")}

TemplatesShown(u) ==
  {t \in TemplateIds : template[t] # NoRow /\ Can(u, TemplateOrganizer(t), "viewVenueLayouts")}

VersionsShown(u) ==
  {n \in VersionIds : version[n] # NoRow /\ Can(u, VersionOrganizer(n), "viewVenueLayouts")}

SnapshotsShown(u) ==
  {e \in Events : snapshot[e] # NoRow /\ Can(u, OrganizerOf[e], "viewEventLayoutSnapshot")}

BindingsShown(u) ==
  {b \in binding : Can(u, OrganizerOf[b.event], "viewLayoutInventoryBindings")}

-----------------------------------------------------------------------------
(* Properties. *)

(* No two versions of a template share a number, and one that was given     *)
(* out leaves no gap below it, however the requests overlap that read the   *)
(* maximum before they insert.                                              *)
VersionsNumbered ==
  \A n \in VersionIds : version[n] # NoRow =>
    /\ \A m \in VersionIds \ {n} : version[m] # NoRow =>
         <<version[m].template, version[m].number>> # <<version[n].template, version[n].number>>
    /\ version[n].assigned /\ version[n].number > 1 =>
         version[n].number - 1 \in NumbersOf(version[n].template)

(* docs/API.md: the snapshot is a whole copy of its version, and a binding  *)
(* ties a ticket type of the event to a zone or seat the snapshot has, once,*)
(* and to no more people than there is room for.                            *)
LayoutsFit ==
  /\ \A e \in Events : snapshot[e] # NoRow =>
       snapshot[e].layout = version[snapshot[e].version].layout
  /\ \A b \in binding :
       /\ EventOf[b.ticketType] = b.event
       /\ snapshot[b.event] # NoRow
       /\ LET l == snapshot[b.event].layout
          IN  /\ HasEntity(l, b.entity)
              /\ b.entity.type = "seat" => b.limit <= 1
              /\ b.entity.type = "zone" /\ l.zones[b.entity.id] > 0 =>
                   b.limit <= l.zones[b.entity.id]
       /\ \A c \in binding \ {b} : ~SameKey(b, c)

(* The organizer whose row an audit row is about. *)
OwnerOf(a) ==
  CASE a.action = "venue_created" -> venue[a.entity].organizer
    [] a.action = "venue_layout_template_created" -> TemplateOrganizer(a.entity)
    [] a.action = "venue_layout_version_created" -> VersionOrganizer(a.entity)
    [] a.action = "event_layout_snapshot_created" -> OrganizerOf[a.entity]
    [] OTHER -> OrganizerOf[a.entity.event]

AuditedAs(action) == {a.entity : a \in {b \in audit : b.action = action}}

(* Every row was inserted by one audited request of somebody whose role in  *)
(* the row's own organizer allowed it, through whatever chain of rows that  *)
(* organizer is found; and an event never gets the layout of another        *)
(* organizer's venue.                                                       *)
RowsStayWithTheirOrganizer ==
  /\ \A a \in audit :
       /\ a.by.organizer = OwnerOf(a)
       /\ hasAdminCapability(a.by.role, CapabilityFor[a.action])
       /\ \A b \in audit : a.action = b.action /\ a.entity = b.entity => a = b
  /\ AuditedAs("venue_created") = {v \in VenueIds : venue[v] # NoRow}
  /\ AuditedAs("venue_layout_template_created") = {t \in TemplateIds : template[t] # NoRow}
  /\ AuditedAs("venue_layout_version_created") = {n \in VersionIds : version[n] # NoRow}
  /\ AuditedAs("event_layout_snapshot_created") = {e \in Events : snapshot[e] # NoRow}
  /\ AuditedAs("event_layout_inventory_binding_created") = binding
  /\ \A e \in Events : snapshot[e] # NoRow =>
       VersionOrganizer(snapshot[e].version) = OrganizerOf[e]

(* Whoever is shown an event's layout can look up the venue and version it  *)
(* was copied from and its bindings.                                        *)
WhatIsShownHangsTogether ==
  \A u \in Users :
    /\ \A e \in SnapshotsShown(u) :
         /\ snapshot[e].version \in VersionsShown(u)
         /\ {b \in binding : b.event = e} \subseteq BindingsShown(u)
    /\ \A n \in VersionsShown(u) : version[n].template \in TemplatesShown(u)
    /\ \A t \in TemplatesShown(u) : template[t].venue \in VenuesShown(u)
=============================================================================
