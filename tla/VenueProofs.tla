----------------------------- MODULE VenueProofs -----------------------------
(***************************************************************************)
(* Theorems about VenueLayouts, for any number of organizers, users, rows  *)
(* and requests in progress, and any layouts.                              *)
(***************************************************************************)
EXTENDS VenueLayouts, TLAPS

-----------------------------------------------------------------------------
(* The inductive invariant. *)

(* A row that another refers to exists. *)
RowsExist ==
  /\ \A t \in TemplateIds : template[t] # NoRow => venue[template[t].venue] # NoRow
  /\ \A n \in VersionIds : version[n] # NoRow => template[version[n].template] # NoRow
  /\ \A e \in Events : snapshot[e] # NoRow => version[snapshot[e].version] # NoRow

(* The action that a request is audited as. *)
ActionOf ==
  [venue |-> "venue_created",
   template |-> "venue_layout_template_created",
   version |-> "venue_layout_version_created",
   numbered |-> "venue_layout_version_created",
   snapshot |-> "event_layout_snapshot_created",
   binding |-> "event_layout_inventory_binding_created"]

Allowed(x) ==
  x.at # "idle" => hasAdminCapability(x.by.role, CapabilityFor[ActionOf[x.at]])

(* A template of the organizer the request acts for. *)
OwnTemplate(by, t) == template[t] # NoRow /\ by.organizer = TemplateOrganizer(t)

VenueChecked(x) == x.at = "venue" => x.by.organizer = x.row.organizer

TemplateChecked(x) ==
  x.at = "template" => venue[x.row.venue] # NoRow /\ x.by.organizer = venue[x.row.venue].organizer

(* A number that the API assigned follows one that is taken. *)
VersionChecked(x) ==
  /\ x.at = "version" => OwnTemplate(x.by, x.template)
  /\ x.at = "numbered" =>
       /\ OwnTemplate(x.by, x.row.template)
       /\ x.row.assigned /\ x.row.number > 1 => x.row.number - 1 \in NumbersOf(x.row.template)

SnapshotChecked(x) ==
  x.at = "snapshot" =>
    /\ x.by.organizer = OrganizerOf[x.event]
    /\ OwnVersion(OrganizerOf[x.event], x.row.version)
    /\ x.row.layout = version[x.row.version].layout

BindingChecked(x) ==
  x.at = "binding" =>
    /\ x.by.organizer = OrganizerOf[x.row.event]
    /\ EventOf[x.row.ticketType] = x.row.event
    /\ snapshot[x.row.event] # NoRow
    /\ HasEntity(snapshot[x.row.event].layout, x.row.entity)
    /\ LimitFits(snapshot[x.row.event].layout, x.row.entity, x.row.limit)

(* What a request has checked is still so when it writes.                   *)
Checked(x) ==
  /\ Allowed(x) /\ VenueChecked(x) /\ TemplateChecked(x) /\ VersionChecked(x)
  /\ SnapshotChecked(x) /\ BindingChecked(x)

VenueInv ==
  /\ VenueTypeOK /\ RowsExist
  /\ \A r \in Requests : Checked(request[r])
  /\ VersionsNumbered /\ LayoutsFit /\ RowsStayWithTheirOrganizer

-----------------------------------------------------------------------------
(* Rows are only inserted, so that what was found stays.                    *)

RowsGrow ==
  /\ \A v \in VenueIds : venue[v] # NoRow => venue'[v] = venue[v]
  /\ \A t \in TemplateIds : template[t] # NoRow => template'[t] = template[t]
  /\ \A n \in VersionIds : version[n] # NoRow => version'[n] = version[n]
  /\ \A e \in Events : snapshot[e] # NoRow => snapshot'[e] = snapshot[e]

(* A row that exists has its fields. *)
LEMMA RowFields ==
  ASSUME VenueTypeOK
  PROVE  /\ \A v \in VenueIds : venue[v] # NoRow => venue[v] \in VenueRows
         /\ \A t \in TemplateIds : template[t] # NoRow =>
              template[t] \in TemplateRows /\ template[t].venue \in VenueIds
         /\ \A n \in VersionIds : version[n] # NoRow =>
              /\ version[n] \in VersionRows /\ version[n].template \in TemplateIds
              /\ version[n].number \in Nat /\ version[n].layout \in Layouts
         /\ \A e \in Events : snapshot[e] # NoRow =>
              snapshot[e] \in SnapshotRows /\ snapshot[e].version \in VersionIds
<1>1. /\ \A v \in VenueIds : venue[v] # NoRow => venue[v] \in VenueRows
      /\ \A t \in TemplateIds : template[t] # NoRow => template[t] \in TemplateRows
      /\ \A n \in VersionIds : version[n] # NoRow => version[n] \in VersionRows
      /\ \A e \in Events : snapshot[e] # NoRow => snapshot[e] \in SnapshotRows
  BY DEF VenueTypeOK
<1>2. \A x \in VersionRows :
        x.template \in TemplateIds /\ x.number \in Nat /\ x.layout \in Layouts
  BY VenueAssumption DEF VersionRows
<1>3. \A x \in TemplateRows : x.venue \in VenueIds
  BY DEF TemplateRows
<1>4. \A x \in SnapshotRows : x.version \in VersionIds
  BY DEF SnapshotRows
<1>5. QED
  BY <1>1, <1>2, <1>3, <1>4

LEMMA RequestFields ==
  ASSUME VenueTypeOK, NEW r \in Requests
  PROVE  /\ request[r].at \in {"idle", "venue", "template", "version", "numbered", "snapshot", "binding"}
         /\ request[r].at = "idle" => request[r] = Idle
         /\ request[r].at # "idle" => request[r].by \in Actors
         /\ request[r].at = "venue" => request[r].row \in VenueRows
         /\ request[r].at = "template" => request[r].row \in TemplateRows
         /\ request[r].at = "version" =>
              request[r].template \in TemplateIds /\ request[r].layout \in Layouts
         /\ request[r].at = "numbered" => request[r].row \in VersionRows
         /\ request[r].at = "snapshot" =>
              request[r].event \in Events /\ request[r].row \in SnapshotRows
         /\ request[r].at = "binding" => request[r].row \in BindingRows
BY DEF VenueTypeOK, Idle

(* The organizer that a row belongs to does not change. *)
LEMMA OrganizersStay ==
  ASSUME VenueTypeOK, RowsExist, RowsGrow
  PROVE  /\ \A t \in TemplateIds : template[t] # NoRow =>
              TemplateOrganizer(t)' = TemplateOrganizer(t)
         /\ \A n \in VersionIds : version[n] # NoRow =>
              VersionOrganizer(n)' = VersionOrganizer(n)
<1>1. \A t \in TemplateIds : template[t] # NoRow =>
        venue'[template'[t].venue].organizer = venue[template[t].venue].organizer
  BY RowFields DEF RowsExist, RowsGrow
<1>2. \A n \in VersionIds : version[n] # NoRow =>
        /\ version'[n].template = version[n].template
        /\ version[n].template \in TemplateIds /\ template[version[n].template] # NoRow
  BY RowFields DEF RowsExist, RowsGrow
<1>3. QED
  BY <1>1, <1>2 DEF TemplateOrganizer, VersionOrganizer

(* Nor is a number of a template's versions given up. *)
LEMMA NumbersStay ==
  ASSUME VenueTypeOK, RowsGrow, NEW t, NEW k \in NumbersOf(t)
  PROVE  k \in NumbersOf(t)'
<1>1. PICK n \in VersionIds : version[n] # NoRow /\ version[n].template = t /\ version[n].number = k
  BY DEF NumbersOf
<1>2. version'[n] = version[n]
  BY <1>1 DEF RowsGrow
<1>3. QED
  BY <1>1, <1>2 DEF NumbersOf

(* Neither does what a request has checked. *)
LEMMA ChecksStay ==
  ASSUME VenueTypeOK, RowsExist, RowsGrow, NEW r \in Requests, request'[r] = request[r],
         Checked(request[r])
  PROVE  Checked(request[r])'
<1> DEFINE x == request[r]
<1>1. Allowed(request[r])' /\ VenueChecked(request[r])'
  BY DEF Checked, Allowed, VenueChecked
<1>2. TemplateChecked(request[r])'
  <2>1. CASE x.at = "template"
    <3>1. x.row.venue \in VenueIds /\ venue[x.row.venue] # NoRow
      BY <2>1, RequestFields DEF Checked, TemplateChecked, TemplateRows
    <3>2. QED
      BY <2>1, <3>1 DEF Checked, TemplateChecked, RowsGrow
  <2>2. QED
    BY <2>1 DEF TemplateChecked
<1>3. ASSUME NEW by, NEW t \in TemplateIds, OwnTemplate(by, t)
      PROVE  OwnTemplate(by, t)'
  BY <1>3, OrganizersStay DEF OwnTemplate, RowsGrow
<1>4. VersionChecked(request[r])'
  <2>1. CASE x.at = "version"
    <3>1. x.template \in TemplateIds /\ OwnTemplate(x.by, x.template)
      BY <2>1, RequestFields DEF Checked, VersionChecked
    <3>2. QED
      BY <1>3, <2>1, <3>1 DEF VersionChecked
  <2>2. CASE x.at = "numbered"
    <3>1. /\ x.row.template \in TemplateIds /\ OwnTemplate(x.by, x.row.template)
          /\ x.row.assigned /\ x.row.number > 1 => x.row.number - 1 \in NumbersOf(x.row.template)
      BY <2>2, RequestFields DEF Checked, VersionChecked, VersionRows
    <3>2. OwnTemplate(x.by, x.row.template)'
      BY <1>3, <3>1
    <3>3. x.row.assigned /\ x.row.number > 1 => x.row.number - 1 \in NumbersOf(x.row.template)'
      BY <3>1, NumbersStay
    <3>4. QED
      BY <2>2, <3>2, <3>3 DEF VersionChecked
  <2>3. QED
    BY <2>1, <2>2 DEF VersionChecked
<1>5. SnapshotChecked(request[r])'
  <2>1. CASE x.at = "snapshot"
    <3>1. /\ x.row.version \in VersionIds /\ version[x.row.version] # NoRow
          /\ x.by.organizer = OrganizerOf[x.event]
          /\ VersionOrganizer(x.row.version) = OrganizerOf[x.event]
          /\ x.row.layout = version[x.row.version].layout
      BY <2>1, RequestFields DEF Checked, SnapshotChecked, OwnVersion, SnapshotRows
    <3>2. version'[x.row.version] = version[x.row.version]
      BY <3>1 DEF RowsGrow
    <3>3. VersionOrganizer(x.row.version)' = OrganizerOf[x.event]
      BY <3>1, OrganizersStay
    <3>4. QED
      BY <2>1, <3>1, <3>2, <3>3 DEF SnapshotChecked, OwnVersion
  <2>2. QED
    BY <2>1 DEF SnapshotChecked
<1>6. BindingChecked(request[r])'
  <2>1. CASE x.at = "binding"
    <3>1. x.row.event \in Events /\ snapshot[x.row.event] # NoRow
      BY <2>1, RequestFields DEF Checked, BindingChecked, BindingRows
    <3>2. snapshot'[x.row.event] = snapshot[x.row.event]
      BY <3>1 DEF RowsGrow
    <3>3. QED
      BY <2>1, <3>2 DEF Checked, BindingChecked
  <2>2. QED
    BY <2>1 DEF BindingChecked
<1>7. QED
  BY <1>1, <1>2, <1>4, <1>5, <1>6 DEF Checked

-----------------------------------------------------------------------------
(* Steps that write no row. *)

LEMMA RowsUnchanged ==
  ASSUME VenueInv, UNCHANGED rows
  PROVE  /\ RowsGrow /\ RowsExist'
         /\ VersionsNumbered' /\ LayoutsFit' /\ RowsStayWithTheirOrganizer'
<1>1. UNCHANGED <<venue, template, version, snapshot, binding, audit>>
  BY DEF rows
<1>2. RowsGrow
  BY <1>1 DEF RowsGrow
<1>3. RowsExist'
  BY <1>1 DEF VenueInv, RowsExist
<1>4. VersionsNumbered'
  BY <1>1 DEF VenueInv, VersionsNumbered, NumbersOf
<1>5. LayoutsFit'
  BY <1>1 DEF VenueInv, LayoutsFit
<1>6. RowsStayWithTheirOrganizer'
  BY <1>1
     DEF VenueInv, RowsStayWithTheirOrganizer, OwnerOf, AuditedAs, VersionOrganizer, TemplateOrganizer
<1>7. QED
  BY <1>2, <1>3, <1>4, <1>5, <1>6

(* A request in progress, as VenueTypeOK has it.                            *)
InProgress(x) ==
  \/ x \in [at : {"venue"}, by : Actors, row : VenueRows]
  \/ x \in [at : {"template"}, by : Actors, row : TemplateRows]
  \/ x \in [at : {"version"}, by : Actors, template : TemplateIds, layout : Layouts]
  \/ x \in [at : {"numbered"}, by : Actors, row : VersionRows]
  \/ x \in [at : {"snapshot"}, by : Actors, event : Events, row : SnapshotRows]
  \/ x \in [at : {"binding"}, by : Actors, row : BindingRows]

(* One request moves on or ends. *)
LEMMA OneRequestMoves ==
  ASSUME VenueInv, NEW r \in Requests, NEW x, x = Idle \/ InProgress(x), Checked(x),
         request' = [request EXCEPT ![r] = x], UNCHANGED <<role, rows>>
  PROVE  VenueInv'
<1>1. /\ RowsGrow /\ RowsExist'
      /\ VersionsNumbered' /\ LayoutsFit' /\ RowsStayWithTheirOrganizer'
  BY RowsUnchanged
<1>2. UNCHANGED <<venue, template, version, snapshot, binding, audit>>
  BY DEF rows
<1>3. VenueTypeOK'
  <2>1. \A S : request \in [Requests -> S] /\ x \in S => request' \in [Requests -> S]
    OBVIOUS
  <2>2. QED
    BY <1>2, <2>1 DEF VenueInv, VenueTypeOK, InProgress
<1>4. request'[r] = x /\ \A q \in Requests \ {r} : request'[q] = request[q]
  BY DEF VenueInv, VenueTypeOK
<1>5. \A q \in Requests \ {r} : Checked(request[q])'
  BY <1>1, <1>4, ChecksStay DEF VenueInv
<1>6. Checked(request[r])'
  <2>1. Allowed(request[r])' /\ VenueChecked(request[r])' /\ TemplateChecked(request[r])'
    BY <1>2, <1>4 DEF Checked, Allowed, VenueChecked, TemplateChecked
  <2>2. VersionChecked(request[r])'
    BY <1>2, <1>4 DEF Checked, VersionChecked, OwnTemplate, NumbersOf, TemplateOrganizer
  <2>3. SnapshotChecked(request[r])'
    BY <1>2, <1>4 DEF Checked, SnapshotChecked, OwnVersion, VersionOrganizer, TemplateOrganizer
  <2>4. BindingChecked(request[r])'
    BY <1>2, <1>4 DEF Checked, BindingChecked
  <2>5. QED
    BY <2>1, <2>2, <2>3, <2>4 DEF Checked
<1>7. QED
  BY <1>1, <1>3, <1>5, <1>6 DEF VenueInv

LEMMA IdleIsChecked == Checked(Idle)
BY DEF Checked, Idle, Allowed, VenueChecked, TemplateChecked, VersionChecked, SnapshotChecked,
       BindingChecked

LEMMA RefuseKeeps ==
  ASSUME VenueInv, NEW r \in Requests, Refuse(r)
  PROVE  VenueInv'
BY OneRequestMoves, IdleIsChecked DEF Refuse, Finish

LEMMA ChangeMembershipKeeps ==
  ASSUME VenueInv, NEW u \in Users, NEW o \in Organizers, NEW new \in MemberRoles \cup {"none"},
         ChangeMembership(u, o, new)
  PROVE  VenueInv'
<1>1. role' = [role EXCEPT ![u][o] = new] /\ UNCHANGED rows /\ request' = request
  BY DEF ChangeMembership
<1>2. /\ RowsGrow /\ RowsExist'
      /\ VersionsNumbered' /\ LayoutsFit' /\ RowsStayWithTheirOrganizer'
  BY <1>1, RowsUnchanged
<1>3. VenueTypeOK'
  BY <1>1 DEF VenueInv, VenueTypeOK, rows
<1>4. \A q \in Requests : Checked(request[q])'
  BY <1>1, <1>2, ChecksStay DEF VenueInv
<1>5. QED
  BY <1>2, <1>3, <1>4 DEF VenueInv

-----------------------------------------------------------------------------
(* Requests are checked. *)

LEMMA ActorTypes ==
  ASSUME VenueTypeOK, NEW u \in Users, NEW o \in Organizers, NEW capability, Can(u, o, capability)
  PROVE  /\ By(u, o) \in Actors /\ By(u, o).organizer = o
         /\ hasAdminCapability(By(u, o).role, capability)
<1>1. role[u][o] \in MemberRoles \cup {"none"} /\ role[u][o] # "none"
  BY DEF VenueTypeOK, Can, hasAdminCapability, OrganizerRoles
<1>2. QED
  BY <1>1 DEF By, Actors, Can

LEMMA BeginVenueKeeps ==
  ASSUME VenueInv, NEW r \in Requests, NEW u \in Users, NEW o \in Organizers, NEW slug \in Slugs,
         BeginVenue(r, u, o, slug)
  PROVE  VenueInv'
<1> DEFINE row == [organizer |-> o, slug |-> slug]
<1>1. PICK by : by = By(u, o)
  OBVIOUS
<1>2. by \in Actors /\ by.organizer = o /\ hasAdminCapability(by.role, "manageVenues")
  BY <1>1, ActorTypes DEF VenueInv, BeginVenue
<1> DEFINE x == [at |-> "venue", by |-> by, row |-> row]
<1>3. request' = [request EXCEPT ![r] = x] /\ UNCHANGED <<role, rows>>
  BY <1>1 DEF BeginVenue, Begin
<1>4. InProgress(x)
  BY <1>2 DEF InProgress, VenueRows
<1>5. Checked(x)
  BY <1>2
     DEF Checked, Allowed, VenueChecked, TemplateChecked, VersionChecked, SnapshotChecked,
         BindingChecked, ActionOf, CapabilityFor
<1> HIDE DEF x
<1>6. QED
  BY <1>3, <1>4, <1>5, OneRequestMoves

LEMMA BeginTemplateKeeps ==
  ASSUME VenueInv, NEW r \in Requests, NEW u \in Users, NEW v \in VenueIds, NEW mode \in LayoutModes,
         BeginTemplate(r, u, v, mode)
  PROVE  VenueInv'
<1> DEFINE row == [venue |-> v, mode |-> mode]
<1>1. venue[v] # NoRow /\ venue[v].organizer \in Organizers
  BY RowFields DEF VenueInv, BeginTemplate, VenueRows
<1>2. PICK by : by = By(u, venue[v].organizer)
  OBVIOUS
<1>3. /\ by \in Actors /\ by.organizer = venue[v].organizer
      /\ hasAdminCapability(by.role, "manageVenueLayouts")
  BY <1>1, <1>2, ActorTypes DEF VenueInv, BeginTemplate
<1> DEFINE x == [at |-> "template", by |-> by, row |-> row]
<1>4. request' = [request EXCEPT ![r] = x] /\ UNCHANGED <<role, rows>>
  BY <1>2 DEF BeginTemplate, Begin
<1>5. InProgress(x)
  BY <1>3 DEF InProgress, TemplateRows
<1>6. Checked(x)
  BY <1>1, <1>3
     DEF Checked, Allowed, VenueChecked, TemplateChecked, VersionChecked, SnapshotChecked,
         BindingChecked, ActionOf, CapabilityFor
<1> HIDE DEF x
<1>7. QED
  BY <1>4, <1>5, <1>6, OneRequestMoves

(* The organizer of a template's venue, and of a version's.                 *)
LEMMA OrganizerTypes ==
  ASSUME VenueTypeOK, RowsExist
  PROVE  /\ \A t \in TemplateIds : template[t] # NoRow => TemplateOrganizer(t) \in Organizers
         /\ \A n \in VersionIds : version[n] # NoRow => VersionOrganizer(n) \in Organizers
<1>1. \A t \in TemplateIds : template[t] # NoRow => venue[template[t].venue] \in VenueRows
  BY RowFields DEF RowsExist
<1>2. \A t \in TemplateIds : template[t] # NoRow => TemplateOrganizer(t) \in Organizers
  BY <1>1 DEF VenueRows, TemplateOrganizer
<1>3. QED
  BY <1>2, RowFields DEF RowsExist, VersionOrganizer

LEMMA BeginVersionKeeps ==
  ASSUME VenueInv, NEW r \in Requests, NEW u \in Users, NEW t \in TemplateIds, NEW l \in Layouts,
         BeginVersion(r, u, t, l)
  PROVE  VenueInv'
<1>1. PICK by : by = By(u, TemplateOrganizer(t))
  OBVIOUS
<1>2. /\ by \in Actors /\ OwnTemplate(by, t)
      /\ hasAdminCapability(by.role, "manageVenueLayouts")
  BY <1>1, ActorTypes, OrganizerTypes DEF VenueInv, BeginVersion, OwnTemplate
<1>3. CASE Begin(r, [at |-> "version", by |-> by, template |-> t, layout |-> l])
  <2> DEFINE x == [at |-> "version", by |-> by, template |-> t, layout |-> l]
  <2>1. request' = [request EXCEPT ![r] = x] /\ UNCHANGED <<role, rows>>
    BY <1>3 DEF Begin
  <2>2. InProgress(x)
    BY <1>2 DEF InProgress
  <2>3. Checked(x)
    BY <1>2
       DEF Checked, Allowed, VenueChecked, TemplateChecked, VersionChecked, SnapshotChecked,
           BindingChecked, ActionOf, CapabilityFor
  <2> HIDE DEF x
  <2>4. QED
    BY <2>1, <2>2, <2>3, OneRequestMoves
<1>4. ASSUME NEW number \in 1..MaxNumber, Begin(r, Numbered(by, t, l, number, FALSE))
      PROVE  VenueInv'
  <2> DEFINE x == Numbered(by, t, l, number, FALSE)
  <2>1. request' = [request EXCEPT ![r] = x] /\ UNCHANGED <<role, rows>>
    BY <1>4 DEF Begin
  <2>2. number \in 1..(MaxNumber + 1)
    BY VenueAssumption
  <2>3. InProgress(x)
    BY <1>2, <2>2 DEF InProgress, Numbered, VersionRows
  <2>4. Checked(x)
    BY <1>2
       DEF Checked, Allowed, VenueChecked, TemplateChecked, VersionChecked, SnapshotChecked,
           BindingChecked, ActionOf, CapabilityFor, Numbered
  <2> HIDE DEF x
  <2>5. QED
    BY <2>1, <2>3, <2>4, OneRequestMoves
<1>5. QED
  BY <1>1, <1>3, <1>4 DEF BeginVersion

(* The number after the highest is new, and follows one that is taken.      *)
LEMMA ReadNumberKeeps ==
  ASSUME VenueInv, NEW r \in Requests, ReadNumber(r)
  PROVE  VenueInv'
<1>1. PICK k \in 1..(MaxNumber + 1) :
        /\ IsNext(request[r].template, k)
        /\ request' = [request EXCEPT ![r] = Numbered(request[r].by, request[r].template,
                                                      request[r].layout, k, TRUE)]
  BY DEF ReadNumber, VenueInv, VenueTypeOK
<1>2. PICK x : x = Numbered(request[r].by, request[r].template, request[r].layout, k, TRUE)
  OBVIOUS
<1>3. /\ x.at = "numbered" /\ x.by = request[r].by
      /\ x.row.template = request[r].template /\ x.row.number = k
  BY <1>2 DEF Numbered
<1>4. request[r].at = "version" /\ UNCHANGED <<role, rows>>
  BY DEF ReadNumber
<1>5. request[r].by \in Actors /\ request[r].template \in TemplateIds /\ request[r].layout \in Layouts
  BY <1>4, RequestFields DEF VenueInv
<1>6. InProgress(x)
  BY <1>2, <1>5 DEF InProgress, Numbered, VersionRows
<1>7. /\ OwnTemplate(request[r].by, request[r].template)
      /\ hasAdminCapability(request[r].by.role, "manageVenueLayouts")
  BY <1>4 DEF VenueInv, Checked, Allowed, VersionChecked, ActionOf, CapabilityFor
<1>8. x.row.number > 1 => x.row.number - 1 \in NumbersOf(x.row.template)
  BY <1>1, <1>3 DEF IsNext
<1>9. Checked(x)
  BY <1>3, <1>7, <1>8
     DEF Checked, Allowed, VenueChecked, TemplateChecked, VersionChecked, SnapshotChecked,
         BindingChecked, ActionOf, CapabilityFor
<1>10. QED
  BY <1>1, <1>2, <1>4, <1>6, <1>9, OneRequestMoves

LEMMA BeginSnapshotKeeps ==
  ASSUME VenueInv, NEW r \in Requests, NEW u \in Users, NEW o \in Organizers, NEW e \in Events,
         NEW n \in VersionIds, BeginSnapshot(r, u, o, e, n)
  PROVE  VenueInv'
<1>1. PICK by : by = By(u, o)
  OBVIOUS
<1>2. by \in Actors /\ by.organizer = o /\ hasAdminCapability(by.role, "createEventLayoutSnapshot")
  BY <1>1, ActorTypes DEF VenueInv, BeginSnapshot
<1>3. PICK x : x = [at |-> "snapshot", by |-> by, event |-> e,
                    row |-> [version |-> n, layout |-> version[n].layout]]
  OBVIOUS
<1>4. request' = [request EXCEPT ![r] = x] /\ UNCHANGED <<role, rows>>
  BY <1>1, <1>3 DEF BeginSnapshot, Begin
<1>5. OrganizerOf[e] = o /\ OwnVersion(o, n) /\ version[n].layout \in Layouts
  BY RowFields DEF VenueInv, BeginSnapshot, OwnVersion
<1>6. InProgress(x)
  BY <1>2, <1>3, <1>5 DEF InProgress, SnapshotRows
<1>7. Checked(x)
  BY <1>2, <1>3, <1>5
     DEF Checked, Allowed, VenueChecked, TemplateChecked, VersionChecked, SnapshotChecked,
         BindingChecked, ActionOf, CapabilityFor
<1>8. QED
  BY <1>4, <1>6, <1>7, OneRequestMoves

LEMMA BeginBindingKeeps ==
  ASSUME VenueInv, NEW r \in Requests, NEW u \in Users, NEW o \in Organizers, NEW row \in BindingRows,
         BeginBinding(r, u, o, row)
  PROVE  VenueInv'
<1>1. PICK by : by = By(u, o)
  OBVIOUS
<1>2. by \in Actors /\ by.organizer = o /\ hasAdminCapability(by.role, "manageLayoutInventoryBindings")
  BY <1>1, ActorTypes DEF VenueInv, BeginBinding
<1> DEFINE x == [at |-> "binding", by |-> by, row |-> row]
<1>3. request' = [request EXCEPT ![r] = x] /\ UNCHANGED <<role, rows>>
  BY <1>1 DEF BeginBinding, Begin
<1>4. InProgress(x)
  BY <1>2 DEF InProgress
<1>5. Checked(x)
  BY <1>2
     DEF BeginBinding, Checked, Allowed, VenueChecked, TemplateChecked, VersionChecked,
         SnapshotChecked, BindingChecked, ActionOf, CapabilityFor
<1> HIDE DEF x
<1>6. QED
  BY <1>3, <1>4, <1>5, OneRequestMoves

-----------------------------------------------------------------------------
(* Rows are inserted. *)

Inserted == VenueIds \cup TemplateIds \cup VersionIds \cup Events \cup BindingRows

(* The audit row of a request that inserts, for its types and its role.     *)
LEMMA AuditRow ==
  ASSUME VenueInv, NEW r \in Requests, NEW entity \in Inserted, InProgress(request[r]),
         Audited(r, ActionOf[request[r].at], entity)
  PROVE  \E a \in [action : DOMAIN CapabilityFor, by : Actors, entity : Inserted] :
           /\ a.action = ActionOf[request[r].at] /\ a.by = request[r].by /\ a.entity = entity
           /\ hasAdminCapability(a.by.role, CapabilityFor[a.action])
           /\ audit' = audit \cup {a}
<1>1. request[r].at # "idle" /\ request[r].by \in Actors
  BY DEF InProgress
<1>2. hasAdminCapability(request[r].by.role, CapabilityFor[ActionOf[request[r].at]])
  BY <1>1 DEF VenueInv, Checked, Allowed
<1>3. ActionOf[request[r].at] \in DOMAIN CapabilityFor
  BY DEF InProgress, ActionOf, CapabilityFor
<1>4. PICK a : a = [action |-> ActionOf[request[r].at], by |-> request[r].by, entity |-> entity]
  OBVIOUS
<1>5. QED
  BY <1>1, <1>2, <1>3, <1>4 DEF Audited

(* What an older audit row is about still belongs to the same organizer.    *)
LEMMA OwnersStay ==
  ASSUME VenueInv, RowsGrow, NEW a \in audit
  PROVE  OwnerOf(a)' = OwnerOf(a)
<1>1. a.entity \in AuditedAs(a.action) /\ a.action \in DOMAIN CapabilityFor
  BY DEF AuditedAs, VenueInv, VenueTypeOK
<1>2. a.action \in {"venue_created", "venue_layout_template_created", "venue_layout_version_created",
                    "event_layout_snapshot_created", "event_layout_inventory_binding_created"}
  BY <1>1 DEF CapabilityFor
<1>3. CASE a.action = "venue_created"
  <2>1. a.entity \in VenueIds /\ venue[a.entity] # NoRow
    BY <1>1, <1>3 DEF VenueInv, RowsStayWithTheirOrganizer
  <2>2. QED
    BY <1>3, <2>1 DEF RowsGrow, OwnerOf
<1>4. CASE a.action = "venue_layout_template_created"
  <2>1. a.entity \in TemplateIds /\ template[a.entity] # NoRow
    BY <1>1, <1>4 DEF VenueInv, RowsStayWithTheirOrganizer
  <2>2. TemplateOrganizer(a.entity)' = TemplateOrganizer(a.entity)
    BY <2>1, OrganizersStay DEF VenueInv
  <2>3. QED
    BY <1>4, <2>2 DEF OwnerOf
<1>5. CASE a.action = "venue_layout_version_created"
  <2>1. a.entity \in VersionIds /\ version[a.entity] # NoRow
    BY <1>1, <1>5 DEF VenueInv, RowsStayWithTheirOrganizer
  <2>2. VersionOrganizer(a.entity)' = VersionOrganizer(a.entity)
    BY <2>1, OrganizersStay DEF VenueInv
  <2>3. QED
    BY <1>5, <2>2 DEF OwnerOf
<1>6. CASE a.action \in {"event_layout_snapshot_created", "event_layout_inventory_binding_created"}
  BY <1>6 DEF OwnerOf
<1>7. QED
  BY <1>2, <1>3, <1>4, <1>5, <1>6

(* One more audited row, of its owner's organizer; no other is audited as   *)
(* the same.                                                                *)
LEMMA OneMoreAudited ==
  ASSUME VenueInv, RowsGrow, NEW a, audit' = audit \cup {a}, a.entity \notin AuditedAs(a.action),
         hasAdminCapability(a.by.role, CapabilityFor[a.action]),
         a.by.organizer = OwnerOf(a)'
  PROVE  /\ \A x \in audit' :
              /\ x.by.organizer = OwnerOf(x)'
              /\ hasAdminCapability(x.by.role, CapabilityFor[x.action])
              /\ \A y \in audit' : x.action = y.action /\ x.entity = y.entity => x = y
         /\ \A b : AuditedAs(b)' = AuditedAs(b) \cup {z \in {a.entity} : b = a.action}
<1>1. \A x \in audit : ~(x.action = a.action /\ x.entity = a.entity)
  BY DEF AuditedAs
<1>2. \A x \in audit :
        /\ x.by.organizer = OwnerOf(x)
        /\ hasAdminCapability(x.by.role, CapabilityFor[x.action])
        /\ \A y \in audit : x.action = y.action /\ x.entity = y.entity => x = y
  BY DEF VenueInv, RowsStayWithTheirOrganizer
<1>3. \A x \in audit : x.by.organizer = OwnerOf(x)'
  BY <1>2, OwnersStay
<1>4. \A b : AuditedAs(b)' = AuditedAs(b) \cup {z \in {a.entity} : b = a.action}
  BY DEF AuditedAs
<1>5. QED
  BY <1>1, <1>2, <1>3, <1>4

(* The writes of an insertion have the types of their tables.               *)
LEMMA InsertKeepsTypes ==
  ASSUME VenueInv, NEW r \in Requests, Finish(r),
         NEW a \in [action : DOMAIN CapabilityFor, by : Actors, entity : Inserted],
         audit' = audit \cup {a},
         venue' \in [VenueIds -> VenueRows \cup {NoRow}],
         template' \in [TemplateIds -> TemplateRows \cup {NoRow}],
         version' \in [VersionIds -> VersionRows \cup {NoRow}],
         snapshot' \in [Events -> SnapshotRows \cup {NoRow}],
         binding' \subseteq BindingRows
  PROVE  VenueTypeOK'
BY DEF VenueInv, VenueTypeOK, Finish, Inserted

(* And what the other requests have checked stays.                          *)
LEMMA InsertKeepsChecks ==
  ASSUME VenueInv, RowsGrow, NEW r \in Requests, Finish(r)
  PROVE  \A q \in Requests : Checked(request[q])'
<1>1. request'[r] = Idle /\ \A q \in Requests \ {r} : request'[q] = request[q]
  BY DEF Finish, VenueInv, VenueTypeOK
<1>2. \A q \in Requests \ {r} : Checked(request[q])'
  BY <1>1, ChecksStay DEF VenueInv
<1>3. Checked(request[r])'
  BY <1>1
     DEF Checked, Idle, Allowed, VenueChecked, TemplateChecked, VersionChecked, SnapshotChecked,
         BindingChecked
<1>4. QED
  BY <1>2, <1>3

(* A venue or a template leaves versions, snapshots and bindings alone.     *)
LEMMA LayoutsUnchanged ==
  ASSUME VenueInv, UNCHANGED <<version, snapshot, binding>>
  PROVE  VersionsNumbered' /\ LayoutsFit'
BY DEF VenueInv, VersionsNumbered, NumbersOf, LayoutsFit

(* Snapshots belong where they did, if no other was added.                  *)
LEMMA SnapshotsStay ==
  ASSUME VenueInv, RowsGrow
  PROVE  \A e \in Events : snapshot[e] # NoRow =>
           VersionOrganizer(snapshot[e].version)' = OrganizerOf[e]
<1>1. \A e \in Events : snapshot[e] # NoRow =>
        /\ snapshot'[e] = snapshot[e] /\ snapshot[e].version \in VersionIds
        /\ version[snapshot[e].version] # NoRow
        /\ VersionOrganizer(snapshot[e].version) = OrganizerOf[e]
  BY RowFields DEF VenueInv, RowsExist, RowsGrow, RowsStayWithTheirOrganizer
<1>2. \A n \in VersionIds : version[n] # NoRow => VersionOrganizer(n)' = VersionOrganizer(n)
  BY OrganizersStay DEF VenueInv
<1>3. ASSUME NEW e \in Events, snapshot[e] # NoRow
      PROVE  VersionOrganizer(snapshot[e].version)' = OrganizerOf[e]
  <2>1. PICK n \in VersionIds : n = snapshot[e].version
    BY <1>1, <1>3
  <2>2. VersionOrganizer(n)' = OrganizerOf[e] /\ snapshot'[e].version = n
    BY <1>1, <1>2, <1>3, <2>1
  <2>3. QED
    BY <2>2
<1>4. QED
  BY <1>3

LEMMA CreateVenueKeeps ==
  ASSUME VenueInv, NEW r \in Requests, NEW v \in VenueIds, CreateVenue(r, v)
  PROVE  VenueInv'
<1> DEFINE x == request[r]
<1>1. /\ x.at = "venue" /\ venue[v] = NoRow /\ venue' = [venue EXCEPT ![v] = x.row]
      /\ Finish(r) /\ UNCHANGED <<template, version, snapshot, binding>>
      /\ Audited(r, "venue_created", v)
  BY DEF CreateVenue
<1>2. x.row \in VenueRows /\ x.by.organizer = x.row.organizer /\ InProgress(x)
  BY <1>1, RequestFields DEF VenueInv, VenueTypeOK, Checked, VenueChecked, InProgress, Idle
<1>3. x.row # NoRow /\ venue \in [VenueIds -> VenueRows \cup {NoRow}]
  BY <1>2, VenueAssumption DEF VenueInv, VenueTypeOK
<1>4. venue'[v] = x.row /\ \A w \in VenueIds \ {v} : venue'[w] = venue[w]
  BY <1>1, <1>3
<1>5. RowsGrow
  BY <1>1, <1>4 DEF RowsGrow
<1>6. RowsExist'
  BY <1>1, <1>3, <1>4, RowFields DEF VenueInv, RowsExist
<1>7. v \in Inserted /\ ActionOf[x.at] = "venue_created"
  BY <1>1 DEF Inserted, ActionOf
<1>8. PICK a \in [action : DOMAIN CapabilityFor, by : Actors, entity : Inserted] :
        /\ a.action = "venue_created" /\ a.by = x.by /\ a.entity = v
        /\ hasAdminCapability(a.by.role, CapabilityFor[a.action])
        /\ audit' = audit \cup {a}
  BY <1>1, <1>2, <1>7, AuditRow
<1>9. VenueTypeOK'
  <2>1. venue' \in [VenueIds -> VenueRows \cup {NoRow}]
    BY <1>1, <1>2, <1>3
  <2>2. QED
    BY <1>1, <1>8, <2>1, InsertKeepsTypes DEF VenueInv, VenueTypeOK
<1>10. a.by.organizer = OwnerOf(a)'
  BY <1>2, <1>4, <1>8 DEF OwnerOf
<1>11. a.entity \notin AuditedAs(a.action)
  BY <1>1, <1>8 DEF VenueInv, RowsStayWithTheirOrganizer
<1>12. RowsStayWithTheirOrganizer'
  <2>1. \A b : AuditedAs(b)' = AuditedAs(b) \cup {z \in {v} : b = "venue_created"}
    BY <1>5, <1>8, <1>10, <1>11, OneMoreAudited
  <2>2. AuditedAs("venue_created")' = {w \in VenueIds : venue'[w] # NoRow}
    BY <1>3, <1>4, <2>1 DEF VenueInv, RowsStayWithTheirOrganizer
  <2>3. \A e \in Events : snapshot[e] # NoRow => VersionOrganizer(snapshot[e].version)' = OrganizerOf[e]
    BY <1>5, SnapshotsStay
  <2>4. \A y \in audit' :
          /\ y.by.organizer = OwnerOf(y)'
          /\ hasAdminCapability(y.by.role, CapabilityFor[y.action])
          /\ \A z \in audit' : y.action = z.action /\ y.entity = z.entity => y = z
    BY <1>5, <1>8, <1>10, <1>11, OneMoreAudited
  <2>5. QED
    BY <1>1, <2>1, <2>2, <2>3, <2>4 DEF VenueInv, RowsStayWithTheirOrganizer
<1>13. VersionsNumbered' /\ LayoutsFit'
  BY <1>1, LayoutsUnchanged
<1>14. \A q \in Requests : Checked(request[q])'
  BY <1>1, <1>5, InsertKeepsChecks
<1>15. QED
  BY <1>6, <1>9, <1>12, <1>13, <1>14 DEF VenueInv

LEMMA CreateTemplateKeeps ==
  ASSUME VenueInv, NEW r \in Requests, NEW t \in TemplateIds, CreateTemplate(r, t)
  PROVE  VenueInv'
<1> DEFINE x == request[r]
<1>1. /\ x.at = "template" /\ template[t] = NoRow /\ template' = [template EXCEPT ![t] = x.row]
      /\ Finish(r) /\ UNCHANGED <<venue, version, snapshot, binding>>
      /\ Audited(r, "venue_layout_template_created", t)
  BY DEF CreateTemplate
<1>2. /\ x.row \in TemplateRows /\ x.row.venue \in VenueIds /\ InProgress(x)
      /\ venue[x.row.venue] # NoRow /\ x.by.organizer = venue[x.row.venue].organizer
  BY <1>1, RequestFields
     DEF VenueInv, VenueTypeOK, Checked, TemplateChecked, InProgress, Idle, TemplateRows
<1>3. x.row # NoRow /\ template \in [TemplateIds -> TemplateRows \cup {NoRow}]
  BY <1>2, VenueAssumption DEF VenueInv, VenueTypeOK
<1>4. template'[t] = x.row /\ \A u \in TemplateIds \ {t} : template'[u] = template[u]
  BY <1>1, <1>3
<1>5. RowsGrow
  BY <1>1, <1>4 DEF RowsGrow
<1>6. RowsExist'
  BY <1>1, <1>2, <1>3, <1>4, RowFields DEF VenueInv, RowsExist
<1>7. t \in Inserted /\ ActionOf[x.at] = "venue_layout_template_created"
  BY <1>1 DEF Inserted, ActionOf
<1>8. PICK a \in [action : DOMAIN CapabilityFor, by : Actors, entity : Inserted] :
        /\ a.action = "venue_layout_template_created" /\ a.by = x.by /\ a.entity = t
        /\ hasAdminCapability(a.by.role, CapabilityFor[a.action])
        /\ audit' = audit \cup {a}
  BY <1>1, <1>2, <1>7, AuditRow
<1>9. VenueTypeOK'
  <2>1. template' \in [TemplateIds -> TemplateRows \cup {NoRow}]
    BY <1>1, <1>2, <1>3
  <2>2. QED
    BY <1>1, <1>8, <2>1, InsertKeepsTypes DEF VenueInv, VenueTypeOK
<1>10. a.by.organizer = OwnerOf(a)'
  BY <1>1, <1>2, <1>4, <1>8 DEF OwnerOf, TemplateOrganizer
<1>11. a.entity \notin AuditedAs(a.action)
  BY <1>1, <1>8 DEF VenueInv, RowsStayWithTheirOrganizer
<1>12. RowsStayWithTheirOrganizer'
  <2>1. \A b : AuditedAs(b)' = AuditedAs(b) \cup {z \in {t} : b = "venue_layout_template_created"}
    BY <1>5, <1>8, <1>10, <1>11, OneMoreAudited
  <2>2. AuditedAs("venue_layout_template_created")' = {u \in TemplateIds : template'[u] # NoRow}
    BY <1>3, <1>4, <2>1 DEF VenueInv, RowsStayWithTheirOrganizer
  <2>3. \A e \in Events : snapshot[e] # NoRow => VersionOrganizer(snapshot[e].version)' = OrganizerOf[e]
    BY <1>5, SnapshotsStay
  <2>4. \A y \in audit' :
          /\ y.by.organizer = OwnerOf(y)'
          /\ hasAdminCapability(y.by.role, CapabilityFor[y.action])
          /\ \A z \in audit' : y.action = z.action /\ y.entity = z.entity => y = z
    BY <1>5, <1>8, <1>10, <1>11, OneMoreAudited
  <2>5. QED
    BY <1>1, <2>1, <2>2, <2>3, <2>4 DEF VenueInv, RowsStayWithTheirOrganizer
<1>13. VersionsNumbered' /\ LayoutsFit'
  BY <1>1, LayoutsUnchanged
<1>14. \A q \in Requests : Checked(request[q])'
  BY <1>1, <1>5, InsertKeepsChecks
<1>15. QED
  BY <1>6, <1>9, <1>12, <1>13, <1>14 DEF VenueInv

(* A version is inserted under a number that is free; if the API chose it,  *)
(* the one below is taken, for no number is ever given up.                  *)
LEMMA CreateVersionKeepsNumbers ==
  ASSUME VenueInv, RowsGrow, NEW n \in VersionIds, NEW row \in VersionRows, row # NoRow,
         version[n] = NoRow, version'[n] = row,
         \A m \in VersionIds \ {n} : version'[m] = version[m],
         NumberFree(row.template, row.number),
         row.assigned /\ row.number > 1 => row.number - 1 \in NumbersOf(row.template)
  PROVE  VersionsNumbered'
<1>1. \A m \in VersionIds : version[m] # NoRow =>
        <<version[m].template, version[m].number>> # <<row.template, row.number>>
  BY DEF NumberFree, NumbersOf
<1>2. \A m \in VersionIds : version[m] # NoRow =>
        /\ \A l \in VersionIds \ {m} : version[l] # NoRow =>
             <<version[l].template, version[l].number>> # <<version[m].template, version[m].number>>
        /\ version[m].assigned /\ version[m].number > 1 =>
             version[m].number - 1 \in NumbersOf(version[m].template)
  BY DEF VenueInv, VersionsNumbered
<1>3. \A t : \A k \in NumbersOf(t) : k \in NumbersOf(t)'
  BY NumbersStay DEF VenueInv
<1>4. ASSUME NEW m \in VersionIds, version'[m] # NoRow
      PROVE  /\ \A l \in VersionIds \ {m} : version'[l] # NoRow =>
                  <<version'[l].template, version'[l].number>>
                    # <<version'[m].template, version'[m].number>>
             /\ version'[m].assigned /\ version'[m].number > 1 =>
                  version'[m].number - 1 \in NumbersOf(version[m].template)'
  <2>1. CASE m = n
    <3>1. \A l \in VersionIds \ {m} : version'[l] # NoRow =>
            <<version'[l].template, version'[l].number>>
              # <<version'[m].template, version'[m].number>>
      BY <1>1, <2>1
    <3>2. row.assigned /\ row.number > 1 => row.number - 1 \in NumbersOf(row.template)'
      BY <1>3
    <3>3. QED
      BY <2>1, <3>1, <3>2
  <2>2. CASE m # n
    <3>1. version'[m] = version[m] /\ version[m] # NoRow
      BY <1>4, <2>2
    <3>2. \A l \in VersionIds \ {m} : version'[l] # NoRow =>
            <<version'[l].template, version'[l].number>>
              # <<version'[m].template, version'[m].number>>
      <4>1. <<row.template, row.number>> # <<version[m].template, version[m].number>>
        BY <1>1, <3>1
      <4>2. \A l \in VersionIds \ {m} : version'[l] = version[l] \/ version'[l] = row
        OBVIOUS
      <4>3. QED
        BY <1>2, <3>1, <4>1, <4>2
    <3>3. PICK y : y = version[m]
      OBVIOUS
    <3>4. y.assigned /\ y.number > 1 => y.number - 1 \in NumbersOf(y.template)'
      BY <1>2, <1>3, <3>1, <3>3
    <3>5. QED
      BY <3>1, <3>2, <3>3, <3>4
  <2>3. QED
    BY <2>1, <2>2
<1>5. QED
  BY <1>4 DEF VersionsNumbered

(* A snapshot is as it was, and so is the version it was copied from.       *)
LEMMA LayoutsStayFit ==
  ASSUME VenueInv, RowsGrow, UNCHANGED <<snapshot, binding>>
  PROVE  LayoutsFit'
<1>1. \A e \in Events : snapshot[e] # NoRow =>
        version'[snapshot[e].version] = version[snapshot[e].version]
  BY RowFields DEF VenueInv, RowsExist, RowsGrow
<1>2. QED
  BY <1>1 DEF VenueInv, LayoutsFit

LEMMA CreateVersionKeeps ==
  ASSUME VenueInv, NEW r \in Requests, NEW n \in VersionIds, CreateVersion(r, n)
  PROVE  VenueInv'
<1> DEFINE x == request[r]
<1>1. /\ x.at = "numbered" /\ version[n] = NoRow /\ version' = [version EXCEPT ![n] = x.row]
      /\ NumberFree(x.row.template, x.row.number)
      /\ Finish(r) /\ UNCHANGED <<venue, template, snapshot, binding>>
      /\ Audited(r, "venue_layout_version_created", n)
  BY DEF CreateVersion
<1>2. /\ x.row \in VersionRows /\ x.row.template \in TemplateIds /\ InProgress(x)
      /\ template[x.row.template] # NoRow /\ x.by.organizer = TemplateOrganizer(x.row.template)
      /\ x.row.assigned /\ x.row.number > 1 => x.row.number - 1 \in NumbersOf(x.row.template)
  BY <1>1, RequestFields
     DEF VenueInv, VenueTypeOK, Checked, VersionChecked, OwnTemplate, InProgress, Idle, VersionRows
<1>3. x.row # NoRow /\ version \in [VersionIds -> VersionRows \cup {NoRow}]
  BY <1>2, VenueAssumption DEF VenueInv, VenueTypeOK
<1>4. version'[n] = x.row /\ \A m \in VersionIds \ {n} : version'[m] = version[m]
  BY <1>1, <1>3
<1>5. RowsGrow
  BY <1>1, <1>4 DEF RowsGrow
<1>6. RowsExist'
  <2>1. \A e \in Events : snapshot'[e] # NoRow => version'[snapshot'[e].version] # NoRow
    BY <1>1, <1>4, <1>5, RowFields DEF VenueInv, RowsExist, RowsGrow
  <2>2. QED
    BY <1>1, <1>2, <1>3, <1>4, <2>1, RowFields DEF VenueInv, RowsExist
<1>7. n \in Inserted /\ ActionOf[x.at] = "venue_layout_version_created"
  BY <1>1 DEF Inserted, ActionOf
<1>8. PICK a \in [action : DOMAIN CapabilityFor, by : Actors, entity : Inserted] :
        /\ a.action = "venue_layout_version_created" /\ a.by = x.by /\ a.entity = n
        /\ hasAdminCapability(a.by.role, CapabilityFor[a.action])
        /\ audit' = audit \cup {a}
  BY <1>1, <1>2, <1>7, AuditRow
<1>9. VenueTypeOK'
  <2>1. version' \in [VersionIds -> VersionRows \cup {NoRow}]
    BY <1>1, <1>2, <1>3
  <2>2. QED
    BY <1>1, <1>8, <2>1, InsertKeepsTypes DEF VenueInv, VenueTypeOK
<1>10. a.by.organizer = OwnerOf(a)'
  BY <1>1, <1>2, <1>4, <1>8 DEF OwnerOf, VersionOrganizer, TemplateOrganizer
<1>11. a.entity \notin AuditedAs(a.action)
  BY <1>1, <1>8 DEF VenueInv, RowsStayWithTheirOrganizer
<1>12. RowsStayWithTheirOrganizer'
  <2>1. \A b : AuditedAs(b)' = AuditedAs(b) \cup {z \in {n} : b = "venue_layout_version_created"}
    BY <1>5, <1>8, <1>10, <1>11, OneMoreAudited
  <2>2. AuditedAs("venue_layout_version_created")' = {m \in VersionIds : version'[m] # NoRow}
    BY <1>3, <1>4, <2>1 DEF VenueInv, RowsStayWithTheirOrganizer
  <2>3. \A e \in Events : snapshot[e] # NoRow => VersionOrganizer(snapshot[e].version)' = OrganizerOf[e]
    BY <1>5, SnapshotsStay
  <2>4. \A y \in audit' :
          /\ y.by.organizer = OwnerOf(y)'
          /\ hasAdminCapability(y.by.role, CapabilityFor[y.action])
          /\ \A z \in audit' : y.action = z.action /\ y.entity = z.entity => y = z
    BY <1>5, <1>8, <1>10, <1>11, OneMoreAudited
  <2>5. QED
    BY <1>1, <2>1, <2>2, <2>3, <2>4 DEF VenueInv, RowsStayWithTheirOrganizer
<1>13. VersionsNumbered'
  <2>1. PICK row : row = x.row
    OBVIOUS
  <2>2. QED
    BY <1>1, <1>2, <1>3, <1>4, <1>5, <2>1, CreateVersionKeepsNumbers
<1>14. LayoutsFit'
  BY <1>1, <1>5, LayoutsStayFit
<1>15. \A q \in Requests : Checked(request[q])'
  BY <1>1, <1>5, InsertKeepsChecks
<1>16. QED
  BY <1>6, <1>9, <1>12, <1>13, <1>14, <1>15 DEF VenueInv

LEMMA CreateSnapshotKeeps ==
  ASSUME VenueInv, NEW r \in Requests, CreateSnapshot(r)
  PROVE  VenueInv'
<1> DEFINE x == request[r]
<1>1. PICK e : e = x.event
  OBVIOUS
<1>2. /\ x.at = "snapshot" /\ snapshot[e] = NoRow /\ snapshot' = [snapshot EXCEPT ![e] = x.row]
      /\ Finish(r) /\ UNCHANGED <<venue, template, version, binding>>
      /\ Audited(r, "event_layout_snapshot_created", e)
  BY <1>1 DEF CreateSnapshot
<1>3. /\ e \in Events /\ x.row \in SnapshotRows /\ x.row.version \in VersionIds /\ InProgress(x)
      /\ version[x.row.version] # NoRow /\ x.row.layout = version[x.row.version].layout
      /\ VersionOrganizer(x.row.version) = OrganizerOf[e] /\ x.by.organizer = OrganizerOf[e]
  BY <1>1, <1>2, RequestFields
     DEF VenueInv, VenueTypeOK, Checked, SnapshotChecked, OwnVersion, InProgress, Idle, SnapshotRows
<1>4. x.row # NoRow /\ snapshot \in [Events -> SnapshotRows \cup {NoRow}]
  BY <1>3, VenueAssumption DEF VenueInv, VenueTypeOK
<1>5. snapshot'[e] = x.row /\ \A f \in Events \ {e} : snapshot'[f] = snapshot[f]
  BY <1>2, <1>3, <1>4
<1>6. RowsGrow
  BY <1>2, <1>5 DEF RowsGrow
<1>7. RowsExist'
  BY <1>2, <1>3, <1>5, RowFields DEF VenueInv, RowsExist
<1>8. e \in Inserted /\ ActionOf[x.at] = "event_layout_snapshot_created"
  BY <1>2, <1>3 DEF Inserted, ActionOf
<1>9. PICK a \in [action : DOMAIN CapabilityFor, by : Actors, entity : Inserted] :
        /\ a.action = "event_layout_snapshot_created" /\ a.by = x.by /\ a.entity = e
        /\ hasAdminCapability(a.by.role, CapabilityFor[a.action])
        /\ audit' = audit \cup {a}
  BY <1>2, <1>3, <1>8, AuditRow
<1>10. VenueTypeOK'
  <2>1. snapshot' \in [Events -> SnapshotRows \cup {NoRow}]
    BY <1>2, <1>3, <1>4
  <2>2. QED
    BY <1>2, <1>9, <2>1, InsertKeepsTypes DEF VenueInv, VenueTypeOK
<1>11. a.by.organizer = OwnerOf(a)'
  BY <1>3, <1>9 DEF OwnerOf
<1>12. a.entity \notin AuditedAs(a.action)
  BY <1>2, <1>9 DEF VenueInv, RowsStayWithTheirOrganizer
<1>13. RowsStayWithTheirOrganizer'
  <2>1. \A b : AuditedAs(b)' = AuditedAs(b) \cup {z \in {e} : b = "event_layout_snapshot_created"}
    BY <1>6, <1>9, <1>11, <1>12, OneMoreAudited
  <2>2. AuditedAs("event_layout_snapshot_created")' = {f \in Events : snapshot'[f] # NoRow}
    BY <1>3, <1>4, <1>5, <2>1 DEF VenueInv, RowsStayWithTheirOrganizer
  <2>3. ASSUME NEW f \in Events, snapshot'[f] # NoRow
        PROVE  VersionOrganizer(snapshot[f].version)' = OrganizerOf[f]
    <3>1. CASE f = e
      BY <1>2, <1>3, <1>5, <3>1 DEF VersionOrganizer, TemplateOrganizer
    <3>2. CASE f # e
      BY <1>5, <1>6, <2>3, <3>2, SnapshotsStay
    <3>3. QED
      BY <3>1, <3>2
  <2>4. \A y \in audit' :
          /\ y.by.organizer = OwnerOf(y)'
          /\ hasAdminCapability(y.by.role, CapabilityFor[y.action])
          /\ \A z \in audit' : y.action = z.action /\ y.entity = z.entity => y = z
    BY <1>6, <1>9, <1>11, <1>12, OneMoreAudited
  <2>5. QED
    BY <1>2, <2>1, <2>2, <2>3, <2>4 DEF VenueInv, RowsStayWithTheirOrganizer
<1>14. VersionsNumbered'
  BY <1>2 DEF VenueInv, VersionsNumbered, NumbersOf
<1>15. LayoutsFit'
  <2>1. \A f \in Events : snapshot'[f] # NoRow =>
          snapshot'[f].layout = version[snapshot'[f].version].layout
    BY <1>3, <1>5 DEF VenueInv, LayoutsFit
  <2>2. \A b \in binding : snapshot'[b.event] = snapshot[b.event]
    <3>1. \A b \in binding : b.event \in Events /\ snapshot[b.event] # NoRow
      BY DEF VenueInv, VenueTypeOK, BindingRows, LayoutsFit
    <3>2. QED
      BY <1>6, <3>1 DEF RowsGrow
  <2>3. QED
    BY <1>2, <2>1, <2>2 DEF VenueInv, LayoutsFit
<1>16. \A q \in Requests : Checked(request[q])'
  BY <1>2, <1>6, InsertKeepsChecks
<1>17. QED
  BY <1>7, <1>10, <1>13, <1>14, <1>15, <1>16 DEF VenueInv

(* What fits the event's layout, and is not yet bound, may be bound.        *)
LEMMA BindingFits ==
  ASSUME VenueInv, NEW row \in BindingRows, EventOf[row.ticketType] = row.event,
         snapshot[row.event] # NoRow, HasEntity(snapshot[row.event].layout, row.entity),
         LimitFits(snapshot[row.event].layout, row.entity, row.limit),
         \A b \in binding : ~SameKey(b, row),
         binding' = binding \cup {row}, UNCHANGED <<version, snapshot>>
  PROVE  LayoutsFit'
<1> DEFINE l == snapshot[row.event].layout
<1>1. row.entity.type \in {"zone", "seat"} /\ row.limit \in Nat
  BY VenueAssumption DEF BindingRows, Entities
<1>2. /\ row.entity.type = "seat" => row.limit <= 1
      /\ row.entity.type = "zone" /\ l.zones[row.entity.id] > 0 =>
           row.limit <= l.zones[row.entity.id]
  BY <1>1 DEF LimitFits
<1>3. \A b \in binding : ~SameKey(row, b)
  BY DEF SameKey
<1>4. QED
  BY <1>2, <1>3 DEF VenueInv, LayoutsFit

LEMMA CreateBindingKeeps ==
  ASSUME VenueInv, NEW r \in Requests, CreateBinding(r)
  PROVE  VenueInv'
<1> DEFINE x == request[r]
<1>1. PICK row : row = x.row
  OBVIOUS
<1>2. /\ x.at = "binding" /\ \A b \in binding : ~SameKey(b, row)
      /\ binding' = binding \cup {row}
      /\ Finish(r) /\ UNCHANGED <<venue, template, version, snapshot>>
      /\ Audited(r, "event_layout_inventory_binding_created", row)
  BY <1>1 DEF CreateBinding
<1>3. /\ row \in BindingRows /\ InProgress(x)
      /\ x.by.organizer = OrganizerOf[row.event] /\ EventOf[row.ticketType] = row.event
      /\ snapshot[row.event] # NoRow /\ HasEntity(snapshot[row.event].layout, row.entity)
      /\ LimitFits(snapshot[row.event].layout, row.entity, row.limit)
  BY <1>1, <1>2, RequestFields
     DEF VenueInv, VenueTypeOK, Checked, BindingChecked, InProgress, Idle
<1>4. row \notin binding
  BY <1>2 DEF SameKey
<1>5. RowsGrow
  BY <1>2 DEF RowsGrow
<1>6. RowsExist'
  BY <1>2 DEF VenueInv, RowsExist
<1>7. row \in Inserted /\ ActionOf[x.at] = "event_layout_inventory_binding_created"
  BY <1>2, <1>3 DEF Inserted, ActionOf
<1>8. PICK a \in [action : DOMAIN CapabilityFor, by : Actors, entity : Inserted] :
        /\ a.action = "event_layout_inventory_binding_created" /\ a.by = x.by /\ a.entity = row
        /\ hasAdminCapability(a.by.role, CapabilityFor[a.action])
        /\ audit' = audit \cup {a}
  BY <1>2, <1>3, <1>7, AuditRow
<1>9. VenueTypeOK'
  <2>1. binding' \subseteq BindingRows
    BY <1>2, <1>3 DEF VenueInv, VenueTypeOK
  <2>2. QED
    BY <1>2, <1>8, <2>1, InsertKeepsTypes DEF VenueInv, VenueTypeOK
<1>10. a.by.organizer = OwnerOf(a)'
  BY <1>3, <1>8 DEF OwnerOf
<1>11. a.entity \notin AuditedAs(a.action)
  BY <1>4, <1>8 DEF VenueInv, RowsStayWithTheirOrganizer
<1>12. RowsStayWithTheirOrganizer'
  <2>1. \A b : AuditedAs(b)' =
          AuditedAs(b) \cup {z \in {row} : b = "event_layout_inventory_binding_created"}
    BY <1>5, <1>8, <1>10, <1>11, OneMoreAudited
  <2>2. AuditedAs("event_layout_inventory_binding_created")' = binding'
    BY <1>2, <2>1 DEF VenueInv, RowsStayWithTheirOrganizer
  <2>3. \A e \in Events : snapshot[e] # NoRow => VersionOrganizer(snapshot[e].version)' = OrganizerOf[e]
    BY <1>5, SnapshotsStay
  <2>4. \A y \in audit' :
          /\ y.by.organizer = OwnerOf(y)'
          /\ hasAdminCapability(y.by.role, CapabilityFor[y.action])
          /\ \A z \in audit' : y.action = z.action /\ y.entity = z.entity => y = z
    BY <1>5, <1>8, <1>10, <1>11, OneMoreAudited
  <2>5. QED
    BY <1>2, <2>1, <2>2, <2>3, <2>4 DEF VenueInv, RowsStayWithTheirOrganizer
<1>13. VersionsNumbered'
  BY <1>2 DEF VenueInv, VersionsNumbered, NumbersOf
<1>14. LayoutsFit'
  BY <1>2, <1>3, BindingFits
<1>15. \A q \in Requests : Checked(request[q])'
  BY <1>2, <1>5, InsertKeepsChecks
<1>16. QED
  BY <1>6, <1>9, <1>12, <1>13, <1>14, <1>15 DEF VenueInv

-----------------------------------------------------------------------------
(* The invariant. *)

LEMMA VenueInitIsSound ==
  ASSUME VenueInit
  PROVE  VenueInv
<1>1. VenueTypeOK
  BY DEF VenueInit, VenueTypeOK
<1>2. RowsExist /\ VersionsNumbered /\ LayoutsFit
  BY DEF VenueInit, RowsExist, VersionsNumbered, LayoutsFit
<1>3. RowsStayWithTheirOrganizer
  BY DEF VenueInit, RowsStayWithTheirOrganizer, AuditedAs
<1>4. \A r \in Requests : Checked(request[r])
  BY IdleIsChecked DEF VenueInit
<1>5. QED
  BY <1>1, <1>2, <1>3, <1>4 DEF VenueInv

LEMMA StepKeepsVenueInv ==
  ASSUME VenueInv, [VenueNext]_vars
  PROVE  VenueInv'
<1>1. ASSUME NEW r \in Requests, NEW u \in Users, NEW o \in Organizers, NEW slug \in Slugs,
             BeginVenue(r, u, o, slug)
      PROVE  VenueInv'
  BY <1>1, BeginVenueKeeps
<1>2. ASSUME NEW r \in Requests, NEW u \in Users, NEW v \in VenueIds, NEW mode \in LayoutModes,
             BeginTemplate(r, u, v, mode)
      PROVE  VenueInv'
  BY <1>2, BeginTemplateKeeps
<1>3. ASSUME NEW r \in Requests, NEW u \in Users, NEW t \in TemplateIds, NEW l \in Layouts,
             BeginVersion(r, u, t, l)
      PROVE  VenueInv'
  BY <1>3, BeginVersionKeeps
<1>4. ASSUME NEW r \in Requests, NEW u \in Users, NEW o \in Organizers, NEW e \in Events,
             NEW n \in VersionIds, BeginSnapshot(r, u, o, e, n)
      PROVE  VenueInv'
  BY <1>4, BeginSnapshotKeeps
<1>5. ASSUME NEW r \in Requests, NEW u \in Users, NEW o \in Organizers, NEW row \in BindingRows,
             BeginBinding(r, u, o, row)
      PROVE  VenueInv'
  BY <1>5, BeginBindingKeeps
<1>6. ASSUME NEW r \in Requests, NEW v \in VenueIds, CreateVenue(r, v)
      PROVE  VenueInv'
  BY <1>6, CreateVenueKeeps
<1>7. ASSUME NEW r \in Requests, NEW t \in TemplateIds, CreateTemplate(r, t)
      PROVE  VenueInv'
  BY <1>7, CreateTemplateKeeps
<1>8. ASSUME NEW r \in Requests, NEW n \in VersionIds, CreateVersion(r, n)
      PROVE  VenueInv'
  BY <1>8, CreateVersionKeeps
<1>9. ASSUME NEW r \in Requests,
             ReadNumber(r) \/ CreateSnapshot(r) \/ CreateBinding(r) \/ Refuse(r)
      PROVE  VenueInv'
  BY <1>9, ReadNumberKeeps, CreateSnapshotKeeps, CreateBindingKeeps, RefuseKeeps
<1>10. ASSUME NEW u \in Users, NEW o \in Organizers, NEW new \in MemberRoles \cup {"none"},
              ChangeMembership(u, o, new)
       PROVE  VenueInv'
  BY <1>10, ChangeMembershipKeeps
<1>11. CASE UNCHANGED vars
  <2>1. UNCHANGED rows /\ role' = role /\ request' = request
    BY <1>11 DEF vars
  <2>2. /\ RowsGrow /\ RowsExist'
        /\ VersionsNumbered' /\ LayoutsFit' /\ RowsStayWithTheirOrganizer'
    BY <2>1, RowsUnchanged
  <2>3. VenueTypeOK'
    BY <2>1 DEF VenueInv, VenueTypeOK, rows
  <2>4. \A q \in Requests : Checked(request[q])'
    BY <2>1, <2>2, ChecksStay DEF VenueInv
  <2>5. QED
    BY <2>2, <2>3, <2>4 DEF VenueInv
<1>12. QED
  BY <1>1, <1>2, <1>3, <1>4, <1>5, <1>6, <1>7, <1>8, <1>9, <1>10, <1>11 DEF VenueNext

(* What the requests have checked, in statements of their own, still holds  *)
(* when they write, so that nothing is written that should not be.          *)
THEOREM VenueInvariant == VenueSpec => []VenueInv
<1>1. VenueInit => VenueInv
  BY VenueInitIsSound
<1>2. VenueInv /\ [VenueNext]_vars => VenueInv'
  BY StepKeepsVenueInv
<1>3. QED
  BY <1>1, <1>2, PTL DEF VenueSpec

(* The rows and the requests keep to the types of the schema and of the     *)
(* request bodies.                                                          *)
THEOREM VenueTypeCorrect == VenueSpec => []VenueTypeOK
<1>1. VenueInv => VenueTypeOK
  BY DEF VenueInv
<1>2. QED
  BY <1>1, VenueInvariant, PTL

(* Numbering is right whatever overlaps: the unique index refuses a number  *)
(* that a rival took, and a number that was read leaves no gap.             *)
THEOREM NumbersAreRight == VenueSpec => []VersionsNumbered
<1>1. VenueInv => VersionsNumbered
  BY DEF VenueInv
<1>2. QED
  BY <1>1, VenueInvariant, PTL

(* Snapshots are whole copies, and bindings fit them, for any layouts.      *)
THEOREM LayoutsAlwaysFit == VenueSpec => []LayoutsFit
<1>1. VenueInv => LayoutsFit
  BY DEF VenueInv
<1>2. QED
  BY <1>1, VenueInvariant, PTL

(* No row of one organizer is written on the strength of a role in another. *)
THEOREM RowsAreTheirOrganizers == VenueSpec => []RowsStayWithTheirOrganizer
<1>1. VenueInv => RowsStayWithTheirOrganizer
  BY DEF VenueInv
<1>2. QED
  BY <1>1, VenueInvariant, PTL

(* The capabilities to look at venues, layouts, snapshots and bindings go   *)
(* to the same roles.                                                       *)
LEMMA ViewsGoTogether ==
  ASSUME NEW role_, hasAdminCapability(role_, "viewEventLayoutSnapshot")
                    \/ hasAdminCapability(role_, "viewVenueLayouts")
  PROVE  /\ hasAdminCapability(role_, "viewVenues") /\ hasAdminCapability(role_, "viewVenueLayouts")
         /\ hasAdminCapability(role_, "viewLayoutInventoryBindings")
<1>1. role_ \in {"owner", "admin", "staff"}
  BY DEF hasAdminCapability, OrganizerRoles, RoleCapabilities
<1>2. QED
  BY <1>1 DEF hasAdminCapability, OrganizerRoles, RoleCapabilities, AdminCapabilities

LEMMA ShownTogether ==
  ASSUME VenueInv
  PROVE  WhatIsShownHangsTogether
<1>1. ASSUME NEW u \in Users, NEW e \in SnapshotsShown(u)
      PROVE  /\ snapshot[e].version \in VersionsShown(u)
             /\ {b \in binding : b.event = e} \subseteq BindingsShown(u)
  <2>1. e \in Events /\ snapshot[e] # NoRow /\ Can(u, OrganizerOf[e], "viewEventLayoutSnapshot")
    BY <1>1 DEF SnapshotsShown
  <2>2. /\ snapshot[e].version \in VersionIds /\ version[snapshot[e].version] # NoRow
        /\ VersionOrganizer(snapshot[e].version) = OrganizerOf[e]
    BY <2>1, RowFields DEF VenueInv, RowsExist, RowsStayWithTheirOrganizer
  <2>3. /\ Can(u, OrganizerOf[e], "viewVenueLayouts")
        /\ Can(u, OrganizerOf[e], "viewLayoutInventoryBindings")
    BY <2>1, ViewsGoTogether DEF Can
  <2>4. QED
    BY <2>2, <2>3 DEF VersionsShown, BindingsShown
<1>2. ASSUME NEW u \in Users, NEW n \in VersionsShown(u)
      PROVE  version[n].template \in TemplatesShown(u)
  <2>1. n \in VersionIds /\ version[n] # NoRow /\ Can(u, VersionOrganizer(n), "viewVenueLayouts")
    BY <1>2 DEF VersionsShown
  <2>2. version[n].template \in TemplateIds /\ template[version[n].template] # NoRow
    BY <2>1, RowFields DEF VenueInv, RowsExist
  <2>3. QED
    BY <2>1, <2>2 DEF TemplatesShown, VersionOrganizer
<1>3. ASSUME NEW u \in Users, NEW t \in TemplatesShown(u)
      PROVE  template[t].venue \in VenuesShown(u)
  <2>1. t \in TemplateIds /\ template[t] # NoRow /\ Can(u, TemplateOrganizer(t), "viewVenueLayouts")
    BY <1>3 DEF TemplatesShown
  <2>2. template[t].venue \in VenueIds /\ venue[template[t].venue] # NoRow
    BY <2>1, RowFields DEF VenueInv, RowsExist
  <2>3. Can(u, venue[template[t].venue].organizer, "viewVenues")
    BY <2>1, ViewsGoTogether DEF Can, TemplateOrganizer
  <2>4. QED
    BY <2>2, <2>3 DEF VenuesShown
<1>4. QED
  BY <1>1, <1>2, <1>3 DEF WhatIsShownHangsTogether

(* The GET routes never show an event's layout to somebody who is refused   *)
(* the venue, the template, the version or the bindings it hangs on.        *)
THEOREM ShownHangsTogether == VenueSpec => []WhatIsShownHangsTogether
<1>1. VenueInv => WhatIsShownHangsTogether
  BY ShownTogether
<1>2. QED
  BY <1>1, VenueInvariant, PTL
=============================================================================
