----------------------------- MODULE AdminAuthz -----------------------------
(***************************************************************************)
(* What each role of an organizer's members may do. The table is the one   *)
(* the API and the admin pages share; it has no state.                     *)
(***************************************************************************)

OrganizerRoles == {"owner", "admin", "staff", "scanner"}

AdminCapabilities ==
  {"viewVenues", "manageVenues", "viewVenueLayouts", "manageVenueLayouts",
   "createEventLayoutSnapshot", "viewEventLayoutSnapshot", "viewLayoutInventoryBindings",
   "manageLayoutInventoryBindings", "viewOrganizerSettings", "updateOrganizerSettings",
   "viewOrganizerMembers", "inviteOrganizerMembers", "manageOrganizerMemberships",
   "revokeOrganizerInvitations", "createEvent", "manageTicketTypes", "viewEventDashboard",
   "operateEvent", "scanTickets", "viewEventActivity", "viewLatePaymentCases",
   "resolveLatePayments", "viewOrderCase", "sensitiveOrderLookup", "resendOrderConfirmation"}

RoleCapabilities ==
  [owner |-> AdminCapabilities,
   admin |-> AdminCapabilities \ {"updateOrganizerSettings", "inviteOrganizerMembers",
                                  "manageOrganizerMemberships", "revokeOrganizerInvitations"},
   staff |-> {"viewVenues", "viewVenueLayouts", "viewEventLayoutSnapshot",
              "viewLayoutInventoryBindings", "viewEventDashboard", "operateEvent",
              "scanTickets", "viewEventActivity", "viewLatePaymentCases", "viewOrderCase"},
   scanner |-> {"viewEventDashboard", "operateEvent", "scanTickets"}]

hasAdminCapability(role, capability) ==
  role \in OrganizerRoles /\ capability \in RoleCapabilities[role]
=============================================================================
