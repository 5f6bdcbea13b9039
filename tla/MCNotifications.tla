-------------------------- MODULE MCNotifications ---------------------------
(* Notifications for TLC: the .cfg gives the constants their values. *)
EXTENDS Notifications
=============================================================================
