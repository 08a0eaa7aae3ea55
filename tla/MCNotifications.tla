-------------------------- MODULE MCNotifications --------------------------
(* The instance of Notifications that TLC checks.                           *)
EXTENDS Notifications, TLC
============================================================================
