-------------------------- MODULE MCNotifications --------------------------
(* Values for TLC.  One wait, so that a row is retried twice.                  *)
EXTENDS Notifications

MCBackoff == <<1>>

=============================================================================
