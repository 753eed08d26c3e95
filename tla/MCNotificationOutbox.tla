------------------------- MODULE MCNotificationOutbox -------------------------
(* Instances of NotificationOutbox for TLC. *)
EXTENDS NotificationOutbox

CONSTANTS d1, d2, n1, n2
=============================================================================
