------------------------- MODULE MCNotificationSender -------------------------
(***************************************************************************)
(* A small instance of NotificationSender for TLC.                         *)
(***************************************************************************)
EXTENDS NotificationSender

CONSTANTS n1, n2, w1, w2
=============================================================================
