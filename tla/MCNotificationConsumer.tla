------------------------ MODULE MCNotificationConsumer ------------------------
(***************************************************************************)
(* Small instances of NotificationConsumer for TLC.                        *)
(***************************************************************************)
EXTENDS NotificationConsumer, TLC

CONSTANTS e1, e2, e3, e4, c1, c2

OneOfEach == e1 :> "plain" @@ e2 :> "poison" @@ e3 :> "skip" @@ e4 :> "malformed"
=============================================================================
