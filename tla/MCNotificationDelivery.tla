----------------------- MODULE MCNotificationDelivery -----------------------
(* Model values for the run of NotificationDelivery. *)
EXTENDS NotificationDelivery

CONSTANTS w1, w2, task, browser
=============================================================================
