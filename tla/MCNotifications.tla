--------------------------- MODULE MCNotifications ---------------------------
(* Instances of Notifications for TLC. *)
EXTENDS Notifications

CONSTANTS mail, other

\* The module configures MailHandler alone; the medium takes any list.
MCHandlers == <<mail, other>>
=============================================================================
