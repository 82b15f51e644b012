--------------------------------- MODULE Envois --------------------------------
(***************************************************************************)
(* What the platform tells people, from the announcement to the mailbox:   *)
(* NotificationService hands an email to MailService.send and goes on, the *)
(* cascade makes it leave.  Neither waits for the other, and they share no *)
(* variable.                                                               *)
(***************************************************************************)
EXTENDS Notifications, Cascade

\* Announcements reach whom they are for, once and as they asked, and the email
\* of an announcement leaves by the first way in service, once.
EnvoisJustes == NotificationsJustes /\ CascadeJuste
==============================================================================
