-------------------------- MODULE MCNotifications ---------------------------
(* A send task with and one without a template, a notification on both      *)
(* channels and one by e-mail only, any one of them dispatched, and two     *)
(* workers; see the README for the bounds.                                  *)
EXTENDS Notifications
=============================================================================
