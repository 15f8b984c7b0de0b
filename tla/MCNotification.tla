---------------------------- MODULE MCNotification ----------------------------
(* Instances of Notification for TLC.  Callers are interchangeable. *)
EXTENDS Notification, TLC

CallerSymmetry == Permutations(Caller)
=============================================================================
