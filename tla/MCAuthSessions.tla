---------------------------- MODULE MCAuthSessions ----------------------------
(***************************************************************************)
(* Two failed logins lock the user.  One instance has two requests under   *)
(* way at once and two sessions; the other one request at a time, for      *)
(* longer, so that the password expires.                                   *)
(***************************************************************************)
EXTENDS AuthSessions, TLC

MCSymmetry == Permutations(Request) \cup Permutations(SessionId) \cup Permutations(Family)
=============================================================================
