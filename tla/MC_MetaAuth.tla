---------------------------- MODULE MC_MetaAuth ----------------------------
(* Model values for user names, passwords and Authenticate callers. *)
EXTENDS MetaAuth, TLC

CONSTANTS u1, u2, p1, p2, a1, a2

MCUsers == {u1}
MCPasswords == {p1, p2}
MCAuthenticators == {a1, a2}
=============================================================================
