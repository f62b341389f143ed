---------------------------- MODULE MC_MetaSchema ----------------------------
(* Model values for names, users and privileges. *)
EXTENDS MetaSchema, TLC

CONSTANTS d1, autogen, r2, q1, s1, u1, read, all

MCDBNames == {d1}
MCRPNames == {autogen, r2}
MCPrivileges == {read, all}
=============================================================================
