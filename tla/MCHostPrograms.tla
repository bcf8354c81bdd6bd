-------------------------- MODULE MCHostPrograms --------------------------
(***************************************************************************)
(* Every program of the hosts at a size TLC can go through.                *)
(***************************************************************************)
EXTENDS HostPrograms, TLC

MCSettings == <<"listeners", "metrics">>
MCMailboxes == <<"info", "blog">>
MCZones == <<"zen", "sorbs">>
MCPlacesOf == [k |-> <<"own", "shared">>, t |-> <<>>]

\* The calls of the slot script, of the channel key's module and of the seeding differ in their
\* names only.
Calls == Permutations(Callers)
=============================================================================
