-------------------------------- MODULE Ledger --------------------------------
(***************************************************************************)
(* What a host that applies commits promises, with no processes, locks or  *)
(* files: it remembers a commit it will not go below (the rollback floor), *)
(* and the work it starts on itself only ever moves forward in history.    *)
(*                                                                         *)
(* The floor is raised before the work on the same commit begins, so a     *)
(* host that stops at any instant has a floor at or above the work it has  *)
(* begun.  Only a person lowers the floor, and a person who does takes the *)
(* host over: what was begun before is no longer compared with.            *)
(***************************************************************************)

CONSTANTS
  Commit,       \* the commits of the repository
  Ancestry,     \* pairs <<older, newer>>: older is newer, or an ancestor of it
  Permitted,    \* the commits the host may work on: signed by a listed key
  Start,        \* the floor the host is enrolled with, a commit or None
  None,         \* no commit
  Damaged       \* a floor file that does not hold one commit id

VARIABLES
  floor,        \* a commit, None or Damaged
  host          \* the last commit whose work was begun since a person took over

vars == <<floor, host>>

(* older is newer, or one of its ancestors. *)
NotAfter(older, newer) == <<older, newer>> \in Ancestry

(* Nothing begun on the host is missing from the history of c. *)
Includes(c) == host = None \/ NotAfter(host, c)

Init == floor = Start /\ host = None

(* The intent to work on c is written down. *)
Raise(c) ==
  /\ c \in Permitted
  /\ floor \in Commit => NotAfter(floor, c)
  /\ Includes(c)
  /\ floor' = c
  /\ UNCHANGED host

(* The work on c begins: only on what the floor names, unless a fault spoiled *)
(* the floor after it was raised.                                             *)
Begin(c) ==
  /\ c \in Permitted
  /\ floor \in {c, Damaged}
  /\ Includes(c)
  /\ host' = c
  /\ UNCHANGED floor

(* The floor's file is spoiled from outside. *)
Spoil == floor' = Damaged /\ UNCHANGED host

(* A person sets the floor, or removes it, and takes the host over. *)
TakeOver(v) == floor' = v /\ host' = None

Next ==
  \/ \E c \in Commit : Raise(c) \/ Begin(c)
  \/ Spoil
  \/ \E v \in Commit \cup {None} : TakeOver(v)

Spec == Init /\ [][Next]_vars
===============================================================================
