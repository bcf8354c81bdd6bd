------------------------------ MODULE MCEdgeApply ------------------------------
(***************************************************************************)
(* One edge host and its repository, for TLC.                              *)
(***************************************************************************)
EXTENDS EdgeApply

CONSTANTS i1, i2, old, new, bad

(* A version, a later one that changes two classes, and one whose Compose    *)
(* file is broken.                                                           *)
Tree(c, m) == [k \in Class |-> IF k = "caddy" THEN c ELSE IF k = "compose" THEN m ELSE old]
MCVersion == {Tree(old, old), Tree(new, new), Tree(old, bad)}

(* Caddy of i2 does not know a directive of the later version. *)
MCCaddyAccepts == (Content \X Image) \ {<<new, i2>>}
===============================================================================
