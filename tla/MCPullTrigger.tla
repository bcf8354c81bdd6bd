----------------------------- MODULE MCPullTrigger -----------------------------
(***************************************************************************)
(* A host with a small repository: c1 and its two children c2 and b (main  *)
(* may be rewritten from one to the other), and two children of c2: c3, and *)
(* x, which must never run, because of its signature.                      *)
(***************************************************************************)
EXTENDS PullTrigger, TLC

CONSTANTS c1, c2, c3, b, x, migrate, identity

MCAncestry == {<<c, c>> : c \in Commit}
              \cup ({<<c1, c2>>, <<c1, c3>>, <<c2, c3>>, <<c1, b>>, <<c1, x>>, <<c2, x>>} \cap (Commit \X Commit))

Good == [signed |-> TRUE, status |-> "G", listed |-> TRUE]
Unlisted == [signed |-> TRUE, status |-> "U", listed |-> FALSE]
MCSignature == [c \in Commit |-> IF c = x THEN Unlisted ELSE Good]

(* Processes and directory names are interchangeable. *)
Symmetry == Permutations(Proc) \cup Permutations(Dir)
===============================================================================
