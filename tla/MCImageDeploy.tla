----------------------------- MODULE MCImageDeploy -----------------------------
(***************************************************************************)
(* One stack, deployers that overlap, and a few digests.                   *)
(***************************************************************************)
EXTENDS ImageDeploy, TLC

(* Deployers and digests are interchangeable. *)
Symmetry == Permutations(Deployer) \cup Permutations(Image)
===============================================================================
