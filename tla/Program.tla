------------------------------ MODULE Program ------------------------------
(***************************************************************************)
(* The frame of the host's one-shot programs: an Ansible module, a         *)
(* provisioning script or a check that is run, takes its steps one after   *)
(* the other, ends with a verdict and may be run again. A module of such a *)
(* program EXTENDS this one and adds its Init, its actions and its Next;   *)
(* a model-checking module may put several programs side by side, because  *)
(* each acts only at steps of its own.                                     *)
(*                                                                         *)
(*   at      <<program, step>>: the next step of the program that runs     *)
(*   mem     what the run remembers: gone when the program ends or dies    *)
(*   host    what outlives it: files, services, registers, remote records  *)
(*   faults  how often the world has interfered (a crash, a failed call, a *)
(*           hand on the host), at most MaxFaults times, or once more      *)
(***************************************************************************)
EXTENDS Naturals, FiniteSets, Sequences

CONSTANTS MaxFaults,   \* how often the world interferes in one behaviour
          Prone,       \* the programs, by name, with which it may interfere once more
          None,        \* no value: an absent file, an unset key, no verdict
          Odd          \* a value no program writes: edited, malformed, foreign

ASSUME ValueAssumption == None # Odd /\ {None, Odd} \cap Nat = {} /\ {None, Odd} \cap STRING = {}

VARIABLES at, mem, host, faults

programVars == <<at, mem, host, faults>>

At(p, step) == at = <<p, step>>
Goto(p, step) == at' = <<p, step>>

\* One step of program p, as the code orders them.
Act(p, from, to) == At(p, from) /\ Goto(p, to) /\ UNCHANGED faults

\* The world interferes; what it does is for the action to say.
Fault == faults < (IF at[1] \in Prone THEN MaxFaults + 1 ELSE MaxFaults) /\ faults' = faults + 1

\* The least of a set of numbers, for code that goes through sorted names.
First(S) == CHOOSE n \in S : \A m \in S : n <= m
=============================================================================
