------------------------------ MODULE PinRegister ------------------------------
(***************************************************************************)
(* What the pin of a stack promises to those who change it, with no        *)
(* processes, lock or restarts: an attempt replaces the pin, and what it   *)
(* replaced is either kept out for good or put back exactly; no second     *)
(* attempt comes between.                                                  *)
(***************************************************************************)
CONSTANTS
  Image,        \* digests
  None          \* no pin

VARIABLES
  pin,          \* the digest the stack is pinned to, or None
  attempt       \* what the undecided attempt replaced, if there is one: {} or {was}

vars == <<pin, attempt>>

Init == pin = None /\ attempt = {}

Try(i) == attempt = {} /\ attempt' = {pin} /\ pin' = i

(* The attempt stands, also when the one who made it has died. *)
Keep == attempt # {} /\ attempt' = {} /\ UNCHANGED pin

Undo == pin' \in attempt /\ attempt' = {}

Next == (\E i \in Image : Try(i)) \/ Keep \/ Undo

Spec == Init /\ [][Next]_vars
===============================================================================
