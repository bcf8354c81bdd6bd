------------------------------ MODULE CiQueue ------------------------------
(***************************************************************************)
(* The runs of ci.yml on main. Each push runs the plan job of every stack  *)
(* it changed and then pauses that stack's apply for an approval. Nothing  *)
(* makes a run wait for another one: a plan job's first step looks at the  *)
(* older runs that still wait and cancels those this push supersedes. Runs *)
(* are numbered in the order of their pushes. The plan jobs of one run     *)
(* cancel alike, and stand here for one. The listing of a run's jobs is    *)
(* taken to hold all of them, those that wait for another job too.         *)
(***************************************************************************)
EXTENDS Program

CONSTANTS Stack,    \* "network" and "estate": the two whose environment is chosen
          MaxRuns   \* pushes in one behaviour

NoRead == [todo |-> {}, cancel |-> None]
QueueInit == at = <<"queue", "open">> /\ mem = <<>> /\ host = <<>> /\ faults = 0

QueueStep == at = <<"queue", "open">> /\ UNCHANGED <<at, faults>>
Sets(r, s, status) == [host EXCEPT ![r].apply[s] = status]
Waiting(r) ==  \* what the query asks for: paused, and nothing of it runs
  /\ \E s \in Stack : host[r].apply[s] = "waiting"
  /\ \A s \in Stack : host[r].apply[s] # "in_progress" /\ host[r].plan[s] # "in_progress"
Push ==
  \E planned \in SUBSET Stack \ {{}} :
    /\ QueueStep /\ Len(host) < MaxRuns
    /\ host' = Append(host, [planned |-> planned, plan |-> [s \in Stack |-> IF s \in planned THEN "queued" ELSE "unplanned"],
                             apply |-> [s \in Stack |-> IF s \in planned THEN "queued" ELSE "unplanned"], lost |-> {},
                             environment |-> [s \in Stack |-> None], paid |-> {}, unread |-> {}])
    /\ mem' = Append(mem, NoRead)
\* The estate is planned after the network's apply, or when the network was not planned.
MayPlan(r, s) == s = "estate" => \A other \in Stack \ {s} : host[r].apply[other] \in {"unplanned", "completed"}
StartPlan(r) ==
  \E s \in Stack :
    /\ QueueStep /\ host[r].plan[s] = "queued" /\ MayPlan(r, s)
    /\ host' = [host EXCEPT ![r].plan[s] = "in_progress"]
    /\ mem' = [mem EXCEPT ![r].todo = {o \in 1..(r - 1) : Waiting(o)}]
MutChoose(evidence) == IF {"preview", "guard", "ready"} \subseteq evidence THEN "production-free" ELSE "production"
\* Only when everything is known to be good; the verdict "FREE" is one of four inputs.
Choose(evidence) == IF {"preview", "guard", "free", "ready"} \subseteq evidence THEN "production-free" ELSE "production"
\* The rest of the plan job, after the cancel step: a plan that changes nothing skips its apply.
Planned(h, s, waits, environment, paid) ==
  [h EXCEPT !.plan[s] = "completed", !.apply[s] = IF waits THEN "waiting" ELSE "completed",
            !.environment[s] = IF waits THEN environment ELSE None, !.paid = IF waits /\ paid THEN @ \cup {s} ELSE @]
PlanEnds(r) ==
  \E s \in Stack, evidence \in SUBSET {"preview", "guard", "free", "ready"}, changes \in BOOLEAN :
    /\ QueueStep /\ host[r].plan[s] = "in_progress" /\ mem[r] = NoRead /\ UNCHANGED mem
    /\ host' = [host EXCEPT ![r] = Planned(@, s, {"preview", "guard"} \subseteq evidence /\ changes,
                                           Choose(evidence), "free" \notin evidence)]
\* One approval releases every apply of the run that waits in the environment.
Approve(r, environment) ==
  LET released == {s \in Stack : host[r].apply[s] = "waiting" /\ host[r].environment[s] = environment}
  IN  /\ QueueStep /\ released # {} /\ UNCHANGED mem
      /\ host' = [host EXCEPT ![r].apply = [s \in Stack |-> IF s \in released THEN "in_progress" ELSE @[s]],
                              ![r].environment = [s \in Stack |-> IF s \in released THEN None ELSE @[s]], ![r].paid = @ \ released,
                              ![r].unread = IF environment = "production" THEN @ ELSE @ \cup (host[r].paid \cap released)]
ApplyEnds(r) == \E s \in Stack : QueueStep /\ host[r].apply[s] = "in_progress" /\ host' = Sets(r, s, "completed") /\ UNCHANGED mem

\* decide(): keep a run with a job in progress, with an apply this push did not plan, or with none waiting.
Incomplete(o) == {s \in Stack : host[o].apply[s] \notin {"unplanned", "completed", "cancelled"}}
MutSuperseded(o, planned) == Waiting(o)
Superseded(o, planned) == Waiting(o) /\ Incomplete(o) \subseteq planned
ReadJobs(r) ==
  \E o \in mem[r].todo :
    /\ QueueStep /\ mem[r].cancel = None /\ UNCHANGED host
    /\ mem' = [mem EXCEPT ![r] = [todo |-> @.todo \ {o}, cancel |-> IF Superseded(o, host[r].planned) THEN o ELSE None]]
\* Another call, later: what still runs or waits is cancelled, whatever happened since the read.
CancelRun(r) ==
  LET o == mem[r].cancel
      open == Incomplete(o)
  IN  /\ QueueStep /\ o # None /\ mem' = [mem EXCEPT ![r] = IF open = {} THEN NoRead ELSE [@ EXCEPT !.cancel = None]]
      /\ host' = IF open = {} THEN host  \* the call fails and ends the step
                 ELSE [host EXCEPT ![o].apply = [s \in Stack |-> IF s \in open THEN "cancelled" ELSE @[s]],
                                   ![o].plan = [s \in Stack |-> IF @[s] \in {"queued", "in_progress"} THEN "cancelled" ELSE @[s]],
                                   ![o].lost = @ \cup open, ![o].paid = @ \ open, ![o].environment = [s \in Stack |-> None]]
RunNext(r) == \/ StartPlan(r) \/ PlanEnds(r) \/ Approve(r, "production") \/ Approve(r, "production-free") \/ ApplyEnds(r)
              \/ ReadJobs(r) \/ CancelRun(r)
QueueNext == at = <<"queue", "open">> /\ (Push \/ \E r \in 1..Len(host) : RunNext(r))
QueueSpec == QueueInit /\ [][QueueNext]_programVars

---------------------------------------------------------------------------
\* A change whose apply was cancelled is in the plan of a newer push, of a run that may itself be
\* cancelled only for a still newer one: whatever order runs read, approve and cancel in, the
\* newest run that planned a stack is never cancelled.
CancelledIsCovered ==
  at = <<"queue", "open">> =>
    \A r \in 1..Len(host) : \A s \in host[r].lost :
      \E n \in (r + 1)..Len(host) : s \in host[n].planned /\ s \notin host[n].lost

\* An apply that may cost money starts only after the owner approved it: the reviewer App, which
\* releases whatever of a run waits in production-free, never releases one.
PaidNeedsOwner == at = <<"queue", "open">> => \A r \in 1..Len(host) : host[r].unread = {}

\* No change is lost with a run that is cancelled, no cost incurred without its owner.
QueueHolds == CancelledIsCovered /\ PaidNeedsOwner
=============================================================================
