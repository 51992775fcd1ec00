------------------------------ MODULE Delivery ------------------------------
(***************************************************************************)
(* What the jobs table promises: a job that was accepted is executed at    *)
(* most once, is never both executed and set aside, and once settled stays *)
(* settled.  Only an executed job's record is ever thrown away.  Any set   *)
(* of jobs may move in one step, since one SQL statement or transaction of *)
(* the implementation may move several rows.                               *)
(***************************************************************************)
EXTENDS Naturals

CONSTANT Jobs

VARIABLES outcome, effects

Outcomes == {"none", "pending", "done", "parked"}

Init ==
  /\ outcome = [j \in Jobs |-> "none"]
  /\ effects = [j \in Jobs |-> 0]

\* Job j goes from outcome a to outcome b and its effects have then happened n times.
Goes(j, a, b, n) ==
  /\ outcome[j] = a
  /\ outcome'[j] = b
  /\ effects'[j] = n

Accept(j)  == Goes(j, "none", "pending", 0)
Execute(j) == Goes(j, "pending", "done", 1)
GiveUp(j)  == Goes(j, "pending", "parked", 0)
Discard(j) == Goes(j, "done", "none", 0)
Replace(j) == Goes(j, "done", "pending", 0)  \* discarded, and its slot given anew
Rest(j)    == Goes(j, outcome[j], outcome[j], effects[j])

Next ==
  /\ outcome' \in [Jobs -> Outcomes]
  /\ effects' \in [Jobs -> Nat]
  /\ \A j \in Jobs : \/ Rest(j) \/ Accept(j) \/ Execute(j)
                     \/ GiveUp(j) \/ Discard(j) \/ Replace(j)

Spec == Init /\ [][Next]_<<outcome, effects>>
=============================================================================
