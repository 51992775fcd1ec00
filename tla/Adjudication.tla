---------------------------- MODULE Adjudication ----------------------------
(***************************************************************************)
(* What the record of a case promises an auditor.  A case is open until it *)
(* is decided automatically, referred to a human, or closed with no        *)
(* finding at all; a referred case can only be decided.  From the first    *)
(* decision on, the evidence the case rests on stays what that decision    *)
(* was made on; a verdict is given once and never changes.                 *)
(***************************************************************************)
CONSTANTS Assessments, None

VARIABLES stage, verdict, basis

Stages == {"open", "referred", "decided", "closed"}
Verdicts == {"approved", "rejected"}

Init == stage = "open" /\ verdict = None /\ basis = None

Refer ==
  /\ stage = "open"
  /\ stage' = "referred" /\ verdict' = None
  /\ basis' \in Assessments

DecideAutomatically ==
  /\ stage = "open"
  /\ stage' = "decided" /\ verdict' \in Verdicts
  /\ basis' \in Assessments

DecideReferral ==
  /\ stage = "referred"
  /\ stage' = "decided" /\ verdict' \in Verdicts
  /\ basis' = basis

CloseWithoutFinding ==
  /\ stage = "open"
  /\ stage' = "closed" /\ verdict' = None
  /\ basis' = None

Next == Refer \/ DecideAutomatically \/ DecideReferral \/ CloseWithoutFinding

Spec == Init /\ [][Next]_<<stage, verdict, basis>>
=============================================================================
