----------------------------- MODULE MCJobQueue -----------------------------
(***************************************************************************)
(* Instances of JobQueue for TLC: a slot for one-off jobs (w1) and slots   *)
(* for the runs of a recurring job (r); a run of r1 may outlive its lease. *)
(***************************************************************************)
EXTENDS JobQueue

CONSTANTS w1, r1, r2, r3

SafetyJobs == {w1, r1, r2}
SafetyOverrun == {r1}
LiveJobs == {w1, r1, r2, r3}
MCKindOf == [j \in Jobs |-> IF j = w1 THEN "work" ELSE "cleanup"]
=============================================================================
