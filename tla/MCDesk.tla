------------------------------- MODULE MCDesk -------------------------------
(***************************************************************************)
(* Instances of Desk for TLC: six scenes, so that the officer, the         *)
(* applicant and the reviewer are each met by everything that can happen   *)
(* to the tables, and not by every state of each other.  The queue is      *)
(* fixed once it is shown, so the scene with three rows needs nobody else; *)
(* the login and the sweep have tables of their own.                       *)
(***************************************************************************)
EXTENDS Desk, MCSweeper

Scene(cast, applications, seeded, from) ==
  [cast |-> cast, applications |-> applications, seeded |-> seeded, from |-> from]

MCScenes ==
  {Scene({"officer"}, {1, 2, 3}, {}, "referred"),
   Scene({"officer", "colleague", "worker"}, {1}, {}, "checking"),
   Scene({"applicant", "colleague", "worker"}, {1}, {}, "started"),
   Scene({"reviewer", "colleague", "worker"}, {1, 2}, {1, 2}, "checking"),
   Scene({"login"}, {}, {}, "started"),
   Scene({"sweeper"}, {}, {}, "started")}

MCMoves ==
  {<<"started", "submitted">>, <<"started", "expired">>, <<"submitted", "checking">>,
   <<"submitted", "verification_unavailable">>, <<"checking", "screening">>,
   <<"checking", "verification_unavailable">>}

MCFindings ==
  {[score |-> 0, route |-> "approved"], [score |-> 45, route |-> "referred"],
   [score |-> 65, route |-> "referred"], [score |-> 85, route |-> "rejected"]}
=============================================================================
