------------------------------ MODULE MCIntake ------------------------------
(***************************************************************************)
(* Instances of Intake for TLC.  Today is the day after a February; one    *)
(* applicant is eighteen today, one tomorrow, one gives a day that no      *)
(* February has.                                                           *)
(***************************************************************************)
EXTENDS Intake, TLC

MCToday == <<2026, 3, 1>>
MCDates == {<<2008, 3, 1>>, <<2008, 3, 2>>, <<2000, 2, 30>>}
MCBatches == {<< <<2008, 3, 1>> >>, << <<2008, 3, 2>>, <<2000, 2, 30>> >>}

\* Exactly five minutes is not too old, in either direction; six are.
MCMessages ==
  {Fresh, [Fresh EXCEPT !.age = 300], [Fresh EXCEPT !.age = 360], [Fresh EXCEPT !.age = -360],
   [Fresh EXCEPT !.signature = "wrong"], [Fresh EXCEPT !.body = "no event_id"]}

RequestSymmetry == Permutations(Requests)
=============================================================================
