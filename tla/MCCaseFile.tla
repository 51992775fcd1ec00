----------------------------- MODULE MCCaseFile -----------------------------
(***************************************************************************)
(* Instances of CaseFile for TLC, scored as Scoring says.  The first list  *)
(* has nobody of the applicant's name; a later one has three: the same     *)
(* name with another date of birth, one much like it, and a politician;    *)
(* the third puts someone else in the place of the second of them, which   *)
(* does not show in the signals.  The second ruleset counts the            *)
(* applicant's country.                                                    *)
(***************************************************************************)
EXTENDS Dossier, TLC

\* Handler executions are interchangeable.
RunSymmetry == Permutations(Runs)

Entry(entity, type, score, contradicted) ==
  [entity |-> entity, match_type |-> type, match_score |-> score,
   contradicted |-> contradicted]

HitsOn(n) ==
  CASE n = 1 -> <<>>
    [] n = 2 -> <<Entry("namesake", "sanctions", 100, TRUE),
                  Entry("alike", "sanctions", 85, FALSE),
                  Entry("politician", "pep", 70, FALSE)>>
    [] n = 3 -> <<Entry("namesake", "sanctions", 100, TRUE),
                  Entry("another", "sanctions", 85, FALSE),
                  Entry("politician", "pep", 70, FALSE)>>

MCHits == UNION {{HitsOn(n)[i] : i \in DOMAIN HitsOn(n)} : n \in 1..3}

MCProfile ==
  [e \in (Results \cup {None, "Not Started"}) \X Lists \X Rulesets |->
     [country |-> IF e[3] > 1 THEN "call_for_action" ELSE "unlisted",
      vendor_status |-> e[1], hits |-> HitsOn(e[2])]]

MCFound == [e \in DOMAIN MCProfile |-> {MCProfile[e].hits[i] : i \in DOMAIN MCProfile[e].hits}]
MCFinding == [e \in DOMAIN MCProfile |-> score_application(MCProfile[e])]
MCFindings == {MCFinding[e] : e \in DOMAIN MCProfile}
MCScore == [f \in MCFindings |-> f.score]
MCRouting == [f \in MCFindings |-> f.routing]
=============================================================================
