------------------------------ MODULE Dossier ------------------------------
(***************************************************************************)
(* What the two pages make of a case that tell an officer or an auditor    *)
(* what a decision was taken on: the matches on the case page, and the     *)
(* page of the rulesets; and that they do tell it, scored as in Scoring.   *)
(***************************************************************************)
EXTENDS Scoring

-----------------------------------------------------------------------------
(* The pages, on one snapshot.                                             *)

\* "Screening matches" of the case page, the strongest first; "Screened against" is the
\* first of these snapshots in no order, and unknown when there is no match.
MatchesPanel ==
  [rows |-> matches, against |-> IF matches = {} THEN {None} ELSE {m.list : m \in matches}]

\* The decisions under a version of the rules, by their place in the table.
Under(version) == {i \in DOMAIN decisions : decisions[i].risk.ruleset = version}

\* One of them: with the snapshots of the case's matches, none of which reads "not
\* screened".
DecisionLine(i) ==
  [outcome |-> decisions[i].outcome, by |-> decisions[i].by,
   lists |-> {m.list : m \in matches}]

\* The page of the rulesets: each with its number of decisions, and those under the
\* one that is selected (None, or something that is no version: none is).
RulesetsPage(selected) ==
  [versions |-> [v \in Rulesets |-> Cardinality(Under(v))],
   lines |-> IF selected \in Rulesets THEN [i \in Under(selected) |-> DecisionLine(i)]
             ELSE <<>>]

-----------------------------------------------------------------------------
(* Properties.                                                             *)

\* Months later a decision is still explained by what the pages show (024, and the
\* comments on screening_results and on the pages' queries): every hit that was charged
\* is among the matches, as it was scored and on the snapshot the score was made with;
\* no match of a kind is stronger than the one charged; and that snapshot is among those
\* the ruleset page names.  Screenings that race, with a list loaded between them, do not
\* mix two lists up.
DecisionsAreBacked ==
  \A i \in DOMAIN decisions :
    LET risk == decisions[i].risk
        charged == {risk.finding.signals[type].hit : type \in MatchTypes} \ {None}
        line == RulesetsPage(risk.ruleset).lines[i]
    IN /\ \A hit \in charged : [hit |-> hit, list |-> risk.list] \in MatchesPanel.rows
       /\ \A m \in MatchesPanel.rows : \E hit \in charged :
            /\ hit.match_type = m.hit.match_type
            /\ hit.match_score >= m.hit.match_score
       /\ charged # {} => risk.list \in line.lists
=============================================================================
