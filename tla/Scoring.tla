------------------------------ MODULE Scoring ------------------------------
(***************************************************************************)
(* CaseFile with what screening makes of an applicant: the signals of      *)
(* score_application, what they cost, and where they send the case.  An    *)
(* applicant's profile is what the list search, the vendor and the ruleset *)
(* say; names, identifiers and the sentences for the officer are left out. *)
(***************************************************************************)
EXTENDS CaseFile, Integers, FiniteSets

CONSTANT
  Profile  \* the applicant's profile for a vendor status, snapshot and ruleset

MatchTypes == {"sanctions", "pep", "adverse_media"}

\* The similarity of a recorded name is above 0, and 100 for the same name only.  A hit is
\* contradicted when an identifier of the list entry conflicts with the applicant's.
IsScored(hit) == /\ hit.match_type \in MatchTypes /\ hit.match_score \in 1..100
                 /\ hit.contradicted \in BOOLEAN
Profiles == [country : {"call_for_action", "increased_monitoring", "unlisted"},
             vendor_status : Results \cup {None, "Not Started"},
             hits : Seq(Hits)]

-----------------------------------------------------------------------------
(* The rules: one signal of each at most.                                  *)

Points ==
  [sanctions |-> [exact |-> 60, strong |-> 45, partial |-> 20],
   pep |-> [exact |-> 30, strong |-> 15, partial |-> 5],
   adverse_media |-> [exact |-> 10, strong |-> 10, partial |-> 5]]

\* What a rule says, what it costs, and the hit it is about (None: it is about no hit).
Rule(says, points) == [says |-> says, points |-> points, hit |-> None]
NoSignal == Rule("nothing", 0)

band_of(score) ==
  IF score >= 100 THEN "exact" ELSE IF score >= 80 THEN "strong" ELSE "partial"

\* The strongest hit of a type, the first of equals; not their sum.
Strongest(hits, type) ==
  CHOOSE i \in DOMAIN hits :
    /\ hits[i].match_type = type
    /\ \A j \in DOMAIN hits :
         hits[j].match_type = type =>
           /\ hits[j].match_score <= hits[i].match_score
           /\ j < i => hits[j].match_score < hits[i].match_score

Finds(hits, type) == \E i \in DOMAIN hits : hits[i].match_type = type

\* A contradicted hit costs what the weakest one does.
MatchSignal(hits, type) ==
  LET hit == hits[Strongest(hits, type)]
      says == IF hit.contradicted THEN "contradicted" ELSE band_of(hit.match_score)
  IN IF ~Finds(hits, type) THEN NoSignal
     ELSE [says |-> says,
           points |-> Points[type][IF hit.contradicted THEN "partial"
                                   ELSE band_of(hit.match_score)],
           hit |-> hit]

\* No result, or one the table does not have, costs as much as giving up.
DocumentPoints(status) ==
  IF status = "Approved" THEN 0
  ELSE IF status = "In Review" THEN 10
  ELSE IF status \in {"In Progress", "Awaiting User", "Resubmitted"} THEN 20
  ELSE IF status = "Declined" THEN 40
  ELSE 30

score_document_check(status) ==
  IF DocumentPoints(status) = 0 THEN NoSignal
  ELSE Rule(status, DocumentPoints(status))

score_country(country) ==
  IF country = "unlisted" THEN NoSignal
  ELSE Rule(country, IF country = "call_for_action" THEN 40 ELSE 15)

\* Context that costs nothing: how many candidates there were, if there was not just one,
\* and the ten best scores (the search has sorted them).
Candidates(hits) ==
  IF Len(hits) <= 1 THEN None
  ELSE [count |-> Len(hits),
        scores |-> [i \in {n \in DOMAIN hits : n <= 10} |-> hits[i].match_score]]

-----------------------------------------------------------------------------
(* score_application.                                                      *)

AutoApproveBelow == 20
AutoRejectFrom == 80

\* (Mutant: the points alone decide.)
ByPoints(total, hits) ==
  IF total < AutoApproveBelow THEN "approve"
  ELSE IF total >= AutoRejectFrom THEN "reject" ELSE "review"

\* Somebody with a sanctions hit is reviewed whatever the points say.
RouteOf(total, hits) ==
  IF Finds(hits, "sanctions") THEN "review"
  ELSE IF total < AutoApproveBelow THEN "approve"
  ELSE IF total >= AutoRejectFrom THEN "reject" ELSE "review"

Signals(p) ==
  [sanctions |-> MatchSignal(p.hits, "sanctions"),
   pep |-> MatchSignal(p.hits, "pep"),
   adverse_media |-> MatchSignal(p.hits, "adverse_media"),
   document |-> score_document_check(p.vendor_status),
   country |-> score_country(p.country),
   candidates |-> Candidates(p.hits)]

Total(s) == s.sanctions.points + s.pep.points + s.adverse_media.points
            + s.document.points + s.country.points

score_application(p) ==
  [signals |-> Signals(p), score |-> Total(Signals(p)),
   routing |-> RouteOf(Total(Signals(p)), p.hits)]

\* What a case of CaseFile may be found to be is what score_application says of the
\* applicant's profile, with its score and its routing.
ASSUME ScoringAssumption ==
  /\ None \notin Hits /\ \A hit \in Hits : IsScored(hit)
  /\ Profile \in [DOMAIN Finding -> Profiles]
  /\ \A e \in DOMAIN Finding : /\ Profile[e].vendor_status = e[1]
                               /\ Finding[e] = score_application(Profile[e])
                               /\ Found[e] = {Profile[e].hits[i] : i \in DOMAIN Profile[e].hits}
  /\ Findings = {Finding[e] : e \in DOMAIN Finding}
  /\ \A f \in Findings : Score[f] = f.score /\ Routing[f] = f.routing

-----------------------------------------------------------------------------
(* Properties.                                                             *)

Charged(signals) == {rule \in {"pep", "adverse_media", "document", "country"} :
                       signals[rule].points > 0}

\* What the document check says of documents the vendor passed, or is reviewing.
PassedOrReviewed == {"nothing", "In Review"}

\* Whatever is found in whatever order, the system itself gives no verdict on anyone
\* who has a sanctions hit; it refuses nobody for one reason alone, and approves nobody
\* whose documents the vendor neither passed nor reviews, or whose country is under a
\* call for action; it refers nobody without a reason, and unless there is a sanctions
\* hit nobody whom the country and the documents alone refuse: their sum is the threshold
\* (test_sanctions_routing.py, test_scoring.py:187, and the comments on the points).
AutomaticVerdictsStand ==
  \A i \in DOMAIN decisions :
    LET outcome == decisions[i].outcome
        signals == decisions[i].risk.finding.signals
    IN decisions[i].by = "system" =>
         /\ outcome \in Verdicts => signals.sanctions = NoSignal
         /\ outcome = "rejected" => Cardinality(Charged(signals)) >= 2
         /\ outcome = "approved" => /\ signals.document.says \in PassedOrReviewed
                                    /\ signals.country.says # "call_for_action"
         /\ outcome = "referred" /\ signals.sanctions = NoSignal =>
              /\ Charged(signals) # {}
              /\ ~ /\ signals.document.says = "Declined"
                   /\ signals.country.says = "call_for_action"
=============================================================================
