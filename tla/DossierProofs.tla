--------------------------- MODULE DossierProofs ---------------------------
(***************************************************************************)
(* What the system decides by itself, and what holds of the matches on     *)
(* record, for any applicant, any hits, lists and rulesets, and any        *)
(* interleaving of CaseFile's steps.                                       *)
(***************************************************************************)
EXTENDS Dossier, CaseFileProofs

-----------------------------------------------------------------------------
(* What one assessment says.                                               *)

\* What a hit of a type may cost.
LEMMA HitPoints ==
  ASSUME NEW p \in Profiles
  PROVE  /\ MatchSignal(p.hits, "pep").points \in 0..30
         /\ MatchSignal(p.hits, "adverse_media").points \in 0..10
         /\ ~Finds(p.hits, "sanctions") => MatchSignal(p.hits, "sanctions") = NoSignal
BY DEF MatchSignal, Points, NoSignal, Rule, band_of

\* What a result of the document check costs, and what it says.
LEMMA DocumentCost ==
  ASSUME NEW v
  PROVE  /\ score_document_check(v).points \in 0..40
         /\ score_document_check(v).points < 20 =>
              score_document_check(v).says \in PassedOrReviewed
<1> DEFINE signal == score_document_check(v)
           passed == v \in PassedOrReviewed
<1>1. \/ DocumentPoints(v) = 0
      \/ DocumentPoints(v) = 10 /\ passed
      \/ DocumentPoints(v) \in {20, 30, 40}
  BY Zenon DEF DocumentPoints, PassedOrReviewed
<1> HIDE DEF passed
<1>2. CASE DocumentPoints(v) = 0
  <2>1. signal = NoSignal
    BY <1>2, Zenon DEF score_document_check
  <2>2. signal.points = 0 /\ signal.says = "nothing"
    BY <2>1 DEF NoSignal, Rule
  <2>3. signal.says \in PassedOrReviewed
    BY <2>2, Zenon DEF PassedOrReviewed
  <2>4. QED
    BY <2>2, <2>3
<1>3. ASSUME NEW cost \in 10..40, DocumentPoints(v) = cost, cost < 20 => passed
      PROVE  signal.points \in 0..40 /\ (signal.points < 20 => signal.says \in PassedOrReviewed)
  <2>1. cost # 0
    BY <1>3
  <2>2. signal = Rule(v, cost)
    BY <1>3, <2>1, Zenon DEF score_document_check
  <2>3. signal.points = cost /\ signal.says = v
    BY <2>2 DEF Rule
  <2>4. QED
    BY <1>3, <2>3 DEF passed
<1>4. CASE DocumentPoints(v) = 10 /\ passed
  BY <1>3, <1>4
<1>5. CASE DocumentPoints(v) \in {20, 30, 40}
  BY <1>3, <1>5
<1>6. QED
  BY <1>1, <1>2, <1>4, <1>5

\* What the documents and the country cost, and what they say when they cost little.
LEMMA OtherPoints ==
  ASSUME NEW p \in Profiles
  PROVE  /\ score_document_check(p.vendor_status).points \in 0..40
         /\ score_country(p.country).points \in 0..40
         /\ score_document_check(p.vendor_status).points < 20 =>
              score_document_check(p.vendor_status).says \in PassedOrReviewed
         /\ score_country(p.country).points < 20 =>
              score_country(p.country).says # "call_for_action"
<1>4. p.country \in {"call_for_action", "increased_monitoring", "unlisted"}
  BY DEF Profiles
<1>5. /\ score_country(p.country).points \in 0..40
      /\ score_country(p.country).points < 20 =>
           score_country(p.country).says # "call_for_action"
  <2>1. CASE p.country = "unlisted"
    BY <2>1 DEF score_country, NoSignal, Rule
  <2>2. CASE p.country = "increased_monitoring"
    BY <2>2 DEF score_country, Rule
  <2>3. CASE p.country = "call_for_action"
    BY <2>3 DEF score_country, Rule
  <2>4. QED
    BY <1>4, <2>1, <2>2, <2>3
<1>6. QED
  BY <1>5, DocumentCost

\* Two different members make two.
LEMMA TwoMembers ==
  ASSUME NEW S, IsFiniteSet(S), NEW x \in S, NEW y \in S, x # y
  PROVE  Cardinality(S) >= 2
<1>1. IsFiniteSet({x, y}) /\ Cardinality({x, y}) = 2
  <2>1. IsFiniteSet({x}) /\ Cardinality({x}) = 1
    BY FS_Singleton, Zenon
  <2>2. /\ IsFiniteSet({x} \cup {y})
        /\ Cardinality({x} \cup {y}) = IF y \in {x} THEN Cardinality({x}) ELSE Cardinality({x}) + 1
    BY <2>1, FS_AddElement, Zenon
  <2>3. {x} \cup {y} = {x, y} /\ y \notin {x}
    OBVIOUS
  <2>4. QED
    BY <2>1, <2>2, <2>3
<1>2. Cardinality({x, y}) <= Cardinality(S)
  <2>1. {x, y} \in SUBSET S
    OBVIOUS
  <2>2. QED
    BY <2>1, FS_Subset, Zenon
<1>3. QED
  BY <1>1, <1>2, FS_CardinalityType

\* An assessment that sends nobody to review stands on what AutomaticVerdictsStand asks.
LEMMA RoutingStands ==
  ASSUME NEW p \in Profiles, score_application(p).routing # "review"
  PROVE  LET a == score_application(p)
         IN /\ a.signals.sanctions = NoSignal
            /\ a.routing = "reject" => Cardinality(Charged(a.signals)) >= 2
            /\ a.routing = "approve" => /\ a.signals.document.says \in PassedOrReviewed
                                        /\ a.signals.country.says # "call_for_action"
<1> DEFINE s == Signals(p)
<1>1. ~Finds(p.hits, "sanctions")
  BY DEF score_application, RouteOf
<1>2. /\ s.pep.points \in 0..30 /\ s.adverse_media.points \in 0..10
      /\ s.document.points \in 0..40 /\ s.country.points \in 0..40
      /\ s.sanctions = NoSignal
  BY <1>1, HitPoints, OtherPoints DEF Signals
<1>3. s.sanctions.points = 0
  BY <1>2 DEF NoSignal, Rule
<1>4. /\ score_application(p).signals = s
      /\ score_application(p).routing = RouteOf(Total(s), p.hits)
  BY DEF score_application
<1>5. Total(s) = s.pep.points + s.adverse_media.points + s.document.points + s.country.points
  BY <1>2, <1>3 DEF Total
<1>6. ASSUME RouteOf(Total(s), p.hits) = "reject"
      PROVE  Cardinality(Charged(s)) >= 2
  <2>1. Total(s) >= 80
    BY <1>1, <1>6 DEF RouteOf, AutoRejectFrom, AutoApproveBelow
  <2>2. IsFiniteSet(Charged(s))
    <3>1. IsFiniteSet({"pep", "adverse_media", "document", "country"})
      <4>1. IsFiniteSet({}) /\ IsFiniteSet({} \cup {"pep"})
        BY FS_EmptySet, FS_AddElement
      <4>2. IsFiniteSet(({} \cup {"pep"}) \cup {"adverse_media"})
        BY <4>1, FS_AddElement
      <4>3. IsFiniteSet((({} \cup {"pep"}) \cup {"adverse_media"}) \cup {"document"})
        BY <4>2, FS_AddElement
      <4>4. IsFiniteSet(((({} \cup {"pep"}) \cup {"adverse_media"}) \cup {"document"})
                        \cup {"country"})
        BY <4>3, FS_AddElement
      <4>5. ((({} \cup {"pep"}) \cup {"adverse_media"}) \cup {"document"}) \cup {"country"}
            = {"pep", "adverse_media", "document", "country"}
        OBVIOUS
      <4>6. QED
        BY <4>4, <4>5
    <3>2. Charged(s) \subseteq {"pep", "adverse_media", "document", "country"}
      BY DEF Charged
    <3>3. QED
      BY <3>1, <3>2, FS_Subset
  <2>3. /\ s["pep"] = s.pep /\ s["adverse_media"] = s.adverse_media
        /\ s["document"] = s.document /\ s["country"] = s.country
    OBVIOUS
  <2>4. CASE s.document.points > 0 /\ s.country.points > 0
    <3>1. "document" \in Charged(s) /\ "country" \in Charged(s)
      BY <2>4, <2>3 DEF Charged
    <3>2. QED
      BY <3>1, <2>2, TwoMembers
  <2>5. CASE ~(s.document.points > 0 /\ s.country.points > 0)
    <3>1. s.pep.points > 0 /\ s.adverse_media.points > 0
      BY <1>2, <1>5, <2>1, <2>5
    <3>2. "pep" \in Charged(s) /\ "adverse_media" \in Charged(s)
      BY <3>1, <2>3 DEF Charged
    <3>3. QED
      BY <3>2, <2>2, TwoMembers
  <2>6. QED
    BY <2>4, <2>5
<1>7. ASSUME RouteOf(Total(s), p.hits) = "approve"
      PROVE  s.document.says \in PassedOrReviewed /\ s.country.says # "call_for_action"
  <2>1. Total(s) < 20
    BY <1>1, <1>7 DEF RouteOf, AutoApproveBelow
  <2>2. s.document.points < 20 /\ s.country.points < 20
    BY <1>2, <1>5, <2>1
  <2>3. QED
    BY <2>2, OtherPoints DEF Signals
<1>8. QED
  BY <1>2, <1>4, <1>6, <1>7

\* A sanctions hit is never without a signal.
LEMMA HitSignals ==
  ASSUME NEW p \in Profiles, MatchSignal(p.hits, "sanctions") = NoSignal
  PROVE  ~Finds(p.hits, "sanctions")
<1> SUFFICES ASSUME Finds(p.hits, "sanctions") PROVE FALSE
  OBVIOUS
<1>1. MatchSignal(p.hits, "sanctions").points \in {20, 45, 60}
  BY DEF MatchSignal, Points, band_of
<1>2. QED
  BY <1>1 DEF NoSignal, Rule

\* What is said of declined documents, and of a call for action, costs 40.
LEMMA DearestPoints ==
  ASSUME NEW v, NEW country \in {"call_for_action", "increased_monitoring", "unlisted"}
  PROVE  /\ score_document_check(v).says = "Declined" => score_document_check(v).points = 40
         /\ score_country(country).says = "call_for_action" => score_country(country).points = 40
<1>1. ASSUME score_document_check(v).says = "Declined"
      PROVE  score_document_check(v).points = 40
  <2>1. DocumentPoints(v) # 0
    BY <1>1 DEF score_document_check, NoSignal, Rule
  <2>2. score_document_check(v) = Rule(v, DocumentPoints(v))
    BY <2>1 DEF score_document_check
  <2>3. v = "Declined" /\ score_document_check(v).points = DocumentPoints(v)
    BY <1>1, <2>2 DEF Rule
  <2>4. QED
    BY <2>3 DEF DocumentPoints
<1>2. score_country(country).says = "call_for_action" => score_country(country).points = 40
  BY DEF score_country, NoSignal, Rule
<1>3. QED
  BY <1>1, <1>2

\* An assessment that sends somebody to review has a reason, and it is the sanctions hit
\* when the country and the documents alone reach the threshold.
LEMMA ReferralStands ==
  ASSUME NEW p \in Profiles, score_application(p).routing = "review",
         score_application(p).signals.sanctions = NoSignal
  PROVE  LET a == score_application(p)
         IN /\ Charged(a.signals) # {}
            /\ ~ /\ a.signals.document.says = "Declined"
                 /\ a.signals.country.says = "call_for_action"
<1> DEFINE s == Signals(p)
<1>1. /\ score_application(p).signals = s
      /\ RouteOf(Total(s), p.hits) = "review"
  BY DEF score_application
<1>2. ~Finds(p.hits, "sanctions")
  BY <1>1, HitSignals DEF Signals
<1>3. /\ s.pep.points \in 0..30 /\ s.adverse_media.points \in 0..10
      /\ s.document.points \in 0..40 /\ s.country.points \in 0..40
      /\ s.sanctions.points = 0
  BY <1>1, HitPoints, OtherPoints DEF Signals, NoSignal, Rule
<1>4. Total(s) = s.pep.points + s.adverse_media.points + s.document.points + s.country.points
  BY <1>3 DEF Total
<1>5. Total(s) >= 20 /\ Total(s) < 80
  BY <1>1, <1>2, <1>3, <1>4 DEF RouteOf, AutoApproveBelow, AutoRejectFrom
<1>6. Charged(s) # {}
  <2>1. /\ s["pep"] = s.pep /\ s["adverse_media"] = s.adverse_media
        /\ s["document"] = s.document /\ s["country"] = s.country
    OBVIOUS
  <2>2. \/ s.pep.points > 0 \/ s.adverse_media.points > 0
        \/ s.document.points > 0 \/ s.country.points > 0
    BY <1>3, <1>4, <1>5
  <2>3. QED
    BY <2>1, <2>2 DEF Charged
<1>7. ~(s.document.says = "Declined" /\ s.country.says = "call_for_action")
  <2>1. s.document = score_document_check(p.vendor_status) /\ s.country = score_country(p.country)
        /\ p.country \in {"call_for_action", "increased_monitoring", "unlisted"}
    BY DEF Signals, Profiles
  <2>2. s.document.says = "Declined" /\ s.country.says = "call_for_action" =>
          s.document.points = 40 /\ s.country.points = 40
    BY <2>1, DearestPoints
  <2>3. QED
    BY <1>3, <1>4, <1>5, <2>2
<1>8. QED
  BY <1>1, <1>6, <1>7

-----------------------------------------------------------------------------
(* The verdicts of the system.                                             *)

\* A row of the system says what the finding it carries was routed to.
SystemObeys ==
  \A i \in DOMAIN decisions :
    decisions[i].by = "system" =>
      decisions[i].outcome = OutcomeOf(Routing[decisions[i].risk.finding])

LEMMA ObeysNext == TInv /\ SystemObeys /\ [Next]_vars => SystemObeys'
<1> SUFFICES ASSUME TInv, SystemObeys, [Next]_vars PROVE SystemObeys'
  OBVIOUS
<1>0. decisions \in Seq(Decisions)
  BY DEF TInv, TypeOK
<1>1. ASSUME UNCHANGED decisions PROVE SystemObeys'
  BY <1>1 DEF SystemObeys
<1>2. ASSUME NEW o, NEW by, NEW risk, decisions' = Append(decisions, Decision(o, by, risk)),
             by = "system" => o = OutcomeOf(Routing[risk.finding])
      PROVE  SystemObeys'
  <2>1. /\ DOMAIN decisions' = 1..(Len(decisions) + 1)
        /\ DOMAIN decisions = 1..Len(decisions) /\ Len(decisions) \in Nat
        /\ decisions'[Len(decisions) + 1] = Decision(o, by, risk)
        /\ \A i \in 1..Len(decisions) : decisions'[i] = decisions[i]
    BY <1>0, <1>2
  <2>2. QED
    BY <2>1, <1>2 DEF SystemObeys, Decision
<1>3. ASSUME NEW o, NEW by \in {"officer", "reviewer"}, RecordDecision(o, by)
      PROVE  SystemObeys'
  BY <1>2, <1>3 DEF RecordDecision
<1>4. CASE Web
  BY <1>1, <1>3, <1>4
     DEF Web, CreateSession, RecordSession, LoseSession, Deliver, Decide, ListForReview,
         Review, SkipReview, outside
<1>5. ASSUME NEW r \in Runs, Worker(r) PROVE SystemObeys'
  <2>1. CASE StoreScreening(r)
    BY <1>1, <1>2, <2>1 DEF StoreScreening
  <2>2. CASE ~StoreScreening(r)
    BY <1>1, <1>5, <2>2
       DEF Worker, LoadEvent, LoadSweep, Ask, ApplyResult, RefuseResult, ParkEvent,
           RecordNotFound, FailAsking, LoadScreening, SkipScreening, ParkScreening, Search,
           FailScreening, outside
  <2>3. QED
    BY <2>1, <2>2
<1>6. CASE Expire
  BY <1>1, <1>6 DEF Expire
<1>7. CASE World
  BY <1>1, <1>7 DEF World, Forget, Report, LoadList, DeployRuleset, HourPasses, inside
<1>8. CASE UNCHANGED vars
  BY <1>1, <1>8 DEF vars
<1>9. QED
  BY <1>4, <1>5, <1>6, <1>7, <1>8 DEF Next

\* The system never decides about somebody with a sanctions hit, refuses nobody for one
\* reason, approves nobody with bad documents and refers nobody it should refuse: for every
\* profile, list and ruleset.
THEOREM SystemVerdictsStand == Spec => []AutomaticVerdictsStand
<1>1. Init => SystemObeys
  BY DEF Init, SystemObeys
<1>2. TInv /\ SystemObeys => AutomaticVerdictsStand
  <2> SUFFICES ASSUME TInv, SystemObeys, NEW i \in DOMAIN decisions,
                      decisions[i].by = "system"
               PROVE  LET outcome == decisions[i].outcome
                          signals == decisions[i].risk.finding.signals
                      IN /\ outcome \in Verdicts => signals.sanctions = NoSignal
                         /\ outcome = "rejected" => Cardinality(Charged(signals)) >= 2
                         /\ outcome = "approved" =>
                              /\ signals.document.says \in PassedOrReviewed
                              /\ signals.country.says # "call_for_action"
                         /\ outcome = "referred" /\ signals.sanctions = NoSignal =>
                              /\ Charged(signals) # {}
                              /\ ~ /\ signals.document.says = "Declined"
                                   /\ signals.country.says = "call_for_action"
    BY DEF AutomaticVerdictsStand
  <2> DEFINE f == decisions[i].risk.finding
  <2>1. f \in Findings
    <3>1. decisions \in Seq(Decisions)
      BY DEF TInv, TypeOK
    <3>2. decisions[i] \in Decisions
      BY <3>1
    <3>3. QED
      BY <3>2 DEF Decisions, Assessments
  <2>2. PICK e \in DOMAIN Finding : f = Finding[e]
    BY <2>1, ScoringAssumption
  <2>3. Profile[e] \in Profiles /\ f = score_application(Profile[e])
        /\ Routing[f] = score_application(Profile[e]).routing
    BY <2>1, <2>2, ScoringAssumption
  <2>4. Routing[f] \in {"approve", "review", "reject"}
    BY <2>1, CaseFileAssumption
  <2>5. decisions[i].outcome = OutcomeOf(Routing[f])
    BY DEF SystemObeys
  <2>6. /\ decisions[i].outcome \in Verdicts => Routing[f] # "review"
        /\ decisions[i].outcome = "rejected" => Routing[f] = "reject"
        /\ decisions[i].outcome = "approved" => Routing[f] = "approve"
        /\ decisions[i].outcome = "referred" => Routing[f] = "review"
    BY <2>4, <2>5 DEF OutcomeOf, Verdicts
  <2>7. CASE Routing[f] = "review"
    BY <2>3, <2>6, <2>7, ReferralStands
  <2>8. CASE Routing[f] # "review"
    BY <2>3, <2>6, <2>8, RoutingStands
  <2>9. QED
    BY <2>7, <2>8
<1>3. QED
  BY <1>1, <1>2, ObeysNext, Typed, PTL DEF Spec

-----------------------------------------------------------------------------
(* What an assessment charges.                                             *)

ChargedHits(finding) == {finding.signals[type].hit : type \in MatchTypes} \ {None}

HitSet(p) == {p.hits[i] : i \in DOMAIN p.hits}

Stronger(hit, other) ==
  hit.match_type = other.match_type /\ hit.match_score >= other.match_score

\* Among hits there is a first strongest one of every type that is found.
LEMMA StrongestIs ==
  ASSUME NEW hits \in Seq(Hits), NEW type, Finds(hits, type)
  PROVE  LET n == Strongest(hits, type)
         IN /\ n \in DOMAIN hits /\ hits[n].match_type = type
            /\ \A j \in DOMAIN hits :
                 hits[j].match_type = type => hits[j].match_score <= hits[n].match_score
<1> DEFINE Of == {i \in DOMAIN hits : hits[i].match_type = type}
           Scores == {hits[i].match_score : i \in Of}
<1>1. /\ DOMAIN hits = 1..Len(hits) /\ Len(hits) \in Nat
      /\ \A i \in DOMAIN hits : hits[i].match_score \in 1..100
  <2>1. DOMAIN hits = 1..Len(hits) /\ Len(hits) \in Nat /\ \A i \in DOMAIN hits : hits[i] \in Hits
    OBVIOUS
  <2>2. \A hit \in Hits : hit.match_score \in 1..100
    BY ScoringAssumption DEF IsScored
  <2>3. QED
    BY <2>1, <2>2
<1>2. PICK top \in Scores : \A s \in Scores : s <= top
  <2>1. Scores \in SUBSET Nat /\ Scores # {} /\ 100 \in Nat /\ \A s \in Scores : s <= 100
    <3>1. \A i \in Of : hits[i].match_score \in Nat /\ hits[i].match_score <= 100
      <4>1. \A n \in 1..100 : n \in Nat /\ n <= 100
        OBVIOUS
      <4>2. \A i \in Of : hits[i].match_score \in 1..100
        BY <1>1
      <4>3. QED
        BY <4>1, <4>2
    <3>2. Of # {}
      BY DEF Finds
    <3> HIDE DEF Of
    <3>3. QED
      BY <3>1, <3>2
  <2> HIDE DEF Scores
  <2>2. QED
    BY <2>1, Greatest
<1> DEFINE Best == {i \in Of : hits[i].match_score = top}
           FromEnd == {Len(hits) - i : i \in Best}
<1>3. PICK last \in FromEnd : \A s \in FromEnd : s <= last
  <2>1. FromEnd \in SUBSET Nat /\ FromEnd # {} /\ \A s \in FromEnd : s <= Len(hits)
    BY <1>1, <1>2
  <2> HIDE DEF FromEnd
  <2>2. QED
    BY <1>1, <2>1, Greatest
<1>4. PICK first \in Best : \A i \in Best : first <= i
  <2>1. PICK first \in Best : last = Len(hits) - first
    BY <1>3
  <2>2. \A i \in Best : Len(hits) - i <= Len(hits) - first
    BY <1>3, <2>1
  <2>3. QED
    BY <1>1, <2>1, <2>2
<1>5. \A j \in DOMAIN hits :
        hits[j].match_type = type =>
          /\ hits[j].match_score <= hits[first].match_score
          /\ j < first => hits[j].match_score < hits[first].match_score
  <2> SUFFICES ASSUME NEW j \in DOMAIN hits, hits[j].match_type = type
               PROVE  /\ hits[j].match_score <= hits[first].match_score
                      /\ j < first => hits[j].match_score < hits[first].match_score
    OBVIOUS
  <2>1. j \in Of /\ hits[j].match_score \in Scores /\ hits[first].match_score = top
    BY <1>4
  <2>2. hits[j].match_score <= top
    BY <1>2, <2>1
  <2>3. j < first => hits[j].match_score # top
    BY <1>1, <1>4, <2>1
  <2>4. hits[first].match_score \in 1..100 /\ hits[j].match_score \in 1..100
    BY <1>1, <1>4
  <2>5. hits[first].match_score = top
    BY <1>4
  <2> HIDE DEF Of, Scores, Best
  <2>6. /\ hits[j].match_score <= hits[first].match_score
        /\ j < first => hits[j].match_score # hits[first].match_score
    BY <2>2, <2>3, <2>5
  <2>7. \A a, b \in 1..100 : a <= b /\ a # b => a < b
    OBVIOUS
  <2>8. QED
    BY <2>4, <2>6, <2>7
<1>6. first \in DOMAIN hits /\ hits[first].match_type = type
  BY <1>4
<1> HIDE DEF Best, FromEnd, Of, Scores
<1>7. QED
  BY <1>5, <1>6 DEF Strongest

\* Every hit charged is one that was found, and no hit found is stronger than the one
\* of its type that is charged.
LEMMA ChargesTheStrongest ==
  ASSUME NEW p \in Profiles
  PROVE  LET charged == ChargedHits(score_application(p))
         IN /\ charged \subseteq HitSet(p)
            /\ \A other \in HitSet(p) : \E hit \in charged : Stronger(hit, other)
<1> DEFINE charged == ChargedHits(score_application(p))
           signals == score_application(p).signals
<1>1. \A type \in MatchTypes : signals[type] = MatchSignal(p.hits, type)
  BY DEF score_application, Signals, MatchTypes
<1>2. p.hits \in Seq(Hits)
  BY DEF Profiles
<1> HIDE DEF signals
<1>3. ASSUME NEW type \in MatchTypes
      PROVE  /\ Finds(p.hits, type) => signals[type].hit = p.hits[Strongest(p.hits, type)]
             /\ ~Finds(p.hits, type) => signals[type].hit = None
  <2>1. ASSUME Finds(p.hits, type)
        PROVE  signals[type].hit = p.hits[Strongest(p.hits, type)]
    <3>1. \E says, points :
            signals[type] = [says |-> says, points |-> points,
                             hit |-> p.hits[Strongest(p.hits, type)]]
      BY <1>1, <2>1, Zenon DEF MatchSignal
    <3>2. QED
      BY <3>1
  <2>2. ASSUME ~Finds(p.hits, type) PROVE signals[type].hit = None
    <3>1. signals[type] = NoSignal
      BY <1>1, <2>2, Zenon DEF MatchSignal
    <3>2. QED
      BY <3>1 DEF NoSignal, Rule
  <2>3. QED
    BY <2>1, <2>2
<1>4. charged = {signals[type].hit : type \in MatchTypes} \ {None}
  BY DEF ChargedHits, signals
<1> HIDE DEF charged
<1>5. charged \subseteq HitSet(p)
  <2> SUFFICES ASSUME NEW type \in MatchTypes, signals[type].hit # None
               PROVE  signals[type].hit \in HitSet(p)
    BY <1>4
  <2>1. Finds(p.hits, type)
    BY <1>3
  <2>2. QED
    BY <1>2, <1>3, <2>1, StrongestIs DEF HitSet
<1>6. ASSUME NEW other \in HitSet(p)
      PROVE  \E hit \in charged : Stronger(hit, other)
  <2>1. PICK j \in DOMAIN p.hits : other = p.hits[j]
    BY DEF HitSet
  <2>2. other \in Hits
    BY <1>2, <2>1
  <2> DEFINE type == other.match_type
             hit == p.hits[Strongest(p.hits, type)]
  <2>3. type \in MatchTypes /\ other.match_score \in 1..100
    BY <2>2, ScoringAssumption DEF IsScored
  <2>4. Finds(p.hits, type)
    BY <2>1 DEF Finds
  <2>5. /\ Strongest(p.hits, type) \in DOMAIN p.hits
        /\ hit.match_type = type /\ other.match_score <= hit.match_score
    BY <1>2, <2>1, <2>4, StrongestIs
  <2>6. hit \in Hits
    BY <1>2, <2>5
  <2>7. hit # None
    BY <2>6, ScoringAssumption
  <2>8. signals[type].hit = hit
    BY <1>3, <2>3, <2>4
  <2>9. hit \in charged
    BY <1>4, <2>3, <2>7, <2>8
  <2>10. Stronger(hit, other)
    BY <2>3, <2>5, <2>6, ScoringAssumption DEF Stronger, IsScored
  <2>11. QED
    BY <2>9, <2>10
<1>7. QED
  BY <1>5, <1>6 DEF charged

-----------------------------------------------------------------------------
(* The matches.  There are none before the first decision; from then on    *)
(* they back the score on record, which no step changes any more, and an   *)
(* assessment that is about to be stored is that of the hits it brings.    *)

Backed(risk) ==
  /\ \A hit \in ChargedHits(risk.finding) : [hit |-> hit, list |-> risk.list] \in matches
  /\ \A m \in matches : \E hit \in ChargedHits(risk.finding) : Stronger(hit, m.hit)

FoundIsScored ==
  \A r \in Runs : run[r].at = "storing" => run[r].found.finding = Finding[FoundHow(r)]

MatchesBack ==
  /\ decisions = <<>> => matches = {}
  /\ decisions # <<>> => Backed(row.risk)

MInv == MatchesBack /\ FoundIsScored

LEMMA MInvInit == Init => MInv
BY DEF Init, Idle, MInv, MatchesBack, FoundIsScored

\* What an execution found is what score_application says of a profile, and the hits it
\* would record are those of the profile.
LEMMA FoundProfile ==
  ASSUME TInv, FoundIsScored, NEW r \in Runs, run[r].at = "storing"
  PROVE  \E p \in Profiles :
           /\ run[r].found.finding = score_application(p)
           /\ HitsOf(r) = HitSet(p)
<1>1. FoundHow(r) \in DOMAIN Finding
  BY MatchesStep
<1>2. /\ Profile[FoundHow(r)] \in Profiles
      /\ Finding[FoundHow(r)] = score_application(Profile[FoundHow(r)])
  BY <1>1, ScoringAssumption
<1>3. HitsOf(r) = HitSet(Profile[FoundHow(r)])
  BY <1>1, ScoringAssumption DEF HitsOf, HitSet, FoundHow
<1>4. QED
  BY <1>2, <1>3 DEF FoundIsScored

\* An execution that has searched and scored goes on; every other one forgets.
LEMMA FoundStep ==
  ASSUME TInv, FoundIsScored, [Next]_vars
  PROVE  FoundIsScored'
<1>1. ASSUME UNCHANGED run PROVE FoundIsScored'
  BY <1>1 DEF FoundIsScored, FoundHow
<1>2. ASSUME NEW r \in Runs, NEW e, run' = [run EXCEPT ![r] = e], e.at # "storing"
      PROVE  FoundIsScored'
  <2>1. run'[r] = e /\ \A q \in Runs \ {r} : run'[q] = run[q]
    BY <1>2 DEF TInv, TypeOK
  <2>2. QED
    BY <1>2, <2>1 DEF FoundIsScored, FoundHow
<1>3. ASSUME NEW r \in Runs, Finish(r) PROVE FoundIsScored'
  <2>1. run' = [run EXCEPT ![r] = Idle] /\ Idle.at # "storing"
    BY <1>3 DEF Finish, Idle
  <2>2. QED
    BY <1>2, <2>1
<1>4. ASSUME NEW r \in Runs, NEW task, NEW n, NEW at \in {"asking", "searching"},
             Begin(r, task, n, at)
      PROVE  FoundIsScored'
  <2> DEFINE e == [at |-> at, for |-> task, no |-> n, seen |-> row, answer |-> None,
                   found |-> None]
  <2>1. run' = [run EXCEPT ![r] = e] /\ e.at # "storing"
    BY <1>4 DEF Begin
  <2> HIDE DEF e
  <2>2. QED
    BY <1>2, <2>1
<1>5. ASSUME NEW r \in Runs, Ask(r) PROVE FoundIsScored'
  <2>1. run'[r].at = "applying" /\ \A q \in Runs \ {r} : run'[q] = run[q]
    BY <1>5 DEF Ask, TInv, TypeOK, Executions
  <2>2. QED
    BY <2>1 DEF FoundIsScored, FoundHow
<1>6. ASSUME NEW r \in Runs, Search(r) PROVE FoundIsScored'
  <2>1. /\ run'[r].found = [finding |-> Finding[<<run[r].seen.vendorStatus, list, ruleset>>],
                            ruleset |-> ruleset, list |-> list]
        /\ run'[r].seen = run[r].seen
        /\ \A q \in Runs \ {r} : run'[q] = run[q]
    BY <1>6 DEF Search, TInv, TypeOK, Executions
  <2>2. run'[r].found.finding = Finding[FoundHow(r)]'
    BY <2>1 DEF FoundHow
  <2>3. QED
    BY <2>1, <2>2 DEF FoundIsScored, FoundHow
<1>7. CASE Web
  BY <1>1, <1>7
     DEF Web, CreateSession, RecordSession, LoseSession, Deliver, Decide, ListForReview,
         Review, SkipReview, outside
<1>8. ASSUME NEW r \in Runs, Worker(r) PROVE FoundIsScored'
  <2>1. CASE \/ \E n \in 1..MaxResults : LoadEvent(r, n)
             \/ LoadSweep(r) \/ \E j \in DOMAIN screens : LoadScreening(r, j)
    BY <1>4, <2>1 DEF LoadEvent, LoadSweep, LoadScreening
  <2>2. CASE \/ ApplyResult(r) \/ RefuseResult(r) \/ ParkEvent(r) \/ RecordNotFound(r)
             \/ FailAsking(r) \/ SkipScreening(r) \/ ParkScreening(r) \/ StoreScreening(r)
             \/ FailScreening(r)
    BY <1>3, <2>2
       DEF ApplyResult, RefuseResult, ParkEvent, RecordNotFound, FailAsking, SkipScreening,
           ParkScreening, StoreScreening, FailScreening
  <2>3. QED
    BY <1>5, <1>6, <1>8, <2>1, <2>2 DEF Worker
<1>9. CASE Expire
  BY <1>1, <1>9 DEF Expire
<1>10. CASE World
  BY <1>1, <1>10 DEF World, Forget, Report, LoadList, DeployRuleset, HourPasses, inside
<1>11. CASE UNCHANGED vars
  BY <1>1, <1>11 DEF vars
<1>12. QED
  BY <1>7, <1>8, <1>9, <1>10, <1>11 DEF Next

\* A decision taken on the score on record leaves the matches as they back it.
LEMMA BackedByOthers ==
  ASSUME TInv, CInv, MatchesBack, [Next]_vars, \A r \in Runs : ~StoreScreening(r)
  PROVE  MatchesBack'
<1>0. /\ decisions \in Seq(Decisions) /\ row \in Rows
      /\ row.risk # None <=> decisions # <<>>
  BY DEF TInv, TypeOK, CInv, Record, ScoredIsRouted
<1>1. ASSUME row'.risk = row.risk, decisions' = <<>> <=> decisions = <<>>, UNCHANGED matches
      PROVE  MatchesBack'
  BY <1>1 DEF MatchesBack, Backed
<1>2. ASSUME UNCHANGED <<decisions, matches>>, row'.risk = row.risk PROVE MatchesBack'
  BY <1>1, <1>2
<1>3. ASSUME NEW o, NEW by, RecordDecision(o, by), UNCHANGED matches PROVE MatchesBack'
  <2>1. decisions # <<>> /\ row'.risk = row.risk
    BY <1>0, <1>3 DEF RecordDecision, Scored, Rows
  <2>2. PICK d : decisions' = Append(decisions, d)
    BY <1>3 DEF RecordDecision
  <2>3. decisions' # <<>>
    BY <1>0, <2>2
  <2>4. QED
    BY <1>1, <1>3, <2>1, <2>3
<1>4. CASE Web
  BY <1>0, <1>2, <1>3, <1>4
     DEF Web, CreateSession, RecordSession, LoseSession, Deliver, Decide, ListForReview,
         Review, SkipReview, outside, Rows
<1>5. ASSUME NEW r \in Runs, Worker(r) PROVE MatchesBack'
  <2>1. UNCHANGED <<decisions, matches>>
    BY <1>5
       DEF Worker, LoadEvent, LoadSweep, Ask, ApplyResult, RefuseResult, ParkEvent,
           RecordNotFound, FailAsking, LoadScreening, SkipScreening, ParkScreening, Search,
           FailScreening, outside
  <2>2. row'.risk = row.risk
    BY <1>0, <1>5
       DEF Worker, LoadEvent, LoadSweep, Ask, ApplyResult, RefuseResult, ParkEvent,
           RecordNotFound, FailAsking, LoadScreening, SkipScreening, ParkScreening, Search,
           FailScreening, outside, Rows
  <2>3. QED
    BY <1>2, <2>1, <2>2
<1>6. CASE Expire
  BY <1>0, <1>2, <1>6 DEF Expire, Rows
<1>7. CASE World
  BY <1>2, <1>7 DEF World, Forget, Report, LoadList, DeployRuleset, HourPasses, inside
<1>8. CASE UNCHANGED vars
  BY <1>2, <1>8 DEF vars
<1>9. QED
  BY <1>4, <1>5, <1>6, <1>7, <1>8 DEF Next

\* The first assessment brings its own matches; one that finds the same again brings
\* none that is stronger than those that were charged.
LEMMA BackedByScreening ==
  ASSUME TInv, CInv, MInv, NEW r \in Runs, StoreScreening(r)
  PROVE  MatchesBack'
<1> DEFINE found == run[r].found
           New == FoundNow(r, {hit \in HitsOf(r) : \A m \in matches : m.hit.entity # hit.entity})
<1>1. matches' = matches \cup New /\ run[r].at = "storing"
  BY DEF StoreScreening, MatchesWith
<1>2. PICK p \in Profiles : found.finding = score_application(p) /\ HitsOf(r) = HitSet(p)
  BY <1>1, FoundProfile DEF MInv
<1>3. /\ ChargedHits(found.finding) \subseteq HitsOf(r)
      /\ \A other \in HitsOf(r) : \E hit \in ChargedHits(found.finding) : Stronger(hit, other)
  BY <1>2, ChargesTheStrongest
<1>4. found \in Assessments /\ found.list \in Lists
  BY <1>1 DEF TInv, RunsFit, Fits, Assessments
<1>5. CASE Unchanged(r)
  <2>1. row.risk # None /\ row.risk.finding = found.finding
    BY <1>5 DEF Unchanged, CInv, ReadsAreOld
  <2>2. decisions # <<>> /\ Backed(row.risk)
    BY <2>1 DEF CInv, Record, ScoredIsRouted, MInv, MatchesBack
  <2>3. row'.risk = row.risk
    BY <1>1, <1>5 DEF StoreScreening, TInv, TypeOK, Rows
  <2>4. decisions' # <<>>
    <3>1. decisions \in Seq(Decisions)
      BY DEF TInv, TypeOK
    <3>2. decisions' = decisions \/ \E d : decisions' = Append(decisions, d)
      BY DEF StoreScreening
    <3>3. QED
      BY <2>2, <3>1, <3>2
  <2>5. \A m \in New : m.hit \in HitsOf(r)
    BY DEF FoundNow
  <2>6. Backed(row.risk)'
    <3> HIDE DEF New
    <3>1. \A m \in New : \E hit \in ChargedHits(row.risk.finding) : Stronger(hit, m.hit)
      BY <1>3, <2>1, <2>5
    <3>2. QED
      BY <1>1, <2>2, <2>3, <3>1 DEF Backed
  <2>7. QED
    BY <2>4, <2>6 DEF MatchesBack
<1>6. CASE ~Unchanged(r)
  <2>1. decisions = <<>> /\ matches = {}
    BY <1>1, <1>6 DEF StoreScreening, Unfrozen, MInv, MatchesBack
  <2>2. matches' = {[hit |-> hit, list |-> found.list] : hit \in HitsOf(r)}
    BY <1>1, <2>1 DEF FoundNow
  <2>3. row'.risk = found
    BY <1>1, <1>6 DEF StoreScreening, TInv, TypeOK, Rows
  <2>4. decisions' # <<>>
    <3>1. row'.risk # None
      BY <1>4, <2>3, CaseFileAssumption
    <3>2. CInv'
      BY <1>1, CaseStored
    <3>3. QED
      BY <3>1, <3>2 DEF CInv, Record, ScoredIsRouted
  <2>5. Backed(row.risk)'
    BY <1>3, <2>2, <2>3 DEF Backed
  <2>6. QED
    BY <2>4, <2>5 DEF MatchesBack
<1>7. QED
  BY <1>5, <1>6

LEMMA MInvNext == TInv /\ CInv /\ MInv /\ [Next]_vars => MInv'
<1> SUFFICES ASSUME TInv, CInv, MInv, [Next]_vars PROVE MInv'
  OBVIOUS
<1>1. FoundIsScored'
  BY FoundStep DEF MInv
<1>2. MatchesBack'
  BY BackedByScreening, BackedByOthers DEF MInv
<1>3. QED
  BY <1>1, <1>2 DEF MInv

\* Whatever lists and rules a case is screened with again, and however screenings race,
\* every decision is explained by the matches the pages show: for every profile, list
\* and ruleset.
THEOREM DecisionsStayBacked == Spec => []DecisionsAreBacked
<1>1. TInv /\ CInv /\ MInv => DecisionsAreBacked
  <2> SUFFICES ASSUME TInv, CInv, MInv, NEW i \in DOMAIN decisions
               PROVE  LET risk == decisions[i].risk
                          charged == ChargedHits(risk.finding)
                          line == RulesetsPage(risk.ruleset).lines[i]
                      IN /\ \A hit \in charged :
                              [hit |-> hit, list |-> risk.list] \in matches
                         /\ \A m \in matches : \E hit \in charged : Stronger(hit, m.hit)
                         /\ charged # {} => risk.list \in line.lists
    BY DEF DecisionsAreBacked, ChargedHits, MatchesPanel, Stronger
  <2> DEFINE risk == decisions[i].risk
  <2>1. decisions \in Seq(Decisions) /\ decisions # <<>>
    BY DEF TInv, TypeOK
  <2>2. risk \in Assessments /\ risk.ruleset \in Rulesets
    <3>1. decisions[i] \in Decisions
      BY <2>1
    <3>2. QED
      BY <3>1 DEF Decisions, Assessments
  <2>3. risk = row.risk /\ Backed(risk)
    BY <2>1 DEF CInv, Record, EvidenceFrozen, MInv, MatchesBack
  <2>4. RulesetsPage(risk.ruleset).lines[i].lists = {m.list : m \in matches}
    <3>1. i \in Under(risk.ruleset)
      BY DEF Under
    <3>2. RulesetsPage(risk.ruleset).lines[i] = DecisionLine(i)
      BY <2>2, <3>1 DEF RulesetsPage
    <3>3. QED
      BY <3>2 DEF DecisionLine
  <2>5. ChargedHits(risk.finding) # {} => risk.list \in {m.list : m \in matches}
    <3>1. ASSUME NEW hit \in ChargedHits(risk.finding)
          PROVE  risk.list \in {m.list : m \in matches}
      <4>1. [hit |-> hit, list |-> risk.list] \in matches
        BY <2>3 DEF Backed
      <4>2. QED
        BY <4>1
    <3>2. QED
      BY <3>1
  <2>6. QED
    BY <2>3, <2>4, <2>5 DEF Backed
<1>2. QED
  BY <1>1, Invariance, MInvInit, MInvNext, PTL DEF Spec
=============================================================================
