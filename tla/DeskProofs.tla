----------------------------- MODULE DeskProofs -----------------------------
(***************************************************************************)
(* What holds of every case and of every page of it, for any applications, *)
(* findings, status changes, limits and sessions: the record of a case     *)
(* tells its decisions, the statistics count it once, what a page showed   *)
(* is what is decided, and each case keeps the promise of Adjudication.    *)
(*                                                                         *)
(* The rows of a case are sound (Sound), and whatever is done to a case    *)
(* leads from sound rows to later ones (Precedes).  A page that loads has     *)
(* collected earlier states of the rows, so what it shows is bounded by    *)
(* what they are now.                                                      *)
(***************************************************************************)
EXTENDS Desk, SweeperProofs

-----------------------------------------------------------------------------
(* The rows of one case.                                                   *)

\* A referral comes first and a verdict last, with it the status; each decision has
\* the score of the case, and there is a score when there is a decision.
Shape(rows) ==
  /\ Len(rows.decisions) <= 2
  /\ Len(rows.decisions) = 2 =>
       rows.decisions[1].outcome = "referred" /\ rows.decisions[2].outcome \in Verdicts
  /\ rows.decisions = <<>> <=> rows.score = None
  /\ \A i \in DOMAIN rows.decisions : rows.decisions[i].score = rows.score
  /\ rows.status = "decided" <=> Decided(rows)
  /\ rows.decisions # <<>> => rows.status \in {"screening", "decided"}

Closings == {"verification.unavailable", "application.expired"}

\* The trail has an event for each decision, and for a closing, and no other.
Recorded(rows) == {e \in Range(rows.trail) : e.action = "decision.recorded"}
TellsVerdicts(rows) ==
  \A o \in Verdicts :
    /\ (\E e \in Recorded(rows) : e.says = o /\ e.automatic = TRUE)
         <=> (\E d \in Range(rows.decisions) : d.outcome = o /\ d.by = "system")
    /\ (\E e \in Recorded(rows) : e.says = o /\ e.automatic # TRUE)
         <=> (\E d \in Range(rows.decisions) : d.outcome = o /\ d.by \in Staff)
Tells(rows) ==
  /\ (\E e \in Recorded(rows) : e.says = "referred") <=> Referred(rows)
  /\ TellsVerdicts(rows)
  /\ \A e \in Recorded(rows) : e.says \in Outcomes
  /\ (\E e \in Range(rows.trail) : e.action \in Closings) <=> rows.status \in OffRamps

Final(rows) == rows.status \in OffRamps \cup {"decided"}

\* The events that tell the applicant an ending.
EndsAt(trail) == {i \in DOMAIN trail : describeForApplicant(trail[i]) \in Endings}

\* There is one when the case is over, and it tells how.
Ends(rows) ==
  /\ \A i, j \in EndsAt(rows.trail) : i = j
  /\ EndsAt(rows.trail) # {} => Final(rows)
  /\ \A i \in EndsAt(rows.trail) :
       describeForApplicant(rows.trail[i]) = "Application closed" <=> rows.status \in OffRamps

Sound(rows) == Shape(rows) /\ Tells(rows) /\ Ends(rows)

\* What stays, and what only grows.
Extends(s, t) == Len(s) <= Len(t) /\ \A i \in DOMAIN s : t[i] = s[i]
Precedes(old, new) ==
  /\ Extends(old.trail, new.trail) /\ Extends(old.decisions, new.decisions)
  /\ old.score # None => new.score = old.score
  /\ StepOf(old.status) <= StepOf(new.status)
  /\ Final(old) => new.status = old.status

-----------------------------------------------------------------------------
(* The inductive invariant.                                                *)

\* A page that loads has seen the rows as they are or were.
Watches(view, table) ==
  view.at = "loading" =>
    /\ view.id \in DOMAIN table
    /\ \A rows \in view.seen : Sound(rows) /\ Precedes(rows, table[view.id])

\* A case page that names the ruleset shows the score of the case.
TabShows ==
  /\ tab.at \in {"case", "sent", "told"} =>
       /\ tab.id \in DOMAIN cases /\ tab.page \in CasePageType
       /\ tab.page.flags.ruleset =>
            cases[tab.id].score # None /\ tab.page.head.score = cases[tab.id].score
  /\ tab.at = "sent" => tab.outcome \in Verdicts
  /\ \A i \in DOMAIN tab.rows : tab.rows[i].id \in DOMAIN cases

\* A status page tells a part of what there is, and of what the next one has seen.
Behind(page, rows) ==
  IsPrefix(page.told, History(rows)) /\ page.step <= StepOf(rows.status)
PhoneShows ==
  /\ phone.at = "away" => phone.page = None
  /\ phone.at = "loading" => phone.seen # {}
  /\ phone.at = "loading" /\ phone.page # None => \A rows \in phone.seen : Behind(phone.page, rows)
  /\ phone.at = "shown" =>
       /\ phone.id \in DOMAIN cases /\ phone.page \in StatusPageType
       /\ Behind(phone.page, cases[phone.id])

DInv ==
  /\ TypeOK
  /\ \A c \in DOMAIN cases : Sound(cases[c])
  /\ Watches(tab, cases) /\ TabShows
  /\ Watches(phone, cases) /\ PhoneShows
  /\ ReportedReviewsHappened
  /\ AsksOnce

-----------------------------------------------------------------------------
(* The constants, sequences and the steps of the tracker.                  *)

LEMMA Constants ==
  /\ None \notin Nat /\ None \notin Applications /\ None \notin Scores /\ None \notin Endings
  /\ Scores \subseteq Nat
  /\ \A found \in Findings : found.score \in Scores /\ found.route \in Outcomes
  /\ Moves \subseteq Transitions
BY DeskAssumption DEF Scores, Outcomes

LEMMA Appended ==
  ASSUME NEW S, NEW s \in Seq(S), NEW e \in S
  PROVE  /\ Append(s, e) \in Seq(S) /\ Len(Append(s, e)) = Len(s) + 1
         /\ DOMAIN Append(s, e) = DOMAIN s \cup {Len(s) + 1}
         /\ Append(s, e)[Len(s) + 1] = e
         /\ \A i \in DOMAIN s : Append(s, e)[i] = s[i] /\ i # Len(s) + 1
         /\ Extends(s, Append(s, e))
         /\ Range(Append(s, e)) = Range(s) \cup {e}
<1>1. /\ Append(s, e) \in Seq(S) /\ Len(Append(s, e)) = Len(s) + 1
      /\ DOMAIN Append(s, e) = DOMAIN s \cup {Len(s) + 1}
      /\ Append(s, e)[Len(s) + 1] = e
      /\ \A i \in DOMAIN s : Append(s, e)[i] = s[i] /\ i # Len(s) + 1
  OBVIOUS
<1>2. Range(Append(s, e)) = Range(s) \cup {e}
  BY <1>1 DEF Range
<1>3. Extends(s, Append(s, e))
  BY <1>1 DEF Extends
<1>4. QED
  BY <1>1, <1>2, <1>3

LEMMA ExtendsOrder ==
  ASSUME NEW S, NEW s \in Seq(S), NEW t \in Seq(S), NEW u \in Seq(S)
  PROVE  Extends(s, s) /\ (Extends(s, t) /\ Extends(t, u) => Extends(s, u))
<1>1. ASSUME Extends(s, t), Extends(t, u) PROVE Extends(s, u)
  <2>1. Len(s) <= Len(t) /\ Len(t) <= Len(u) /\ Len(s) \in Nat /\ Len(t) \in Nat /\ Len(u) \in Nat
    BY <1>1 DEF Extends
  <2>2. DOMAIN s \subseteq DOMAIN t
    BY <2>1
  <2>3. QED
    BY <1>1, <2>1, <2>2 DEF Extends
<1>2. QED
  BY <1>1 DEF Extends

LEMMA StatusNames ==
  /\ Statuses = {"started", "submitted", "checking", "screening", "decided",
                 "verification_unavailable", "expired"}
  /\ DOMAIN LIFECYCLE = 1..5 /\ Len(LIFECYCLE) = 5
  /\ LIFECYCLE[1] = "started" /\ LIFECYCLE[2] = "submitted" /\ LIFECYCLE[3] = "checking"
  /\ LIFECYCLE[4] = "screening" /\ LIFECYCLE[5] = "decided"
<1>1. /\ DOMAIN LIFECYCLE = 1..5 /\ Len(LIFECYCLE) = 5
      /\ LIFECYCLE[1] = "started" /\ LIFECYCLE[2] = "submitted" /\ LIFECYCLE[3] = "checking"
      /\ LIFECYCLE[4] = "screening" /\ LIFECYCLE[5] = "decided"
  BY DEF LIFECYCLE
<1>2. Range(LIFECYCLE) = {LIFECYCLE[1], LIFECYCLE[2], LIFECYCLE[3], LIFECYCLE[4], LIFECYCLE[5]}
  BY <1>1 DEF Range
<1>3. QED
  BY <1>1, <1>2 DEF Statuses, OffRamps

LEMMA StepsOf ==
  /\ StepOf("started") = 1 /\ StepOf("submitted") = 2 /\ StepOf("checking") = 3
  /\ StepOf("screening") = 4 /\ StepOf("decided") = 5
  /\ StepOf("verification_unavailable") = 6 /\ StepOf("expired") = 6
<1>1. ASSUME NEW k \in 1..5 PROVE StepOf(LIFECYCLE[k]) = k
  <2>1. \A i \in 1..5 : LIFECYCLE[i] = LIFECYCLE[k] => i = k
    BY StatusNames
  <2>2. LIFECYCLE[k] \notin OffRamps
    BY StatusNames DEF OffRamps
  <2>3. QED
    BY <2>1, <2>2, StatusNames DEF StepOf
<1>2. StepOf("verification_unavailable") = 6 /\ StepOf("expired") = 6
  BY StatusNames DEF StepOf, OffRamps
<1>3. QED
  BY <1>1, <1>2, StatusNames

LEMMA StepsNat == \A status \in Statuses : StepOf(status) \in Nat
BY StatusNames, StepsOf

-----------------------------------------------------------------------------
(* What is done to the rows of a case.                                     *)

LEMMA PrecedesOrder ==
  ASSUME NEW a \in CaseType, NEW b \in CaseType, NEW c \in CaseType
  PROVE  Precedes(a, a) /\ (Precedes(a, b) /\ Precedes(b, c) => Precedes(a, c))
<1>1. ASSUME NEW r \in CaseType
      PROVE  /\ r.trail \in Seq(EventType) /\ r.decisions \in Seq(DecisionType)
             /\ StepOf(r.status) \in Nat
  BY StepsNat DEF CaseType
<1>2. Precedes(a, a)
  BY <1>1, ExtendsOrder DEF Precedes
<1>3. ASSUME Precedes(a, b), Precedes(b, c) PROVE Precedes(a, c)
  <2>1. Extends(a.trail, c.trail)
    BY <1>1, <1>3, ExtendsOrder DEF Precedes
  <2>2. Extends(a.decisions, c.decisions)
    BY <1>1, <1>3, ExtendsOrder DEF Precedes
  <2>3. StepOf(a.status) <= StepOf(c.status)
    BY <1>1, <1>3 DEF Precedes
  <2>4. (a.score # None => c.score = a.score) /\ (Final(a) => c.status = a.status)
    BY <1>3 DEF Precedes, Final
  <2>5. QED
    BY <2>1, <2>2, <2>3, <2>4 DEF Precedes
<1>4. QED
  BY <1>2, <1>3

\* A change of the job alone changes nothing that counts.
LEMMA SameRows ==
  ASSUME NEW a \in CaseType, Sound(a), NEW b \in CaseType,
         b.status = a.status, b.score = a.score, b.decisions = a.decisions, b.trail = a.trail
  PROVE  Sound(b) /\ Precedes(a, b)
<1>1. Sound(b)
  <2>1. Decided(b) <=> Decided(a)
    BY DEF Decided, VerdictsOf
  <2>2. Referred(b) <=> Referred(a)
    BY DEF Referred
  <2>3. Shape(b)
    BY <2>1 DEF Sound, Shape
  <2>4. Tells(b)
    <3>1. Recorded(b) = Recorded(a)
      BY DEF Recorded
    <3>2. TellsVerdicts(b)
      BY <3>1 DEF Sound, Tells, TellsVerdicts
    <3>3. QED
      BY <2>2, <3>1, <3>2 DEF Sound, Tells
  <2>5. Ends(b)
    BY DEF Sound, Ends, Final
  <2>6. QED
    BY <2>3, <2>4, <2>5 DEF Sound
<1>2. Precedes(a, a)
  BY PrecedesOrder
<1>3. Precedes(a, b)
  BY <1>2 DEF Precedes, Final
<1>4. QED
  BY <1>1, <1>3

LEMMA JobStep ==
  ASSUME NEW a \in CaseType, Sound(a), NEW j \in {"none", "queued", "retrying", "parked"}
  PROVE  LET b == [a EXCEPT !.job = j]
         IN b \in CaseType /\ Sound(b) /\ Precedes(a, b)
<1> DEFINE b == [a EXCEPT !.job = j]
<1>1. /\ b \in CaseType /\ b.status = a.status /\ b.score = a.score
      /\ b.decisions = a.decisions /\ b.trail = a.trail
  BY DEF CaseType
<1> HIDE DEF b
<1>2. b \in CaseType /\ Sound(b) /\ Precedes(a, b)
  BY <1>1, SameRows
<1>3. QED
  BY <1>2 DEF b

-----------------------------------------------------------------------------
(* Events.                                                                 *)

LEMMA Endings3 ==
  ASSUME NEW e \in EventType
  PROVE  /\ describeForApplicant(e) \in Endings
              <=> e.action \in Closings \/ (e.action = "decision.recorded" /\ e.says \in Verdicts)
         /\ describeForApplicant(e) = "Application closed" <=> e.action \in Closings
<1>0. None \notin Endings
  BY Constants
<1>1. CASE e.action = "decision.recorded"
  <2>1. describeForApplicant(e) = onDecision(e)
    BY <1>1 DEF describeForApplicant
  <2>2. QED
    BY <1>0, <1>1, <2>1 DEF onDecision, Endings, Verdicts, Closings
<1>2. CASE e.action = "status.changed"
  <2>1. describeForApplicant(e) = onStatusChange(e)
    BY <1>2 DEF describeForApplicant
  <2>2. QED
    BY <1>0, <1>2, <2>1 DEF onStatusChange, Endings, Closings
<1>3. CASE e.action \notin {"decision.recorded", "status.changed"}
  BY <1>0, <1>3 DEF describeForApplicant, Endings, Closings
<1>4. QED
  BY <1>1, <1>2, <1>3

\* An event on the trail.
LEMMA EventAdded ==
  ASSUME NEW t \in Seq(EventType), NEW e \in EventType
  PROVE  LET u == Append(t, e)
         IN /\ u \in Seq(EventType) /\ Extends(t, u) /\ Range(u) = Range(t) \cup {e}
            /\ EndsAt(u) = EndsAt(t) \cup
                 IF describeForApplicant(e) \in Endings THEN {Len(t) + 1} ELSE {}
            /\ \A i \in DOMAIN t : u[i] = t[i] /\ i # Len(t) + 1
            /\ u[Len(t) + 1] = e
<1> DEFINE u == Append(t, e)
<1>1. /\ u \in Seq(EventType) /\ Extends(t, u) /\ Range(u) = Range(t) \cup {e}
      /\ \A i \in DOMAIN t : u[i] = t[i] /\ i # Len(t) + 1
      /\ u[Len(t) + 1] = e
      /\ DOMAIN u = DOMAIN t \cup {Len(t) + 1}
  BY Appended
<1> HIDE DEF u
<1>2. EndsAt(u) = EndsAt(t) \cup
        IF describeForApplicant(e) \in Endings THEN {Len(t) + 1} ELSE {}
  BY <1>1 DEF EndsAt
<1>3. QED
  BY <1>1, <1>2 DEF u

\* A status changes that no decision changes.
LEMMA MoveStep ==
  ASSUME NEW a \in CaseType, Sound(a), NEW to, <<a.status, to>> \in Moves,
         NEW j \in {"none", "queued", "retrying", "parked"}
  PROVE  LET b == [a EXCEPT !.status = to, !.job = j,
                            !.trail = Append(@, EventOf(a.status, to))]
         IN b \in CaseType /\ Sound(b) /\ Precedes(a, b)
<1> DEFINE e == EventOf(a.status, to)
           b == [a EXCEPT !.status = to, !.job = j, !.trail = Append(@, e)]
<1>1. <<a.status, to>> \in Transitions
  BY Constants
<1>2. /\ a.status \in {"started", "submitted", "checking"}
      /\ to \in {"submitted", "checking", "screening", "expired", "verification_unavailable"}
      /\ StepOf(a.status) <= StepOf(to) /\ to \in Statuses
  BY <1>1, StepsOf, StatusNames DEF Transitions
<1>3. /\ e \in EventType /\ e.action # "decision.recorded"
      /\ e.action \in Closings <=> to \in OffRamps
  <2>1. CASE to \in OffRamps
    <3>1. Closing[to] \in Closings
      BY <2>1 DEF Closing, OffRamps, Closings
    <3>2. e = [action |-> Closing[to], says |-> None, automatic |-> None]
      BY <2>1 DEF EventOf, Event
    <3>3. QED
      BY <2>1, <3>1, <3>2 DEF EventType, Closings
  <2>2. CASE to \notin OffRamps
    BY <1>2, <2>2 DEF EventOf, Event, EventType, Closings
  <2>3. QED
    BY <2>1, <2>2
<1> HIDE DEF e
<1>4. a.trail \in Seq(EventType)
  BY DEF CaseType
<1>5. /\ Append(a.trail, e) \in Seq(EventType) /\ Extends(a.trail, Append(a.trail, e))
      /\ Range(Append(a.trail, e)) = Range(a.trail) \cup {e}
      /\ EndsAt(Append(a.trail, e)) = EndsAt(a.trail) \cup
           IF describeForApplicant(e) \in Endings THEN {Len(a.trail) + 1} ELSE {}
      /\ \A i \in DOMAIN a.trail :
           Append(a.trail, e)[i] = a.trail[i] /\ i # Len(a.trail) + 1
      /\ Append(a.trail, e)[Len(a.trail) + 1] = e
  BY <1>3, <1>4, EventAdded
<1>6. /\ b \in CaseType /\ b.status = to /\ b.score = a.score
      /\ b.decisions = a.decisions /\ b.trail = Append(a.trail, e)
  BY <1>2, <1>5 DEF CaseType
<1> HIDE DEF b
<1>7. ~Final(a) /\ ~Decided(a) /\ a.decisions = <<>> /\ EndsAt(a.trail) = {}
  BY <1>2 DEF Sound, Shape, Ends, Final, OffRamps
<1>8. (Decided(b) <=> Decided(a)) /\ (Referred(b) <=> Referred(a))
  BY <1>6 DEF Decided, VerdictsOf, Referred
<1>9. Shape(b)
  BY <1>2, <1>6, <1>7, <1>8 DEF Sound, Shape
<1>10. Tells(b)
  <2>1. Recorded(b) = Recorded(a)
    BY <1>3, <1>5, <1>6 DEF Recorded
  <2>2. TellsVerdicts(b)
    BY <1>6, <2>1 DEF Sound, Tells, TellsVerdicts
  <2>3. ~(\E x \in Range(a.trail) : x.action \in Closings)
    BY <1>7 DEF Sound, Tells, Final
  <2>4. (\E x \in Range(b.trail) : x.action \in Closings) <=> b.status \in OffRamps
    BY <1>3, <1>5, <1>6, <2>3
  <2>5. QED
    BY <1>8, <2>1, <2>2, <2>4 DEF Sound, Tells
<1>11. Ends(b)
  <2>1. /\ describeForApplicant(e) \in Endings <=> to \in OffRamps
        /\ describeForApplicant(e) = "Application closed" <=> to \in OffRamps
    BY <1>3, Endings3
  <2>2. EndsAt(b.trail) = IF to \in OffRamps THEN {Len(a.trail) + 1} ELSE {}
    BY <1>5, <1>6, <1>7, <2>1
  <2>3. QED
    BY <1>5, <1>6, <2>1, <2>2 DEF Ends, Final
<1>12. Precedes(a, b)
  <2>1. a.decisions \in Seq(DecisionType)
    BY DEF CaseType
  <2>2. Extends(a.decisions, a.decisions)
    BY <2>1, ExtendsOrder
  <2>3. QED
    BY <1>2, <1>5, <1>6, <1>7, <2>2 DEF Precedes
<1>13. b \in CaseType /\ Sound(b) /\ Precedes(a, b)
  BY <1>6, <1>9, <1>10, <1>11, <1>12 DEF Sound
<1>14. QED
  BY <1>13 DEF b, e

\* More on the trail, and nothing of decisions or of an ending.
Quiet(s, t) ==
  /\ t \in Seq(EventType) /\ Extends(s, t)
  /\ {e \in Range(t) : e.action = "decision.recorded"}
       = {e \in Range(s) : e.action = "decision.recorded"}
  /\ (\E e \in Range(t) : e.action \in Closings) <=> (\E e \in Range(s) : e.action \in Closings)
  /\ EndsAt(t) = EndsAt(s)

LEMMA QuietEvent ==
  ASSUME NEW t \in Seq(EventType), NEW e \in EventType,
         e.action \notin Closings \cup {"decision.recorded"}
  PROVE  Quiet(t, t) /\ Quiet(t, Append(t, e))
<1>1. /\ Append(t, e) \in Seq(EventType) /\ Extends(t, Append(t, e))
      /\ Range(Append(t, e)) = Range(t) \cup {e}
      /\ EndsAt(Append(t, e)) = EndsAt(t)
  <2>1. describeForApplicant(e) \notin Endings
    BY Endings3
  <2>2. EndsAt(Append(t, e)) = EndsAt(t) \cup {}
    BY <2>1, EventAdded
  <2>3. QED
    BY <2>2, EventAdded
<1>2. Quiet(t, Append(t, e))
  <2>1. {x \in Range(Append(t, e)) : x.action = "decision.recorded"}
          = {x \in Range(t) : x.action = "decision.recorded"}
    BY <1>1
  <2>2. (\E x \in Range(Append(t, e)) : x.action \in Closings)
          <=> (\E x \in Range(t) : x.action \in Closings)
    BY <1>1
  <2>3. QED
    BY <1>1, <2>1, <2>2 DEF Quiet
<1>3. Quiet(t, t)
  BY ExtendsOrder DEF Quiet
<1>4. QED
  BY <1>2, <1>3

\* A decision on a case in screening: with its event, after events of another kind.
LEMMA DecisionStep ==
  ASSUME NEW a \in CaseType, Sound(a), a.status = "screening", ~Decided(a),
         NEW d \in DecisionType, NEW e \in EventType, NEW t, Quiet(a.trail, t),
         NEW b \in CaseType,
         b.decisions = Append(a.decisions, d), b.trail = Append(t, e),
         d.score = b.score, a.score # None => b.score = a.score,
         d.outcome = "referred" => ~Referred(a) /\ b.status = a.status,
         d.outcome \in Verdicts =>
           b.status = "decided" /\ (e.automatic = TRUE <=> d.by = "system"),
         e.action = "decision.recorded", e.says = d.outcome
  PROVE  Sound(b) /\ Precedes(a, b)
<1>1. /\ a.decisions \in Seq(DecisionType) /\ b.decisions \in Seq(DecisionType)
      /\ a.trail \in Seq(EventType) /\ t \in Seq(EventType) /\ b.trail \in Seq(EventType)
      /\ d.score \in Scores /\ d.outcome \in Outcomes /\ d.by \in Staff \cup {"system"}
      /\ d.score # None
  BY Constants DEF CaseType, DecisionType, Quiet
<1>2. /\ Len(b.decisions) = Len(a.decisions) + 1 /\ Extends(a.decisions, b.decisions)
      /\ DOMAIN b.decisions = DOMAIN a.decisions \cup {Len(a.decisions) + 1}
      /\ b.decisions[Len(a.decisions) + 1] = d
      /\ \A i \in DOMAIN a.decisions :
           b.decisions[i] = a.decisions[i] /\ i # Len(a.decisions) + 1
      /\ Range(b.decisions) = Range(a.decisions) \cup {d}
  BY <1>1, Appended
<1>3. /\ Extends(t, b.trail) /\ Range(b.trail) = Range(t) \cup {e}
      /\ EndsAt(b.trail) = EndsAt(t) \cup
           IF describeForApplicant(e) \in Endings THEN {Len(t) + 1} ELSE {}
      /\ b.trail[Len(t) + 1] = e
  BY <1>1, EventAdded
<1>4. Decided(b) <=> d.outcome \in Verdicts
  BY <1>2 DEF Decided, VerdictsOf
<1>5. Referred(b) <=> Referred(a) \/ d.outcome = "referred"
  BY <1>2 DEF Referred
<1>6. a.decisions = <<>> \/ (Len(a.decisions) = 1 /\ a.decisions[1].outcome = "referred")
  <2>1. Len(a.decisions) \in {0, 1, 2}
    <3>1. Len(a.decisions) \in Nat /\ Len(a.decisions) <= 2
      BY <1>1 DEF Sound, Shape
    <3>2. \A k \in Nat : k <= 2 => k \in {0, 1, 2}
      OBVIOUS
    <3>3. QED
      BY <3>1, <3>2, Zenon
  <2>2. \A i \in DOMAIN a.decisions : a.decisions[i].outcome = "referred"
    <3>1. ASSUME NEW i \in DOMAIN a.decisions PROVE a.decisions[i] \in DecisionType
      BY <1>1
    <3>2. \A i \in DOMAIN a.decisions : a.decisions[i].outcome \in Outcomes
      BY <3>1 DEF DecisionType
    <3>3. QED
      BY <3>2 DEF Decided, VerdictsOf, Outcomes
  <2>3. Len(a.decisions) # 2
    <3>1. CASE Len(a.decisions) = 2
      <4>1. a.decisions[2].outcome \in Verdicts /\ 2 \in DOMAIN a.decisions
        BY <1>1, <3>1 DEF Sound, Shape
      <4>2. QED
        BY <2>2, <4>1 DEF Verdicts
    <3>2. QED
      BY <3>1
  <2>4. QED
    BY <1>1, <2>1, <2>2, <2>3
<1>7. d.outcome = "referred" => a.decisions = <<>>
  <2>1. Len(a.decisions) = 1 /\ a.decisions[1].outcome = "referred" => Referred(a)
    BY <1>1 DEF Referred
  <2>2. QED
    BY <1>6, <2>1
<1>8. Shape(b)
  <2>1. Len(b.decisions) <= 2
    BY <1>2, <1>6
  <2>2. Len(b.decisions) = 2 =>
          b.decisions[1].outcome = "referred" /\ b.decisions[2].outcome \in Verdicts
    <3> SUFFICES ASSUME Len(b.decisions) = 2
                 PROVE  b.decisions[1].outcome = "referred"
                        /\ b.decisions[2].outcome \in Verdicts
      OBVIOUS
    <3>1. Len(a.decisions) = 1 /\ a.decisions[1].outcome = "referred"
      BY <1>2, <1>6
    <3>2. b.decisions[1] = a.decisions[1] /\ b.decisions[2] = d
      BY <1>1, <1>2, <3>1
    <3>3. d.outcome # "referred"
      BY <1>7, <3>1
    <3>4. QED
      BY <1>1, <3>1, <3>2, <3>3 DEF Outcomes
  <2>3. b.decisions # <<>> /\ b.score # None
    BY <1>1, <1>2
  <2>4. \A i \in DOMAIN b.decisions : b.decisions[i].score = b.score
    <3>1. \A i \in DOMAIN a.decisions : a.decisions[i].score = a.score /\ a.score = b.score
      BY DEF Sound, Shape
    <3>2. QED
      BY <1>2, <3>1
  <2>5. b.status = "decided" <=> Decided(b)
    BY <1>1, <1>4 DEF Outcomes, Verdicts
  <2>6. b.status \in {"screening", "decided"}
    BY <1>1 DEF Outcomes
  <2>7. QED
    BY <2>1, <2>2, <2>3, <2>4, <2>5, <2>6 DEF Shape
<1>9. Recorded(b) = Recorded(a) \cup {e}
  BY <1>3 DEF Recorded, Quiet
<1>10. Tells(b)
  <2>1. (\E x \in Recorded(b) : x.says = "referred") <=> Referred(b)
    BY <1>5, <1>9 DEF Sound, Tells
  <2>2. TellsVerdicts(b)
    <3> SUFFICES ASSUME NEW o \in Verdicts
                 PROVE  /\ (\E x \in Recorded(b) : x.says = o /\ x.automatic = TRUE)
                             <=> (\E y \in Range(b.decisions) : y.outcome = o /\ y.by = "system")
                        /\ (\E x \in Recorded(b) : x.says = o /\ x.automatic # TRUE)
                             <=> (\E y \in Range(b.decisions) : y.outcome = o /\ y.by \in Staff)
      BY DEF TellsVerdicts
    <3>1. /\ (\E x \in Recorded(a) : x.says = o /\ x.automatic = TRUE)
               <=> (\E y \in Range(a.decisions) : y.outcome = o /\ y.by = "system")
          /\ (\E x \in Recorded(a) : x.says = o /\ x.automatic # TRUE)
               <=> (\E y \in Range(a.decisions) : y.outcome = o /\ y.by \in Staff)
      BY DEF Sound, Tells, TellsVerdicts
    <3>2. /\ e.says = o /\ e.automatic = TRUE <=> d.outcome = o /\ d.by = "system"
          /\ e.says = o /\ e.automatic # TRUE <=> d.outcome = o /\ d.by \in Staff
      BY <1>1 DEF Staff
    <3>3. QED
      BY <1>2, <1>9, <3>1, <3>2
  <2>3. \A x \in Recorded(b) : x.says \in Outcomes
    BY <1>1, <1>9 DEF Sound, Tells
  <2>4. ~(\E x \in Range(b.trail) : x.action \in Closings)
    BY <1>3 DEF Sound, Tells, OffRamps, Closings, Quiet
  <2>5. b.status \notin OffRamps
    BY <1>1 DEF Outcomes, OffRamps
  <2>6. QED
    BY <2>1, <2>2, <2>3, <2>4, <2>5 DEF Tells
<1>11. Ends(b)
  <2>1. EndsAt(t) = {}
    BY DEF Sound, Ends, Final, OffRamps, Quiet
  <2>2. /\ describeForApplicant(e) \in Endings <=> d.outcome \in Verdicts
        /\ describeForApplicant(e) # "Application closed"
    BY Endings3 DEF Closings
  <2>3. EndsAt(b.trail) = IF d.outcome \in Verdicts THEN {Len(t) + 1} ELSE {}
    BY <1>3, <2>1, <2>2
  <2>4. QED
    BY <1>3, <2>2, <2>3 DEF Ends, Final, OffRamps
<1>12. Precedes(a, b)
  <2>1. Extends(a.trail, b.trail)
    BY <1>1, <1>3, ExtendsOrder DEF Quiet
  <2>2. StepOf(a.status) <= StepOf(b.status)
    BY <1>1, StepsOf DEF Outcomes
  <2>3. ~Final(a)
    BY DEF Final, OffRamps
  <2>4. QED
    BY <1>2, <2>1, <2>2, <2>3 DEF Precedes
<1>13. QED
  BY <1>8, <1>10, <1>11, <1>12 DEF Sound

\* recordDecision, of a case that may be decided: it is in screening.
LEMMA VerdictStep ==
  ASSUME NEW a \in CaseType, Sound(a), Decidable(a), NEW o \in Verdicts, NEW by \in Staff
  PROVE  LET b == WithVerdict(a, o, by)
         IN /\ b \in CaseType /\ Sound(b) /\ Precedes(a, b)
            /\ b.score = a.score /\ b.score # None
            /\ b.decisions = Append(a.decisions, [outcome |-> o, by |-> by, score |-> a.score])
<1> DEFINE d == [outcome |-> o, by |-> by, score |-> a.score]
           e == Event("decision.recorded", o, FALSE)
           b == WithVerdict(a, o, by)
<1>1. ~Decided(a) /\ a.score # None /\ a.status = "screening"
  BY DEF Decidable, Sound, Shape
<1>2. /\ d \in DecisionType /\ d.outcome = o /\ d.by = by /\ d.score = a.score
      /\ a.score \in Scores
  BY <1>1 DEF CaseType, DecisionType, Outcomes
<1>3. /\ e \in EventType /\ e.action = "decision.recorded" /\ e.says = o
      /\ e.automatic = FALSE
  BY DEF Event, EventType, Outcomes
<1>4. b = [a EXCEPT !.decisions = Append(@, d), !.status = "decided", !.trail = Append(@, e)]
  BY <1>1 DEF WithVerdict
<1> HIDE DEF d, e, b
<1>5. /\ a.trail \in Seq(EventType) /\ Append(a.trail, e) \in Seq(EventType)
      /\ a.decisions \in Seq(DecisionType) /\ Append(a.decisions, d) \in Seq(DecisionType)
  BY <1>2, <1>3, Appended DEF CaseType
<1>6. /\ b \in CaseType /\ b.status = "decided" /\ b.score = a.score
      /\ b.decisions = Append(a.decisions, d) /\ b.trail = Append(a.trail, e)
  BY <1>4, <1>5, StatusNames DEF CaseType
<1>7. Quiet(a.trail, a.trail)
  BY <1>5, ExtendsOrder DEF Quiet
<1>8. o # "referred" /\ by # "system"
  BY DEF Verdicts, Staff
<1>9. Sound(b) /\ Precedes(a, b)
  BY <1>1, <1>2, <1>3, <1>6, <1>7, <1>8, DecisionStep
<1>10. b \in CaseType /\ Sound(b) /\ Precedes(a, b) /\ b.score = a.score /\ b.score # None
       /\ b.decisions = Append(a.decisions, d)
  BY <1>1, <1>6, <1>9
<1>11. QED
  BY <1>10 DEF b, d

\* A screening that is stored: with a decision, or as it was.
LEMMA ScreenedStep ==
  ASSUME NEW a \in CaseType, Sound(a), NEW found \in Findings,
         a.status = "screening", a.score = found.score \/ Unfrozen(a)
  PROVE  LET b == Screened(a, found)
         IN b \in CaseType /\ Sound(b) /\ Precedes(a, b)
<1> DEFINE b == Screened(a, found)
           quiet == IF a.score = found.score THEN a.trail
                    ELSE Append(a.trail, Event("screening.completed", None, None))
           d == [outcome |-> found.route, by |-> "system", score |-> found.score]
           e == Event("decision.recorded", found.route,
                      IF found.route = "referred" THEN None ELSE TRUE)
<1>1. ~Decided(a) /\ found.score \in Scores /\ found.route \in Outcomes
  BY Constants DEF Sound, Shape
<1>2. a.trail \in Seq(EventType) /\ a.decisions \in Seq(DecisionType)
  BY DEF CaseType
<1>3. Quiet(a.trail, quiet)
  <2>1. /\ Event("screening.completed", None, None) \in EventType
        /\ Event("screening.completed", None, None).action \notin Closings \cup {"decision.recorded"}
    BY DEF Event, EventType, Closings
  <2>2. QED
    BY <1>2, <2>1, QuietEvent
<1>4. /\ d \in DecisionType /\ d.outcome = found.route /\ d.by = "system"
      /\ d.score = found.score
  BY <1>1 DEF DecisionType
<1>5. /\ e \in EventType /\ e.action = "decision.recorded" /\ e.says = found.route
      /\ found.route \in Verdicts => e.automatic = TRUE
  BY <1>1 DEF Event, EventType, Outcomes, Verdicts
<1>6. quiet \in Seq(EventType)
  BY <1>3 DEF Quiet
<1>7. /\ b.score = found.score /\ b.job = "none"
      /\ b.status = IF Decides(a, found) /\ found.route \in Verdicts THEN "decided" ELSE a.status
      /\ b.decisions = IF Decides(a, found) THEN Append(a.decisions, d) ELSE a.decisions
      /\ b.trail = IF Decides(a, found) THEN Append(quiet, e) ELSE quiet
      /\ b \in CaseType
  <2> DEFINE scored == IF a.score = found.score THEN <<>>
                       ELSE <<Event("screening.completed", None, None)>>
             routed == IF ~Decides(a, found) THEN <<>> ELSE <<e>>
             trail == IF Decides(a, found) THEN Append(quiet, e) ELSE quiet
             decisions == IF Decides(a, found) THEN Append(a.decisions, d) ELSE a.decisions
             status == IF Decides(a, found) /\ found.route \in Verdicts
                         THEN "decided" ELSE a.status
  <2>1. trail \in Seq(EventType)
    BY <1>5, <1>6, Appended
  <2>2. decisions \in Seq(DecisionType)
    BY <1>2, <1>4, Appended
  <2>3. status \in Statuses
    BY StatusNames DEF CaseType
  <2>4. a.trail \o scored \o routed = trail
    <3>1. a.trail \o scored = quiet
      <4>1. Event("screening.completed", None, None) \in EventType
        BY DEF Event, EventType
      <4>2. \A s \in Seq(EventType), x \in EventType :
              s \o <<>> = s /\ s \o <<x>> = Append(s, x)
        OBVIOUS
      <4>3. QED
        BY <1>2, <4>1, <4>2, Zenon
    <3> HIDE DEF quiet, e, scored
    <3>2. QED
      BY <1>5, <1>6, <3>1
  <2>5. b = [a EXCEPT !.score = found.score, !.job = "none", !.status = status,
                      !.decisions = decisions, !.trail = a.trail \o scored \o routed]
    BY DEF Screened
  <2>6. b = [a EXCEPT !.score = found.score, !.job = "none", !.status = status,
                      !.decisions = decisions, !.trail = trail]
    <3> HIDE DEF trail, decisions, status, b, scored, routed
    <3>1. QED
      BY <2>4, <2>5
  <2> HIDE DEF b, trail, decisions, status
  <2>7. /\ b.score = found.score /\ b.job = "none" /\ b.status = status
        /\ b.decisions = decisions /\ b.trail = trail /\ b \in CaseType
    BY <1>1, <2>1, <2>2, <2>3, <2>6 DEF CaseType
  <2>8. QED
    BY <2>7 DEF trail, decisions, status
<1> HIDE DEF b, quiet, d, e
<1>8. CASE Decides(a, found)
  <2>1. a.score # None => b.score = a.score
    BY <1>7 DEF Unfrozen, Sound, Shape
  <2>2. found.route = "referred" => ~Referred(a) /\ b.status = a.status
    BY <1>7, <1>8 DEF Decides, Verdicts
  <2>3. found.route \in Verdicts => b.status = "decided"
    BY <1>7, <1>8
  <2>4. Sound(b) /\ Precedes(a, b)
    BY <1>1, <1>3, <1>4, <1>5, <1>7, <1>8, <2>1, <2>2, <2>3, DecisionStep
  <2>5. QED
    BY <1>7, <2>4 DEF b
<1>9. CASE ~Decides(a, found)
  <2>1. found.route = "referred" /\ Referred(a)
    BY <1>1, <1>9 DEF Decides
  <2>2. a.decisions # <<>>
    BY <1>2, <2>1 DEF Referred
  <2>3. a.score = found.score
    BY <2>2 DEF Unfrozen
  <2>4. /\ b.status = a.status /\ b.score = a.score /\ b.decisions = a.decisions
        /\ b.trail = a.trail
    BY <1>7, <1>9, <2>3 DEF quiet
  <2>5. b \in CaseType /\ Sound(b) /\ Precedes(a, b)
    BY <1>7, <2>4, SameRows
  <2>6. QED
    BY <2>5 DEF b
<1>10. QED
  BY <1>8, <1>9

-----------------------------------------------------------------------------
(* The table of cases, and those who watch one.                            *)

\* One case changes, to later rows.
Changes(table, new, c, rows) ==
  /\ c \in DOMAIN table /\ new = [table EXCEPT ![c] = rows]
  /\ rows \in CaseType /\ Sound(rows) /\ Precedes(table[c], rows)

LEMMA TableStep ==
  ASSUME NEW D, NEW table \in [D -> CaseType], \A d \in D : Sound(table[d]),
         NEW new, NEW c, NEW rows, Changes(table, new, c, rows)
  PROVE  /\ new \in [D -> CaseType] /\ c \in D /\ new[c] = rows
         /\ \A d \in D : Sound(new[d]) /\ Precedes(table[d], new[d])
<1>1. c \in D /\ new \in [D -> CaseType]
      /\ \A d \in D : new[d] = IF d = c THEN rows ELSE table[d]
  BY DEF Changes
<1>2. \A d \in D : Sound(new[d])
  BY <1>1 DEF Changes
<1>3. \A d \in D : Precedes(table[d], new[d])
  <2> SUFFICES ASSUME NEW d \in D PROVE Precedes(table[d], new[d])
    OBVIOUS
  <2>1. table[d] \in CaseType
    OBVIOUS
  <2>2. Precedes(table[d], table[d])
    BY <2>1, PrecedesOrder
  <2>3. QED
    BY <1>1, <2>2 DEF Changes
<1>4. QED
  BY <1>1, <1>2, <1>3

\* What a view collects meanwhile.
LEMMA MeanwhileTab ==
  ASSUME NEW c, NEW rows \in CaseType, NEW view \in TabType
  PROVE  /\ Meanwhile(view, c, rows) \in TabType
         /\ Meanwhile(view, c, rows).at = view.at /\ Meanwhile(view, c, rows).id = view.id
         /\ Meanwhile(view, c, rows).page = view.page
         /\ Meanwhile(view, c, rows).rows = view.rows
         /\ Meanwhile(view, c, rows).outcome = view.outcome
         /\ view.at = "loading" /\ view.id = c =>
              Meanwhile(view, c, rows).seen = view.seen \cup {rows}
         /\ ~(view.at = "loading" /\ view.id = c) => Meanwhile(view, c, rows).seen = view.seen
<1>1. CASE view.at = "loading" /\ view.id = c
  <2>1. Meanwhile(view, c, rows) = [view EXCEPT !.seen = @ \cup {rows}]
    BY <1>1 DEF Meanwhile
  <2>2. QED
    BY <1>1, <2>1 DEF TabType
<1>2. CASE ~(view.at = "loading" /\ view.id = c)
  BY <1>2 DEF Meanwhile
<1>3. QED
  BY <1>1, <1>2

LEMMA MeanwhilePhone ==
  ASSUME NEW c, NEW rows \in CaseType, NEW view \in PhoneType
  PROVE  /\ Meanwhile(view, c, rows) \in PhoneType
         /\ Meanwhile(view, c, rows).at = view.at /\ Meanwhile(view, c, rows).id = view.id
         /\ Meanwhile(view, c, rows).page = view.page
         /\ view.at = "loading" /\ view.id = c =>
              Meanwhile(view, c, rows).seen = view.seen \cup {rows}
         /\ ~(view.at = "loading" /\ view.id = c) => Meanwhile(view, c, rows).seen = view.seen
<1>1. CASE view.at = "loading" /\ view.id = c
  <2>1. Meanwhile(view, c, rows) = [view EXCEPT !.seen = @ \cup {rows}]
    BY <1>1 DEF Meanwhile
  <2>2. QED
    BY <1>1, <2>1 DEF PhoneType
<1>2. CASE ~(view.at = "loading" /\ view.id = c)
  BY <1>2 DEF Meanwhile
<1>3. QED
  BY <1>1, <1>2

LEMMA WatchesMeanwhile ==
  ASSUME NEW D, NEW table \in [D -> CaseType], \A d \in D : Sound(table[d]),
         NEW new, NEW c, NEW rows, Changes(table, new, c, rows),
         NEW view \in TabType \cup PhoneType, Watches(view, table)
  PROVE  Watches(Meanwhile(view, c, rows), new)
<1> DEFINE w == Meanwhile(view, c, rows)
<1>1. rows \in CaseType /\ Sound(rows)
  BY DEF Changes
<1>2. /\ w.at = view.at /\ w.id = view.id
      /\ view.at = "loading" /\ view.id = c => w.seen = view.seen \cup {rows}
      /\ ~(view.at = "loading" /\ view.id = c) => w.seen = view.seen
  <2>1. CASE view \in TabType
    BY <1>1, <2>1, MeanwhileTab
  <2>2. CASE view \in PhoneType
    BY <1>1, <2>2, MeanwhilePhone
  <2>3. QED
    BY <2>1, <2>2
<1> HIDE DEF w
<1>3. /\ new \in [D -> CaseType] /\ new[c] = rows
      /\ \A d \in D : Precedes(table[d], new[d])
  BY TableStep
<1>4. view.seen \subseteq CaseType
  BY DEF TabType, PhoneType
<1>5. ASSUME view.at = "loading"
      PROVE  w.id \in DOMAIN new /\ \A r \in w.seen : Sound(r) /\ Precedes(r, new[w.id])
  <2>1. view.id \in D /\ \A r \in view.seen : Sound(r) /\ Precedes(r, table[view.id])
    BY <1>5 DEF Watches
  <2>2. ASSUME NEW r \in view.seen PROVE Sound(r) /\ Precedes(r, new[view.id])
    <3>1. r \in CaseType /\ table[view.id] \in CaseType /\ new[view.id] \in CaseType
      BY <1>3, <1>4, <2>1
    <3>2. Precedes(r, table[view.id]) /\ Precedes(table[view.id], new[view.id])
      BY <1>3, <2>1
    <3>3. QED
      BY <2>1, <3>1, <3>2, PrecedesOrder
  <2>3. Precedes(rows, rows)
    BY <1>1, PrecedesOrder
  <2>4. QED
    BY <1>1, <1>2, <1>3, <2>1, <2>2, <2>3
<1>6. Watches(w, new)
  BY <1>2, <1>5 DEF Watches
<1>7. QED
  BY <1>6 DEF w

-----------------------------------------------------------------------------
(* What the pages show.                                                    *)

LEMMA VerdictIsLast ==
  ASSUME NEW a \in CaseType, Shape(a), Decided(a)
  PROVE  /\ VerdictsOf(a) = {Len(a.decisions)} /\ Len(a.decisions) \in DOMAIN a.decisions
         /\ Min(VerdictsOf(a)) = Len(a.decisions) /\ Max(VerdictsOf(a)) = Len(a.decisions)
<1> DEFINE n == Len(a.decisions)
<1>1. a.decisions \in Seq(DecisionType)
  BY DEF CaseType
<1>2. n \in Nat /\ n <= 2 /\ DOMAIN a.decisions = 1..n
  BY <1>1 DEF Shape
<1>3. PICK i \in DOMAIN a.decisions : a.decisions[i].outcome \in Verdicts
  BY DEF Decided, VerdictsOf
<1>4. n = 2 => a.decisions[1].outcome \notin Verdicts
  BY DEF Shape, Verdicts
<1>5. \A j \in DOMAIN a.decisions : a.decisions[j].outcome \in Verdicts => j = n
  <2> SUFFICES ASSUME NEW j \in DOMAIN a.decisions, a.decisions[j].outcome \in Verdicts
               PROVE  j = n
    OBVIOUS
  <2> HIDE DEF n
  <2>1. j \in Nat /\ 1 <= j /\ j <= n
    BY <1>2
  <2>2. ~(n = 2 /\ j = 1)
    BY <1>4
  <2>3. QED
    BY <1>2, <2>1, <2>2
<1>6. VerdictsOf(a) = {n} /\ n \in DOMAIN a.decisions
  BY <1>3, <1>5 DEF VerdictsOf
<1>7. Min({n}) = n /\ Max({n}) = n
  BY <1>2 DEF Min, Max
<1>8. QED
  BY <1>6, <1>7

LEMMA ShownScore ==
  ASSUME NEW a \in CaseType
  PROVE  ScoreShown(a) \in Nat /\ (a.score # None => ScoreShown(a) = a.score)
BY Constants DEF ScoreShown, CaseType

LEMMA CasePageIs ==
  ASSUME NEW w \in CaseType, NEW x \in CaseType, NEW y \in CaseType, NEW z \in CaseType,
         Shape(x)
  PROVE  LET page == CasePage(w, x, y, z)
         IN /\ page \in CasePageType
            /\ page.flags.ruleset => w.score # None /\ page.head.score = w.score
<1> DEFINE page == CasePage(w, x, y, z)
<1>1. page = [head |-> CaseHead(w, x), flags |-> Flags(w, x), block |-> DecisionBlock(x, y, z)]
  BY DEF CasePage
<1>2. /\ CaseHead(w, x).score = ScoreShown(w)
      /\ CaseHead(w, x) \in [score : Nat, class : {"score-high", "score-mid", "score-low"},
                             pill : Outcomes \cup {"awaiting review"}]
  <2> DEFINE pill == IF Decided(x) THEN x.decisions[Min(VerdictsOf(x))].outcome
                     ELSE "awaiting review"
             Classes == {"score-high", "score-mid", "score-low"}
             Pills == Outcomes \cup {"awaiting review"}
  <2>1. pill \in Pills
    <3>1. CASE Decided(x)
      <4>1. Min(VerdictsOf(x)) \in DOMAIN x.decisions /\ x.decisions \in Seq(DecisionType)
        BY <3>1, VerdictIsLast DEF CaseType
      <4>2. x.decisions[Min(VerdictsOf(x))] \in DecisionType
        BY <4>1
      <4>3. QED
        BY <3>1, <4>2 DEF DecisionType
    <3>2. CASE ~Decided(x)
      BY <3>2
    <3>3. QED
      BY <3>1, <3>2
  <2>2. scoreClass(ScoreShown(w)) \in Classes
    BY DEF scoreClass
  <2>3. CaseHead(w, x) = [score |-> ScoreShown(w), class |-> scoreClass(ScoreShown(w)),
                          pill |-> pill]
    BY DEF CaseHead
  <2>4. ScoreShown(w) \in Nat
    BY ShownScore
  <2> DEFINE score == ScoreShown(w)
             class == scoreClass(ScoreShown(w))
             head == [score |-> score, class |-> class, pill |-> pill]
  <2>5. CaseHead(w, x) = head
    BY <2>3
  <2> HIDE DEF pill, Classes, Pills, score, class
  <2>6. head.score = score /\ head \in [score : Nat, class : Classes, pill : Pills]
    BY <2>1, <2>2, <2>4 DEF score, class
  <2>7. QED
    BY <2>5, <2>6 DEF Classes, Pills, score
<1>3. /\ Flags(w, x) \in [ruleset : BOOLEAN, referred : BOOLEAN]
      /\ Flags(w, x).ruleset <=> w.score # None
  BY DEF Flags, Referred
<1>4. DecisionBlock(x, y, z) \in [shows : {"verdict", "stuck", "form"}, warned : BOOLEAN]
  BY DEF DecisionBlock, Retrying
<1> HIDE DEF page
<1>5. page \in CasePageType
  BY <1>1, <1>2, <1>3, <1>4 DEF CasePageType
<1>6. page.flags.ruleset => w.score # None /\ page.head.score = w.score
  BY <1>1, <1>2, <1>3, ShownScore
<1>7. QED
  BY <1>5, <1>6 DEF page

\* The titles of a trail, and which of them are told.
Titles(rows) == [i \in DOMAIN rows.trail |-> describeForApplicant(rows.trail[i])]
ToldAt(rows) == {i \in DOMAIN rows.trail : Titles(rows)[i] # None}

LEMMA TitlesAre ==
  ASSUME NEW a \in CaseType
  PROVE  /\ Titles(a) \in Seq(Sentences \cup {None}) /\ DOMAIN Titles(a) = DOMAIN a.trail
         /\ Len(Titles(a)) = Len(a.trail)
         /\ History(a) = Kept(Titles(a), ToldAt(a))
<1>1. a.trail \in Seq(EventType)
  BY DEF CaseType
<1>2. ASSUME NEW e \in EventType PROVE describeForApplicant(e) \in Sentences \cup {None}
  <2>1. onStatusChange(e) \in Sentences \cup {None}
    BY DEF onStatusChange, Sentences
  <2>2. onDecision(e) \in Sentences \cup {None}
    BY DEF onDecision, Sentences, Endings
  <2>3. QED
    BY <2>1, <2>2 DEF describeForApplicant, Sentences, Endings
<1>3. \A i \in DOMAIN a.trail : Titles(a)[i] \in Sentences \cup {None}
  BY <1>1, <1>2 DEF Titles
<1>4. DOMAIN Titles(a) = 1..Len(a.trail) /\ DOMAIN a.trail = 1..Len(a.trail)
  BY <1>1 DEF Titles
<1>5. Titles(a) \in Seq(Sentences \cup {None}) /\ Len(Titles(a)) = Len(a.trail)
  <2>1. Len(a.trail) \in Nat
    BY <1>1
  <2>2. Titles(a) \in [1..Len(a.trail) -> Sentences \cup {None}]
    BY <1>3, <1>4 DEF Titles
  <2> HIDE DEF Titles
  <2>3. QED
    BY <2>1, <2>2
<1>6. History(a) = Kept(Titles(a), ToldAt(a))
  BY <1>4 DEF History, Titles, ToldAt
<1>7. QED
  BY <1>4, <1>5, <1>6

LEMMA HistoryIs ==
  ASSUME NEW a \in CaseType
  PROVE  /\ History(a) \in Seq(Sentences) /\ Len(History(a)) = Cardinality(ToldAt(a))
         /\ ToldAt(a) \in SUBSET Nat /\ IsFiniteSet(ToldAt(a)) /\ Cardinality(ToldAt(a)) \in Nat
         /\ \A n \in 1..Cardinality(ToldAt(a)) :
              /\ Place(ToldAt(a), n) \in ToldAt(a)
              /\ History(a)[n] = describeForApplicant(a.trail[Place(ToldAt(a), n)])
<1>1. ToldAt(a) \in SUBSET DOMAIN Titles(a) /\ ToldAt(a) \in SUBSET Nat
  <2>1. a.trail \in Seq(EventType)
    BY DEF CaseType
  <2>2. ToldAt(a) \subseteq DOMAIN a.trail /\ DOMAIN a.trail \subseteq Nat
    BY <2>1 DEF ToldAt
  <2>3. QED
    BY <2>2, TitlesAre
<1> DEFINE P == ToldAt(a)
<1> HIDE DEF P
<1>2. /\ IsFiniteSet(P) /\ Cardinality(P) \in Nat
      /\ Kept(Titles(a), P) \in [1..Cardinality(P) -> Sentences \cup {None}]
      /\ Kept(Titles(a), P) \in Seq(Sentences \cup {None}) /\ Len(Kept(Titles(a), P)) = Cardinality(P)
      /\ \A n \in 1..Cardinality(P) :
           Place(P, n) \in P /\ Kept(Titles(a), P)[n] = Titles(a)[Place(P, n)]
  BY <1>1, TitlesAre, KeptSeq DEF P
<1>3. \A n \in 1..Cardinality(P) :
        /\ Titles(a)[Place(P, n)] \in Sentences
        /\ Titles(a)[Place(P, n)] = describeForApplicant(a.trail[Place(P, n)])
  <2> SUFFICES ASSUME NEW i \in P
               PROVE  Titles(a)[i] \in Sentences /\ Titles(a)[i] = describeForApplicant(a.trail[i])
    BY <1>2
  <2>1. i \in DOMAIN a.trail /\ Titles(a)[i] # None
    BY DEF P, ToldAt
  <2>2. Titles(a)[i] \in Sentences \cup {None}
    BY <2>1, TitlesAre
  <2>3. QED
    BY <2>1, <2>2 DEF Titles
<1>4. Kept(Titles(a), P) \in Seq(Sentences)
  BY <1>2, <1>3
<1>5. History(a) = Kept(Titles(a), P)
  BY TitlesAre DEF P
<1>6. QED
  BY <1>1, <1>2, <1>3, <1>4, <1>5 DEF P

LEMMA PrefixIs ==
  ASSUME NEW S, NEW s \in Seq(S), NEW t \in Seq(S)
  PROVE  IsPrefix(s, t) <=> Extends(s, t)
<1>1. Len(s) \in Nat /\ Len(t) \in Nat /\ DOMAIN s = 1..Len(s) /\ DOMAIN t = 1..Len(t)
  OBVIOUS
<1>2. SubSeq(s, 1, Len(s)) = s
  OBVIOUS
<1>3. ASSUME Len(s) <= Len(t)
      PROVE  /\ SubSeq(t, 1, Len(s)) \in Seq(S) /\ Len(SubSeq(t, 1, Len(s))) = Len(s)
             /\ \A i \in 1..Len(s) : SubSeq(t, 1, Len(s))[i] = t[i]
  BY <1>1, <1>3
<1>4. ASSUME IsPrefix(s, t) PROVE Extends(s, t)
  <2>1. Len(s) <= Len(t) /\ s = SubSeq(t, 1, Len(s))
    BY <1>2, <1>4 DEF IsPrefix
  <2>2. QED
    BY <1>1, <1>3, <2>1 DEF Extends
<1>5. ASSUME Extends(s, t) PROVE IsPrefix(s, t)
  <2>1. Len(s) <= Len(t) /\ \A i \in 1..Len(s) : t[i] = s[i]
    BY <1>1, <1>5 DEF Extends
  <2> DEFINE u == SubSeq(t, 1, Len(s))
  <2>2. u \in Seq(S) /\ Len(u) = Len(s) /\ \A i \in 1..Len(s) : u[i] = s[i]
    BY <1>3, <2>1
  <2> HIDE DEF u
  <2>3. u = s
    BY <1>1, <2>2
  <2>4. QED
    BY <1>2, <2>1, <2>3 DEF IsPrefix, u
<1>6. QED
  BY <1>4, <1>5

\* What a history told it tells for ever.
LEMMA HistoryGrows ==
  ASSUME NEW a \in CaseType, NEW b \in CaseType, Extends(a.trail, b.trail)
  PROVE  IsPrefix(History(a), History(b))
<1> DEFINE S == Sentences \cup {None}
           s == Titles(a)
           t == Titles(b)
           P == ToldAt(a)
           Q == ToldAt(b)
<1>1. a.trail \in Seq(EventType) /\ b.trail \in Seq(EventType)
  BY DEF CaseType
<1>2. Len(a.trail) <= Len(b.trail) /\ DOMAIN a.trail \subseteq DOMAIN b.trail
      /\ \A i \in DOMAIN a.trail : b.trail[i] = a.trail[i]
  BY <1>1 DEF Extends
<1>3. \A i \in DOMAIN a.trail : t[i] = s[i]
  BY <1>2 DEF Titles
<1>4. P = Q \cap DOMAIN a.trail
  BY <1>2, <1>3 DEF ToldAt
<1>5. P \in SUBSET DOMAIN a.trail /\ Q \in SUBSET DOMAIN b.trail
  BY DEF ToldAt
<1>6. /\ s \in Seq(S) /\ DOMAIN s = DOMAIN a.trail /\ Len(s) = Len(a.trail)
      /\ t \in Seq(S) /\ DOMAIN t = DOMAIN b.trail /\ Len(t) = Len(b.trail)
      /\ History(a) = Kept(s, P) /\ History(b) = Kept(t, Q)
  BY TitlesAre
<1> HIDE DEF S, s, t, P, Q
<1>7. Extends(Kept(s, P), Kept(t, Q))
  <2>1. /\ Len(Kept(s, P)) <= Len(Kept(t, Q))
        /\ \A n \in DOMAIN Kept(s, P) : Kept(t, Q)[n] = Kept(s, P)[n]
    <3>1. /\ s \in Seq(S) /\ t \in Seq(S) /\ Len(s) <= Len(t)
          /\ \A i \in DOMAIN s : t[i] = s[i]
          /\ P \in SUBSET DOMAIN s /\ Q \in SUBSET DOMAIN t /\ P = Q \cap DOMAIN s
      BY <1>2, <1>3, <1>4, <1>5, <1>6
    <3>2. QED
      BY <3>1, KeptGrows
  <2>2. QED
    BY <2>1 DEF Extends
<1>8. History(a) \in Seq(Sentences) /\ History(b) \in Seq(Sentences)
  BY HistoryIs
<1>9. QED
  BY <1>6, <1>7, <1>8, PrefixIs

LEMMA BehindLater ==
  ASSUME NEW page \in StatusPageType, NEW a \in CaseType, NEW b \in CaseType,
         Behind(page, a), Precedes(a, b)
  PROVE  Behind(page, b)
<1>1. page.told \in Seq(Sentences) /\ page.step \in Nat
  BY DEF StatusPageType
<1>2. History(a) \in Seq(Sentences) /\ History(b) \in Seq(Sentences)
  BY HistoryIs
<1>3. IsPrefix(History(a), History(b)) /\ IsPrefix(page.told, History(a))
  BY HistoryGrows DEF Precedes, Behind
<1>4. Extends(page.told, History(b))
  BY <1>1, <1>2, <1>3, PrefixIs, ExtendsOrder
<1>5. page.step <= StepOf(b.status)
  <2>1. StepOf(a.status) \in Nat /\ StepOf(b.status) \in Nat
    BY StepsNat DEF CaseType
  <2>2. page.step <= StepOf(a.status) /\ StepOf(a.status) <= StepOf(b.status)
    BY DEF Behind, Precedes
  <2>3. QED
    BY <1>1, <2>1, <2>2
<1>6. QED
  BY <1>1, <1>2, <1>4, <1>5, PrefixIs DEF Behind

LEMMA StatusPageIs ==
  ASSUME NEW x \in CaseType, NEW y \in CaseType
  PROVE  LET page == StatusPage(x, y)
         IN /\ page \in StatusPageType
            /\ page.label = STATUS_COPY[x.status] /\ page.told = History(y)
            /\ page.step = StepOf(x.status)
<1> DEFINE page == StatusPage(x, y)
<1>1. x.status \in Statuses
  BY DEF CaseType
<1>2. STATUS_COPY[x.status] \in Range(STATUS_COPY)
  BY <1>1, StatusNames DEF STATUS_COPY, Range
<1>3. StepOf(x.status) \in Nat
  BY <1>1, StepsNat
<1>4. History(y) \in Seq(Sentences)
  BY HistoryIs
<1>5. page = [label |-> STATUS_COPY[x.status], step |-> StepOf(x.status), told |-> History(y)]
  BY DEF StatusPage
<1> HIDE DEF page
<1>6. /\ page \in StatusPageType /\ page.label = STATUS_COPY[x.status]
      /\ page.told = History(y) /\ page.step = StepOf(x.status)
  BY <1>2, <1>3, <1>4, <1>5 DEF StatusPageType
<1>7. QED
  BY <1>6 DEF page

-----------------------------------------------------------------------------
(* Those who watch, when a case changes.                                   *)

LEMMA Typed ==
  ASSUME DInv
  PROVE  /\ scene \in Scenes /\ scene.applications \subseteq Applications
         /\ IsFiniteSet(scene.applications)
         /\ cases \in [scene.applications -> CaseType] /\ DOMAIN cases = scene.applications
         /\ \A c \in scene.applications : cases[c] \in CaseType /\ Sound(cases[c])
         /\ order \in Seq(scene.applications) /\ aged \in 0..Len(order)
         /\ tab \in TabType /\ phone \in PhoneType /\ reported \in Nat
         /\ Watches(tab, cases) /\ Watches(phone, cases) /\ TabShows /\ PhoneShows
<1>1. /\ scene \in Scenes /\ cases \in [scene.applications -> CaseType]
      /\ order \in Seq(scene.applications) /\ aged \in 0..Len(order)
      /\ tab \in TabType /\ phone \in PhoneType /\ reported \in Nat
  BY DEF DInv, TypeOK
<1>2. DOMAIN cases = scene.applications
  BY <1>1
<1>3. scene.applications \subseteq Applications
  BY <1>1, DeskAssumption
<1>4. IsFiniteSet(scene.applications)
  BY <1>3, DeskAssumption, FS_Subset
<1>5. \A c \in scene.applications : cases[c] \in CaseType /\ Sound(cases[c])
  BY <1>1, <1>2 DEF DInv
<1>6. QED
  BY <1>1, <1>2, <1>3, <1>4, <1>5 DEF DInv

LEMMA TableNext ==
  ASSUME DInv, NEW c, NEW rows, Changes(cases, cases', c, rows)
  PROVE  /\ cases' \in [scene.applications -> CaseType] /\ DOMAIN cases' = scene.applications
         /\ c \in scene.applications /\ cases'[c] = rows
         /\ \A d \in scene.applications :
              cases'[d] \in CaseType /\ Sound(cases'[d]) /\ Precedes(cases[d], cases'[d])
<1>1. cases \in [scene.applications -> CaseType] /\ \A d \in scene.applications : Sound(cases[d])
  BY Typed
<1>2. /\ cases' \in [scene.applications -> CaseType] /\ c \in scene.applications
      /\ cases'[c] = rows
      /\ \A d \in scene.applications : Sound(cases'[d]) /\ Precedes(cases[d], cases'[d])
  BY <1>1, TableStep
<1>3. QED
  BY <1>2

\* A score that is there stays.
LEMMA ScoreStays ==
  ASSUME NEW a \in CaseType, NEW b \in CaseType, Precedes(a, b), a.score # None
  PROVE  b.score = a.score
BY DEF Precedes

LEMMA TabMeanwhile ==
  ASSUME DInv, NEW c, NEW rows, Changes(cases, cases', c, rows), tab' = Meanwhile(tab, c, rows)
  PROVE  tab' \in TabType /\ Watches(tab, cases)' /\ TabShows'
<1>1. /\ cases \in [scene.applications -> CaseType]
      /\ \A d \in scene.applications : cases[d] \in CaseType /\ Sound(cases[d])
      /\ tab \in TabType /\ Watches(tab, cases) /\ TabShows /\ DOMAIN cases = scene.applications
  BY Typed
<1>2. rows \in CaseType
  BY DEF Changes
<1>3. /\ tab' \in TabType /\ tab'.at = tab.at /\ tab'.id = tab.id /\ tab'.page = tab.page
      /\ tab'.rows = tab.rows /\ tab'.outcome = tab.outcome
  BY <1>1, <1>2, MeanwhileTab
<1>4. Watches(tab', cases')
  BY <1>1, WatchesMeanwhile
<1>5. /\ DOMAIN cases' = scene.applications
      /\ \A d \in scene.applications : cases'[d] \in CaseType /\ Precedes(cases[d], cases'[d])
  BY TableNext
<1>6. \A d \in scene.applications : cases[d].score # None => cases'[d].score = cases[d].score
  BY <1>1, <1>5, ScoreStays
<1>7. TabShows'
  BY <1>1, <1>3, <1>5, <1>6 DEF TabShows
<1>8. QED
  BY <1>3, <1>4, <1>7

LEMMA PhoneMeanwhile ==
  ASSUME DInv, NEW c, NEW rows, Changes(cases, cases', c, rows),
         phone' = Meanwhile(phone, c, rows)
  PROVE  phone' \in PhoneType /\ Watches(phone, cases)' /\ PhoneShows'
<1>1. /\ cases \in [scene.applications -> CaseType]
      /\ \A d \in scene.applications : cases[d] \in CaseType /\ Sound(cases[d])
      /\ phone \in PhoneType /\ Watches(phone, cases) /\ PhoneShows
      /\ DOMAIN cases = scene.applications
  BY Typed
<1>2. rows \in CaseType
  BY DEF Changes
<1>3. /\ phone' \in PhoneType /\ phone'.at = phone.at /\ phone'.id = phone.id
      /\ phone'.page = phone.page
      /\ phone.at = "loading" /\ phone.id = c => phone'.seen = phone.seen \cup {rows}
      /\ ~(phone.at = "loading" /\ phone.id = c) => phone'.seen = phone.seen
  <2> DEFINE w == Meanwhile(phone, c, rows)
  <2>1. /\ w \in PhoneType /\ w.at = phone.at /\ w.id = phone.id /\ w.page = phone.page
        /\ phone.at = "loading" /\ phone.id = c => w.seen = phone.seen \cup {rows}
        /\ ~(phone.at = "loading" /\ phone.id = c) => w.seen = phone.seen
    <3>1. phone \in PhoneType /\ rows \in CaseType
      BY <1>1, <1>2
    <3>2. QED
      BY <3>1, MeanwhilePhone
  <2>2. phone' = w
    OBVIOUS
  <2> HIDE DEF w
  <2>3. QED
    BY <2>1, <2>2
<1>4. Watches(phone', cases')
  BY <1>1, WatchesMeanwhile
<1>5. /\ DOMAIN cases' = scene.applications /\ cases'[c] = rows /\ c \in scene.applications
      /\ \A d \in scene.applications : cases'[d] \in CaseType /\ Precedes(cases[d], cases'[d])
  BY TableNext
<1>6. /\ phone'.at = "away" => phone'.page = None
      /\ phone'.at = "loading" => phone'.seen # {}
  BY <1>1, <1>3 DEF PhoneShows
<1>7. ASSUME phone'.at = "loading", phone'.page # None, NEW r \in phone'.seen
      PROVE  Behind(phone'.page, r)
  <2>1. CASE r \in phone.seen
    BY <1>1, <1>3, <1>7, <2>1 DEF PhoneShows
  <2>2. CASE r \notin phone.seen
    <3>1. r = rows /\ phone.id = c /\ phone.at = "loading"
      BY <1>3, <1>7, <2>2
    <3>2. phone.seen # {}
      BY <1>1, <3>1 DEF PhoneShows
    <3>3. PICK s \in phone.seen : TRUE
      BY <3>2
    <3>4. s \in CaseType /\ Behind(phone.page, s) /\ Precedes(s, cases[c])
      BY <1>1, <1>3, <1>7, <3>1, <3>3 DEF PhoneShows, Watches, PhoneType
    <3>5. Precedes(cases[c], rows)
      BY <1>5
    <3>6. phone.page \in StatusPageType
      BY <1>1, <1>3, <1>7 DEF PhoneType
    <3>7. Behind(phone.page, cases[c])
      BY <1>1, <1>5, <3>4, <3>6, BehindLater
    <3>8. Behind(phone.page, rows)
      BY <1>1, <1>2, <1>5, <3>5, <3>6, <3>7, BehindLater
    <3>9. QED
      BY <1>3, <3>1, <3>8
  <2>3. QED
    BY <2>1, <2>2
<1>8. ASSUME phone'.at = "shown"
      PROVE  phone'.id \in DOMAIN cases' /\ phone'.page \in StatusPageType
             /\ Behind(phone'.page, cases'[phone'.id])
  <2>1. phone.id \in scene.applications /\ phone.page \in StatusPageType
        /\ Behind(phone.page, cases[phone.id])
    BY <1>1, <1>3, <1>8 DEF PhoneShows
  <2>2. Behind(phone.page, cases'[phone.id])
    BY <1>1, <1>5, <2>1, BehindLater
  <2>3. QED
    BY <1>3, <1>5, <2>1, <2>2
<1>9. PhoneShows'
  BY <1>6, <1>7, <1>8 DEF PhoneShows
<1>10. QED
  BY <1>3, <1>4, <1>9

-----------------------------------------------------------------------------
(* The officer's browser.                                                  *)

QueueRow == [id : Applications, score : Nat]

LEMMA PendingIs ==
  ASSUME DInv
  PROVE  /\ pendingCases(cases, order) \in Seq(QueueRow)
         /\ \A i \in DOMAIN pendingCases(cases, order) :
              pendingCases(cases, order)[i].id \in DOMAIN cases
<1> DEFINE P == {i \in DOMAIN order : Awaits(cases[order[i]])}
           waiting == Kept(order, P)
           rows == [i \in DOMAIN waiting |->
                     [id |-> waiting[i], score |-> ScoreShown(cases[waiting[i]])]]
<1>1. order \in Seq(scene.applications) /\ P \in SUBSET DOMAIN order
  BY Typed
<1> HIDE DEF P
<1>2. waiting \in Seq(scene.applications)
  BY <1>1, KeptFrom
<1> HIDE DEF waiting
<1>3. /\ DOMAIN waiting = 1..Len(waiting) /\ Len(waiting) \in Nat
      /\ \A i \in DOMAIN waiting : waiting[i] \in scene.applications
  BY <1>2
<1>4. \A i \in DOMAIN waiting : rows[i] \in QueueRow /\ rows[i].id \in DOMAIN cases
  <2> SUFFICES ASSUME NEW i \in DOMAIN waiting
               PROVE  rows[i] \in QueueRow /\ rows[i].id \in DOMAIN cases
    OBVIOUS
  <2>1. waiting[i] \in scene.applications /\ waiting[i] \in Applications
        /\ waiting[i] \in DOMAIN cases /\ cases[waiting[i]] \in CaseType
    BY <1>3, Typed
  <2>2. ScoreShown(cases[waiting[i]]) \in Nat
    BY <2>1, ShownScore
  <2>3. QED
    BY <2>1, <2>2 DEF QueueRow
<1>5. rows \in [1..Len(waiting) -> QueueRow]
  BY <1>3, <1>4
<1>6. rows \in Seq(QueueRow) /\ DOMAIN rows = DOMAIN waiting
  BY <1>3, <1>5
<1>7. pendingCases(cases, order) = rows
  BY DEF pendingCases, waiting, P
<1> HIDE DEF rows
<1>8. QED
  BY <1>4, <1>6, <1>7

LEMMA VisibleIs ==
  ASSUME NEW rows \in Seq(QueueRow), NEW band, NEW query
  PROVE  /\ Visible(rows, band, query) \in Seq(QueueRow)
         /\ \A n \in DOMAIN Visible(rows, band, query) :
              \E i \in DOMAIN rows : Visible(rows, band, query)[n] = rows[i]
<1> DEFINE P == {i \in DOMAIN rows : InBand(band, rows[i].score) /\ query \in {None, rows[i].id}}
<1>1. P \in SUBSET DOMAIN rows /\ Visible(rows, band, query) = Kept(rows, P)
  BY DEF Visible
<1> HIDE DEF P
<1>2. QED
  BY <1>1, KeptFrom

\* A browser at a page just opened.
LEMMA AwayIs == Away \in TabType /\ Away.at = "away" /\ Away.rows = <<>>
BY DEF Away, TabType, BANDS

\* A request for the page of a case.
LEMMA LoadIs ==
  ASSUME NEW table, NEW c \in Applications, c \in DOMAIN table,
         table[c] \in CaseType, Sound(table[c])
  PROVE  /\ Load(c, table[c]) \in TabType /\ Watches(Load(c, table[c]), table)
         /\ Load(c, table[c]).at = "loading" /\ Load(c, table[c]).rows = <<>>
<1> DEFINE w == Load(c, table[c])
<1>1. /\ w \in TabType /\ w.at = "loading" /\ w.id = c /\ w.seen = {table[c]} /\ w.rows = <<>>
  <2>1. w = [Away EXCEPT !.at = "loading", !.id = c, !.seen = {table[c]}]
    BY DEF Load
  <2> HIDE DEF w
  <2>2. {table[c]} \in SUBSET CaseType
    OBVIOUS
  <2>3. w \in TabType
    BY <2>1, <2>2, AwayIs DEF TabType
  <2>4. QED
    BY <2>1, <2>3 DEF Away
<1> HIDE DEF w
<1>2. Precedes(table[c], table[c])
  BY PrecedesOrder
<1>3. Watches(w, table)
  BY <1>1, <1>2 DEF Watches
<1>4. w \in TabType /\ Watches(w, table) /\ w.at = "loading" /\ w.rows = <<>>
  BY <1>1, <1>3
<1>5. QED
  BY <1>4 DEF w

LEMMA TabQueue ==
  ASSUME DInv, cases' = cases, OpenQueue \/ OnQueue \/ ToLogin
  PROVE  tab' \in TabType /\ Watches(tab, cases)' /\ TabShows'
<1>1. /\ tab \in TabType /\ TabShows /\ DOMAIN cases = scene.applications
      /\ scene.applications \subseteq Applications
  BY Typed
<1>2. CASE OpenQueue
  <2> DEFINE rows == pendingCases(cases, order)
  <2>1. rows \in Seq(QueueRow) /\ \A i \in DOMAIN rows : rows[i].id \in DOMAIN cases
    BY PendingIs
  <2>2. tab' = [Away EXCEPT !.at = "queue", !.rows = rows]
    BY <1>2 DEF OpenQueue, Tab
  <2> HIDE DEF rows
  <2>3. tab' \in TabType
    BY <2>1, <2>2, AwayIs DEF TabType, QueueRow
  <2>4. tab'.at = "queue" /\ tab'.rows = rows
    BY <2>2 DEF Away
  <2>5. QED
    BY <2>1, <2>3, <2>4 DEF Watches, TabShows
<1>3. CASE OnQueue
  <2>1. tab.at = "queue"
    BY <1>3 DEF OnQueue
  <2>2. /\ tab' \in TabType /\ tab'.at = tab.at /\ tab'.rows = tab.rows
    <3>1. ASSUME NEW band \in BANDS, NEW query \in DOMAIN cases \cup {None}, Filter(band, query)
          PROVE  tab' \in TabType /\ tab'.at = tab.at /\ tab'.rows = tab.rows
      <4> DEFINE cursor == IF band = tab.band /\ query = tab.query THEN tab.cursor ELSE 0
      <4>1. cursor \in Int
        BY <1>1 DEF TabType
      <4>2. tab' = [tab EXCEPT !.band = band, !.query = query, !.cursor = cursor]
        BY <3>1 DEF Filter, Tab
      <4> HIDE DEF cursor
      <4>3. QED
        BY <1>1, <4>1, <4>2 DEF TabType
    <3>2. ASSUME NEW cursor \in Int, tab' = [tab EXCEPT !.cursor = cursor]
          PROVE  tab' \in TabType /\ tab'.at = tab.at /\ tab'.rows = tab.rows
      BY <1>1, <3>2 DEF TabType
    <3>3. Shown \in Seq(QueueRow)
      BY <1>1, VisibleIs DEF Shown, TabType, QueueRow
    <3>4. tab.cursor \in Int /\ Len(Shown) \in Nat
      BY <1>1, <3>3 DEF TabType
    <3>5. ASSUME Down
          PROVE  tab' = [tab EXCEPT !.cursor = IF tab.cursor + 1 < Len(Shown) - 1
                                               THEN tab.cursor + 1 ELSE Len(Shown) - 1]
      BY <3>5 DEF Down, Tab
    <3>6. ASSUME Up PROVE tab' = [tab EXCEPT !.cursor = IF tab.cursor > 1 THEN tab.cursor - 1 ELSE 0]
      BY <3>6 DEF Up, Tab
    <3>7. ASSUME NEW i \in DOMAIN Shown, Hover(i)
          PROVE  tab' = [tab EXCEPT !.cursor = i - 1] /\ i - 1 \in Int
      BY <3>3, <3>7 DEF Hover, Tab
    <3>8. (IF tab.cursor + 1 < Len(Shown) - 1 THEN tab.cursor + 1 ELSE Len(Shown) - 1) \in Int
          /\ (IF tab.cursor > 1 THEN tab.cursor - 1 ELSE 0) \in Int
      BY <3>4
    <3>9. QED
      BY <1>3, <3>1, <3>2, <3>5, <3>6, <3>7, <3>8 DEF OnQueue
  <2>3. QED
    BY <1>1, <2>1, <2>2 DEF Watches, TabShows
<1>4. CASE ToLogin
  <2>1. tab' = Away
    BY <1>4 DEF ToLogin, Tab
  <2>2. QED
    BY <2>1, AwayIs DEF Watches, TabShows
<1>5. QED
  BY <1>2, <1>3, <1>4

LEMMA TabPages ==
  ASSUME DInv, cases' = cases,
         \/ Enter \/ Render
         \/ \E c \in DOMAIN cases : Visit(c)
         \/ \E o \in Verdicts : Submit(o)
  PROVE  tab' \in TabType /\ Watches(tab, cases)' /\ TabShows'
<1>1. /\ tab \in TabType /\ TabShows /\ Watches(tab, cases) /\ DOMAIN cases = scene.applications
      /\ scene.applications \subseteq Applications
      /\ \A c \in scene.applications : cases[c] \in CaseType /\ Sound(cases[c])
  BY Typed
<1>2. ASSUME NEW c \in DOMAIN cases, tab' = Load(c, cases[c])
      PROVE  tab' \in TabType /\ Watches(tab, cases)' /\ TabShows'
  <2>1. c \in Applications /\ cases[c] \in CaseType /\ Sound(cases[c])
    BY <1>1
  <2>2. /\ Load(c, cases[c]) \in TabType /\ Watches(Load(c, cases[c]), cases)
        /\ Load(c, cases[c]).at = "loading" /\ Load(c, cases[c]).rows = <<>>
    BY <2>1, LoadIs
  <2>3. tab' \in TabType /\ Watches(tab', cases) /\ tab'.at = "loading" /\ tab'.rows = <<>>
    BY <1>2, <2>2
  <2>4. QED
    BY <2>3 DEF TabShows
<1>3. CASE Enter
  <2>1. Shown \in Seq(QueueRow)
        /\ \A n \in DOMAIN Shown : \E i \in DOMAIN tab.rows : Shown[n] = tab.rows[i]
    <3>1. tab.rows \in Seq(QueueRow)
      BY <1>1 DEF TabType, QueueRow
    <3>2. QED
      BY <3>1, VisibleIs DEF Shown
  <2>2. Shown[tab.cursor + 1].id \in DOMAIN cases
    BY <1>1, <1>3, <2>1 DEF Enter, TabShows
  <2>3. tab' = Load(Shown[tab.cursor + 1].id, cases[Shown[tab.cursor + 1].id])
    BY <1>3 DEF Enter, Tab
  <2>4. QED
    BY <1>2, <2>2, <2>3
<1>4. CASE \E c \in DOMAIN cases : Visit(c)
  BY <1>2, <1>4 DEF Visit, Tab
<1>5. CASE Render
  <2>1. PICK w \in tab.seen, x \in tab.seen, y \in tab.seen, z \in tab.seen :
          tab' = [Away EXCEPT !.at = "case", !.id = tab.id, !.page = CasePage(w, x, y, z)]
    <3>1. PICK page \in CasePages(tab.seen) :
            tab' = [Away EXCEPT !.at = "case", !.id = tab.id, !.page = page]
      BY <1>5 DEF Render, Tab
    <3>2. PICK w \in tab.seen, x \in tab.seen, y \in tab.seen, z \in tab.seen :
            page = CasePage(w, x, y, z)
      BY <3>1 DEF CasePages
    <3>3. QED
      BY <3>1, <3>2
  <2>2. /\ tab.id \in scene.applications /\ tab.seen \subseteq CaseType
        /\ \A r \in tab.seen : Sound(r) /\ Precedes(r, cases[tab.id])
    BY <1>1, <1>5 DEF Render, Watches, TabType
  <2> DEFINE page == CasePage(w, x, y, z)
  <2>3. /\ page \in CasePageType
        /\ page.flags.ruleset => w.score # None /\ page.head.score = w.score
    BY <2>2, CasePageIs DEF Sound
  <2> HIDE DEF page
  <2>4. tab' = [Away EXCEPT !.at = "case", !.id = tab.id, !.page = page]
    BY <2>1 DEF page
  <2>5. /\ tab' \in TabType /\ tab'.at = "case" /\ tab'.id = tab.id /\ tab'.page = page
        /\ tab'.rows = <<>>
    <3>1. tab.id \in Applications \cup {None}
      BY <1>1, <2>2
    <3>2. tab' \in TabType
      BY <2>3, <2>4, <3>1, AwayIs DEF TabType
    <3>3. QED
      BY <2>4, <3>2 DEF Away
  <2>6. w.score # None => cases[tab.id].score = w.score
    BY <2>2 DEF Precedes
  <2>7. QED
    BY <1>1, <2>2, <2>3, <2>5, <2>6 DEF Watches, TabShows
<1>6. CASE \E o \in Verdicts : Submit(o)
  <2>1. PICK o \in Verdicts : tab.at = "case" /\ tab' = [tab EXCEPT !.at = "sent", !.outcome = o]
    BY <1>6 DEF Submit, Tab
  <2>2. /\ tab' \in TabType /\ tab'.at = "sent" /\ tab'.id = tab.id /\ tab'.page = tab.page
        /\ tab'.rows = tab.rows /\ tab'.outcome = o
    BY <1>1, <2>1 DEF TabType
  <2>3. QED
    BY <1>1, <2>1, <2>2 DEF Watches, TabShows
<1>7. QED
  BY <1>3, <1>4, <1>5, <1>6

-----------------------------------------------------------------------------
(* The login.                                                              *)

LEMMA Limits == MaxAttempts \in Nat /\ MaxAttempts > 0 /\ Window \in Nat /\ Window > 0
BY LoginAssumption

LEMMA AgeGrows ==
  ASSUME NEW age \in Ages
  PROVE  /\ Older(age) \in Ages /\ age \in Nat
         /\ age <= Window => Older(age) = age + 1
         /\ age > Window => Older(age) = age
BY Limits DEF Ages, Older

\* The login keeps its type: no entry counts more failures than the limit.
LEMMA LoginTypeNext == LoginTypeOK /\ [LoginNext]_loginVars => LoginTypeOK'
<1> SUFFICES ASSUME LoginTypeOK, [LoginNext]_loginVars PROVE LoginTypeOK'
  OBVIOUS
<1> USE DEF LoginTypeOK
<1>0. Nothing \in [count : 0..MaxAttempts, age : Ages] /\ Nothing \in [count : Nat, age : Ages]
      /\ [count |-> 1, age |-> 0] \in [count : 0..MaxAttempts, age : Ages]
  BY Limits DEF Nothing, Ages
<1>1. CASE SignInFails
  <2>1. attempts' \in [count : 0..MaxAttempts, age : Ages]
    <3>1. CASE attempts = Nothing \/ Passed
      BY <1>0, <1>1, <3>1 DEF SignInFails, recordFailure
    <3>2. CASE ~(attempts = Nothing \/ Passed)
      <4>1. attempts.count \in 0..MaxAttempts /\ attempts.count < MaxAttempts
        BY <1>1, <3>2, Limits DEF SignInFails, rateLimitExceeded
      <4>2. attempts' = [attempts EXCEPT !.count = @ + 1]
        BY <1>1, <3>2 DEF SignInFails, recordFailure
      <4>3. attempts.count + 1 \in 0..MaxAttempts
        BY <4>1, Limits
      <4>4. QED
        BY <4>2, <4>3
    <3>3. QED
      BY <3>1, <3>2
  <2>2. watch' \in [count : Nat, age : Ages] /\ session' = session
    BY <1>1 DEF SignInFails
  <2>3. QED
    BY <2>1, <2>2
<1>2. CASE TimePasses
  <2>1. attempts' \in [count : 0..MaxAttempts, age : Ages]
    BY <1>0, <1>2, AgeGrows DEF TimePasses
  <2>2. watch' \in [count : Nat, age : Ages] /\ session' = session
    BY <1>2, AgeGrows DEF TimePasses
  <2>3. QED
    BY <2>1, <2>2
<1>3. CASE SignIn \/ RestartInstance \/ StartWatch
  BY <1>0, <1>3 DEF SignIn, clearFailures, startSession, RestartInstance, StartWatch
<1>4. CASE SignOut \/ SessionExpires
  BY <1>4 DEF SignOut, endSession, SessionExpires
<1>5. CASE UNCHANGED loginVars
  BY <1>5 DEF loginVars
<1>6. QED
  BY <1>1, <1>2, <1>3, <1>4, <1>5 DEF LoginNext, SessionNext

-----------------------------------------------------------------------------
(* The stopwatch against the window.  While it runs it has met one window  *)
(* that began before it, whose first failure it did not see, and at most   *)
(* one that began after it.                                                *)

Seen ==
  /\ attempts.count = 0 => attempts = Nothing
  /\ watch.age <= Window =>
       /\ attempts.count = 0 => watch.count = 0
       /\ attempts.count > 0 /\ attempts.age > watch.age => watch.count <= attempts.count - 1
       /\ attempts.count > 0 /\ attempts.age <= watch.age =>
            watch.count <= MaxAttempts - 1 + attempts.count

LEMMA SeenNext == LoginTypeOK /\ Seen /\ [LoginNext]_loginVars => Seen'
<1> SUFFICES ASSUME LoginTypeOK, Seen, [LoginNext]_loginVars PROVE Seen'
  OBVIOUS
<1>0. /\ attempts.count \in 0..MaxAttempts /\ attempts.age \in Ages /\ attempts.age \in Nat
      /\ watch.count \in Nat /\ watch.age \in Ages /\ watch.age \in Nat
      /\ MaxAttempts \in Nat /\ MaxAttempts > 0 /\ Window \in Nat
      /\ attempts \in [count : 0..MaxAttempts, age : Ages] /\ watch \in [count : Nat, age : Ages]
  BY Limits DEF LoginTypeOK, Ages
<1>1. Nothing.count = 0 /\ Nothing.age = 0
  BY DEF Nothing
<1>2. CASE SignInFails
  <2>1. CASE watch.age > Window
    <3>1. watch' = watch
      BY <1>2, <2>1 DEF SignInFails
    <3>2. attempts'.count > 0
      BY <1>0, <1>2, Limits DEF SignInFails, recordFailure, Seen
    <3>3. QED
      BY <1>0, <2>1, <3>1, <3>2 DEF Seen
  <2>2. CASE watch.age <= Window
    <3>1. watch'.count = watch.count + 1 /\ watch'.age = watch.age
      BY <1>0, <1>2, <2>2 DEF SignInFails
    <3>2. CASE attempts = Nothing \/ Passed
      <4>1. attempts'.count = 1 /\ attempts'.age = 0
        BY <1>2, <3>2 DEF SignInFails, recordFailure
      <4>2. watch.count <= MaxAttempts - 1
        BY <1>0, <1>1, <2>2, <3>2 DEF Seen, Passed
      <4>3. QED
        BY <1>0, <3>1, <4>1, <4>2 DEF Seen
    <3>3. CASE ~(attempts = Nothing \/ Passed)
      <4>1. attempts'.count = attempts.count + 1 /\ attempts'.age = attempts.age
        BY <1>0, <1>2, <3>3 DEF SignInFails, recordFailure
      <4>2. attempts.count > 0
        BY <1>0, <3>3 DEF Seen
      <4>3. QED
        BY <1>0, <2>2, <3>1, <4>1, <4>2 DEF Seen
    <3>4. QED
      BY <3>2, <3>3
  <2>3. QED
    BY <1>0, <2>1, <2>2
<1>3. CASE TimePasses
  <2>1. CASE attempts = Nothing
    <3>1. attempts' = Nothing /\ watch'.count = watch.count /\ watch'.age = Older(watch.age)
      BY <1>0, <1>3, <2>1 DEF TimePasses
    <3>2. Older(watch.age) <= Window => watch.age <= Window
      BY <1>0, AgeGrows
    <3>3. QED
      BY <1>1, <2>1, <3>1, <3>2 DEF Seen
  <2>2. CASE attempts # Nothing
    <3>1. /\ attempts'.count = attempts.count /\ attempts'.age = Older(attempts.age)
          /\ watch'.count = watch.count /\ watch'.age = Older(watch.age)
      BY <1>0, <1>3, <2>2 DEF TimePasses
    <3>2. Older(watch.age) <= Window =>
            /\ watch.age <= Window
            /\ Older(attempts.age) > Older(watch.age) <=> attempts.age > watch.age
      BY <1>0, AgeGrows
    <3>3. Older(attempts.age) \in Nat /\ Older(watch.age) \in Nat
      BY <1>0, AgeGrows DEF Ages
    <3>4. QED
      BY <1>0, <2>2, <3>1, <3>2, <3>3 DEF Seen
  <2>3. QED
    BY <2>1, <2>2
<1>4. CASE SignIn \/ RestartInstance
  <2>1. attempts' = Nothing /\ watch' = Nothing
    BY <1>4 DEF SignIn, clearFailures, RestartInstance
  <2>2. QED
    BY <1>1, <2>1 DEF Seen
<1>5. CASE StartWatch
  <2>1. attempts' = attempts /\ watch' = Nothing
    BY <1>5 DEF StartWatch
  <2>2. QED
    BY <1>0, <1>1, <2>1 DEF Seen
<1>6. CASE SignOut \/ SessionExpires \/ UNCHANGED loginVars
  BY <1>6 DEF SignOut, SessionExpires, loginVars, Seen
<1>7. QED
  BY <1>2, <1>3, <1>4, <1>5, <1>6 DEF LoginNext, SessionNext

\* The entry of a client never counts more failures than the limit.
THEOREM LoginTypeCorrect == LoginSpec => []LoginTypeOK
<1>1. LoginInit => LoginTypeOK
  BY Limits DEF LoginInit, LoginTypeOK, Nothing, Ages
<1>2. QED
  BY <1>1, LoginTypeNext, PTL DEF LoginSpec

\* In the time of one window, wherever it is laid, fewer than twice as many wrong
\* passwords are tried as the limit says.
THEOREM WindowHolds == LoginSpec => []FailuresAreLimited
<1>1. LoginInit => LoginTypeOK /\ Seen
  BY Limits DEF LoginInit, LoginTypeOK, Nothing, Ages, Seen
<1>2. LoginTypeOK /\ Seen => FailuresAreLimited
  BY Limits DEF LoginTypeOK, Seen, FailuresAreLimited, Ages
<1>3. QED
  BY <1>1, <1>2, LoginTypeNext, SeenNext, PTL DEF LoginSpec

-----------------------------------------------------------------------------
(* Whatever changes a case leads to later rows of it.                      *)

\* One case has changed, for those who watch it too.
OneChanges(c) ==
  \E rows : Changes(cases, cases', c, rows) /\ phone' = Meanwhile(phone, c, rows)
             /\ tab' = Meanwhile(tab, c, rows)

LEMMA WorkerChanges ==
  ASSUME DInv, Worker
  PROVE  /\ UNCHANGED <<scene, aged, tick, reported, aside>>
         /\ \E c \in scene.applications :
              OneChanges(c) /\ order' \in {order, Append(order, c)}
<1>1. /\ DOMAIN cases = scene.applications
      /\ \A c \in scene.applications : cases[c] \in CaseType /\ Sound(cases[c])
  BY Typed
<1>2. ASSUME NEW c \in DOMAIN cases, NEW rows \in CaseType,
             OfOthers(c, rows), Sound(rows), Precedes(cases[c], rows)
      PROVE  OneChanges(c)
  BY <1>2 DEF OfOthers, Commits, OneChanges, Changes
<1>3. PICK c \in DOMAIN cases :
        \/ \E to \in Statuses : Move(c, to)
        \/ ScreenAgain(c) \/ SkipScreening(c) \/ ScreeningFails(c)
        \/ \E found \in Findings : Screen(c, found)
  BY DEF Worker
<1>4. cases[c] \in CaseType /\ Sound(cases[c]) /\ c \in scene.applications
  BY <1>1
<1>5. ASSUME NEW job \in {"none", "queued", "retrying", "parked"},
             OfOthers(c, [cases[c] EXCEPT !.job = job])
      PROVE  OneChanges(c)
  BY <1>2, <1>4, <1>5, JobStep
<1>6. CASE \E to \in Statuses : Move(c, to)
  <2>1. PICK to \in Statuses : Move(c, to)
    BY <1>6
  <2> DEFINE job == IF to = "screening" THEN "queued" ELSE cases[c].job
             rows == [cases[c] EXCEPT !.status = to, !.job = job,
                                      !.trail = Append(@, EventOf(cases[c].status, to))]
  <2>2. job \in {"none", "queued", "retrying", "parked"}
    BY <1>4 DEF CaseType
  <2>3. <<cases[c].status, to>> \in Moves /\ OfOthers(c, rows)
    BY <2>1 DEF Move, MayMove
  <2> HIDE DEF job
  <2>4. rows \in CaseType /\ Sound(rows) /\ Precedes(cases[c], rows)
    BY <1>4, <2>2, <2>3, MoveStep
  <2> HIDE DEF rows
  <2>5. OneChanges(c)
    BY <1>2, <2>3, <2>4
  <2>6. QED
    BY <1>4, <2>1, <2>5 DEF Move
<1>7. CASE ScreenAgain(c)
  BY <1>4, <1>5, <1>7 DEF ScreenAgain
<1>8. CASE SkipScreening(c)
  BY <1>4, <1>5, <1>8 DEF SkipScreening
<1>9. CASE ScreeningFails(c)
  BY <1>4, <1>5, <1>9 DEF ScreeningFails
<1>10. CASE \E found \in Findings : Screen(c, found)
  <2>1. PICK found \in Findings : Screen(c, found)
    BY <1>10
  <2> DEFINE rows == Screened(cases[c], found)
  <2>2. /\ cases[c].status = "screening" /\ (cases[c].score = found.score \/ Unfrozen(cases[c]))
        /\ OfOthers(c, rows)
    BY <2>1 DEF Screen
  <2>3. rows \in CaseType /\ Sound(rows) /\ Precedes(cases[c], rows)
    BY <1>4, <2>2, ScreenedStep
  <2> HIDE DEF rows
  <2>4. OneChanges(c)
    BY <1>2, <2>2, <2>3
  <2>5. QED
    BY <1>4, <2>1, <2>4 DEF Screen
<1>11. QED
  BY <1>3, <1>6, <1>7, <1>8, <1>9, <1>10

\* A verdict that somebody else gives.
LEMMA VerdictChanges ==
  ASSUME DInv, NEW c \in DOMAIN cases, NEW o \in Verdicts, NEW by \in Staff, Decidable(cases[c]),
         OfOthers(c, WithVerdict(cases[c], o, by))
  PROVE  c \in scene.applications /\ OneChanges(c)
<1>1. c \in scene.applications /\ cases[c] \in CaseType /\ Sound(cases[c])
  BY Typed
<1> DEFINE rows == WithVerdict(cases[c], o, by)
<1>2. rows \in CaseType /\ Sound(rows) /\ Precedes(cases[c], rows)
  BY <1>1, VerdictStep
<1> HIDE DEF rows
<1>3. OfOthers(c, rows)
  BY DEF rows
<1>4. QED
  BY <1>1, <1>2, <1>3 DEF OfOthers, Commits, OneChanges, Changes

\* The officer's own verdict, and what becomes of it.
LEMMA DecideStep ==
  ASSUME DInv, Decide
  PROVE  /\ UNCHANGED <<scene, order, aged, tick, reported, aside>>
         /\ tab' \in TabType /\ Watches(tab, cases)' /\ TabShows'
         /\ \/ UNCHANGED <<cases, phone>> /\ tab'.at \in {"told", "case", "away"}
            \/ \E rows : /\ Changes(cases, cases', tab.id, rows)
                         /\ phone' = Meanwhile(phone, tab.id, rows)
                         /\ rows.decisions # <<>>
                         /\ Last(rows.decisions).score = cases[tab.id].score
<1>1. /\ tab \in TabType /\ TabShows /\ DOMAIN cases = scene.applications
      /\ scene.applications \subseteq Applications
      /\ \A c \in scene.applications : cases[c] \in CaseType /\ Sound(cases[c])
      /\ tab.at = "sent"
  BY Typed DEF Decide
<1>2. /\ tab.id \in scene.applications /\ tab.id \in Applications /\ tab.outcome \in Verdicts
      /\ cases[tab.id] \in CaseType /\ Sound(cases[tab.id])
      /\ tab.page \in CasePageType
  BY <1>1 DEF TabShows
<1>3. UNCHANGED <<scene, order, aged, tick, reported, aside>>
  BY DEF Decide
<1> DEFINE old == cases[tab.id]
           new == WithVerdict(old, tab.outcome, "officer")
<1>4. CASE Decidable(old) /\ Commits(tab.id, new) /\ tab' = Load(tab.id, new)
  <2>1. /\ new \in CaseType /\ Sound(new) /\ Precedes(old, new)
        /\ new.decisions = Append(old.decisions,
                                  [outcome |-> tab.outcome, by |-> "officer", score |-> old.score])
        /\ old.score # None
    BY <1>2, <1>4, VerdictStep DEF Staff
  <2>2. cases' = [cases EXCEPT ![tab.id] = new] /\ phone' = Meanwhile(phone, tab.id, new)
        /\ tab' = Load(tab.id, new)
    BY <1>4 DEF Commits
  <2> DEFINE d == [outcome |-> tab.outcome, by |-> "officer", score |-> old.score]
  <2>3. new.decisions # <<>> /\ Last(new.decisions).score = old.score
    <3>1. old.decisions \in Seq(DecisionType) /\ d \in DecisionType /\ d.score = old.score
      BY <1>2, <2>1 DEF CaseType, DecisionType, Outcomes, Staff
    <3> HIDE DEF d
    <3>2. /\ Append(old.decisions, d) # <<>>
          /\ Append(old.decisions, d)[Len(Append(old.decisions, d))] = d
      BY <3>1
    <3> HIDE DEF new
    <3>3. new.decisions = Append(old.decisions, d)
      BY <2>1 DEF d
    <3>4. QED
      BY <3>1, <3>2, <3>3 DEF Last
  <2> HIDE DEF new
  <2>4. Changes(cases, cases', tab.id, new)
    BY <1>1, <1>2, <2>1, <2>2 DEF Changes
  <2>5. cases'[tab.id] = new /\ tab.id \in DOMAIN cases'
    BY <1>1, <1>2, <2>2
  <2>6. /\ Load(tab.id, cases'[tab.id]) \in TabType
        /\ Watches(Load(tab.id, cases'[tab.id]), cases')
        /\ Load(tab.id, cases'[tab.id]).at = "loading"
        /\ Load(tab.id, cases'[tab.id]).rows = <<>>
    BY <1>2, <2>1, <2>5, LoadIs
  <2>7. tab' \in TabType /\ Watches(tab', cases') /\ tab'.at = "loading" /\ tab'.rows = <<>>
    BY <2>2, <2>5, <2>6
  <2>8. TabShows'
    BY <2>7 DEF TabShows
  <2>9. QED
    BY <1>3, <2>2, <2>3, <2>4, <2>7, <2>8
<1>5. ASSUME NEW at \in {"told", "case"}, tab' = [tab EXCEPT !.at = at, !.outcome = None],
             cases' = cases, phone' = phone
      PROVE  tab' \in TabType /\ Watches(tab, cases)' /\ TabShows' /\ tab'.at \in {"told", "case"}
  <2>1. /\ tab' \in TabType /\ tab'.at = at /\ tab'.id = tab.id /\ tab'.page = tab.page
        /\ tab'.rows = tab.rows
    BY <1>1, <1>5 DEF TabType
  <2>2. QED
    BY <1>1, <1>5, <2>1 DEF Watches, TabShows
<1>6. ASSUME tab' = Away
      PROVE  tab' \in TabType /\ Watches(tab, cases)' /\ TabShows' /\ tab'.at = "away"
  BY <1>6, AwayIs DEF Watches, TabShows
<1>7. \/ Decidable(old) /\ Commits(tab.id, new) /\ tab' = Load(tab.id, new)
      \/ /\ \E at \in {"told", "case"} : tab' = [tab EXCEPT !.at = at, !.outcome = None]
         /\ cases' = cases /\ phone' = phone
      \/ tab' = Away /\ cases' = cases /\ phone' = phone
  BY DEF Decide
<1>8. CASE /\ \E at \in {"told", "case"} : tab' = [tab EXCEPT !.at = at, !.outcome = None]
           /\ cases' = cases /\ phone' = phone
  BY <1>3, <1>5, <1>8
<1>9. CASE tab' = Away /\ cases' = cases /\ phone' = phone
  BY <1>3, <1>6, <1>9
<1> HIDE DEF new, old
<1>10. QED
  BY <1>4, <1>7, <1>8, <1>9

LEMMA OfficerStep ==
  ASSUME DInv, Officer, ~Decide
  PROVE  /\ UNCHANGED <<scene, cases, order, aged, phone, tick, reported, aside>>
         /\ tab' \in TabType /\ Watches(tab, cases)' /\ TabShows'
         /\ tab.at = "sent" => tab'.at # "loading"
<1>1. \/ ToLogin \/ OpenQueue \/ OnQueue
      \/ Enter \/ Render
      \/ \E c \in DOMAIN cases : Visit(c)
      \/ \E o \in Verdicts : Submit(o)
  BY DEF Officer
<1>2. UNCHANGED <<scene, cases, order, aged, phone, tick, reported, aside>>
  BY <1>1 DEF ToLogin, OpenQueue, OnQueue, Enter, Render, Visit, Submit, Tab, Filter, Down, Up, Hover
<1>3. tab' \in TabType /\ Watches(tab, cases)' /\ TabShows'
  BY <1>1, <1>2, TabQueue, TabPages
<1>4. tab.at = "sent" => ToLogin
  BY <1>1 DEF OpenQueue, Browses, OnQueue, Enter, Render, Visit, Submit
<1>5. ToLogin => tab' = Away
  BY DEF ToLogin, Tab
<1>6. QED
  BY <1>2, <1>3, <1>4, <1>5, AwayIs

-----------------------------------------------------------------------------
(* The applicant's browser.                                                *)

LEMMA PhoneStep ==
  ASSUME DInv, Refreshed \/ \E c \in DOMAIN cases : Refresh(c)
  PROVE  /\ UNCHANGED <<scene, cases, order, aged, tab, tick, reported, aside>>
         /\ phone' \in PhoneType /\ Watches(phone, cases)' /\ PhoneShows'
<1>1. /\ phone \in PhoneType /\ PhoneShows /\ Watches(phone, cases)
      /\ DOMAIN cases = scene.applications /\ scene.applications \subseteq Applications
      /\ \A c \in scene.applications : cases[c] \in CaseType /\ Sound(cases[c])
  BY Typed
<1>2. UNCHANGED <<scene, cases, order, aged, tab, tick, reported, aside>>
  BY DEF Refreshed, Refresh
<1>3. ASSUME NEW c \in DOMAIN cases, Refresh(c)
      PROVE  phone' \in PhoneType /\ Watches(phone, cases)' /\ PhoneShows'
  <2> DEFINE seen == {cases[c]}
  <2>1. /\ c \in Applications /\ seen \in SUBSET CaseType /\ Sound(cases[c])
        /\ Precedes(cases[c], cases[c])
    BY <1>1, PrecedesOrder
  <2>2. /\ phone' = [phone EXCEPT !.at = "loading", !.id = c, !.seen = seen]
        /\ phone.at = "away" \/ (phone.at = "shown" /\ phone.id = c)
    BY <1>3 DEF Refresh
  <2>3. \A r \in seen : r = cases[c]
    OBVIOUS
  <2>4. seen # {}
    OBVIOUS
  <2> HIDE DEF seen
  <2>5. /\ phone' \in PhoneType /\ phone'.at = "loading" /\ phone'.id = c /\ phone'.seen = seen
        /\ phone'.page = phone.page
    BY <1>1, <2>1, <2>2 DEF PhoneType
  <2>6. Watches(phone, cases)'
    BY <1>2, <2>1, <2>3, <2>5 DEF Watches
  <2>7. phone.page # None => Behind(phone.page, cases[c])
    BY <1>1, <2>2 DEF PhoneShows
  <2>8. PhoneShows'
    BY <2>3, <2>4, <2>5, <2>7 DEF PhoneShows
  <2>9. QED
    BY <2>5, <2>6, <2>8
<1>4. ASSUME Refreshed
      PROVE  phone' \in PhoneType /\ Watches(phone, cases)' /\ PhoneShows'
  <2>1. PICK x \in phone.seen, y \in phone.seen :
          phone' = [phone EXCEPT !.at = "shown", !.seen = {}, !.page = StatusPage(x, y)]
    <3>1. PICK page \in StatusPages(phone.seen) :
            phone' = [phone EXCEPT !.at = "shown", !.seen = {}, !.page = page]
      BY <1>4 DEF Refreshed
    <3>2. PICK x \in phone.seen, y \in phone.seen : page = StatusPage(x, y)
      BY <3>1 DEF StatusPages
    <3>3. QED
      BY <3>1, <3>2
  <2>2. /\ phone.id \in scene.applications /\ x \in CaseType /\ y \in CaseType
        /\ Precedes(x, cases[phone.id]) /\ Precedes(y, cases[phone.id])
        /\ cases[phone.id] \in CaseType
    BY <1>1, <1>4 DEF Refreshed, Watches, PhoneType
  <2> DEFINE page == StatusPage(x, y)
  <2>3. page \in StatusPageType /\ page.told = History(y) /\ page.step = StepOf(x.status)
    BY <2>2, StatusPageIs
  <2>4. phone' = [phone EXCEPT !.at = "shown", !.seen = {}, !.page = page]
    BY <2>1
  <2> HIDE DEF page
  <2>5. /\ phone' \in PhoneType /\ phone'.at = "shown" /\ phone'.id = phone.id
        /\ phone'.page = page
    BY <1>1, <2>3, <2>4 DEF PhoneType
  <2>6. Behind(page, cases[phone.id])
    BY <2>2, <2>3, HistoryGrows DEF Behind, Precedes
  <2>7. Watches(phone, cases)' /\ PhoneShows'
    BY <1>1, <1>2, <2>2, <2>3, <2>5, <2>6 DEF Watches, PhoneShows
  <2>8. QED
    BY <2>5, <2>7
<1>5. QED
  BY <1>2, <1>3, <1>4

-----------------------------------------------------------------------------
(* The seed tick.                                                          *)

ReviewItem == [id : scene.applications, outcome : Verdicts]
TickType ==
  [at : {"idle", "reviewing"}, decided : Nat, skipped : Nat, todo : Seq(ReviewItem)]
TickTyped == tick \in TickType /\ tick.decided + tick.skipped + Len(tick.todo) <= MaxReviews

LEMMA Limit == MaxReviews \in Nat /\ MaxReviews > 0
BY DeskAssumption

LEMMA NoTickTyped == tick' = NoTick /\ scene' = scene => TickTyped' /\ tick'.decided = 0
<1> SUFFICES ASSUME tick' = NoTick, scene' = scene PROVE TickTyped' /\ tick'.decided = 0
  OBVIOUS
<1>1. tick' = [at |-> "idle", todo |-> <<>>, decided |-> 0, skipped |-> 0]
  BY DEF NoTick
<1>2. tick' \in TickType'
  BY <1>1 DEF TickType
<1>3. tick'.decided = 0 /\ tick'.skipped = 0 /\ Len(tick'.todo) = 0
  BY <1>1
<1>4. tick'.decided + tick'.skipped + Len(tick'.todo) <= MaxReviews
  BY <1>3, Limit
<1>5. QED
  BY <1>2, <1>3, <1>4 DEF TickTyped

\* The oldest referrals, no more of them than a tick may take.
LEMMA ToReviewIs ==
  ASSUME DInv
  PROVE  ToReview \in Seq(scene.applications) /\ Len(ToReview) <= MaxReviews
<1> DEFINE P == {i \in 1..aged : cases[order[i]].seeded /\ Awaits(cases[order[i]])}
           old == Old
           k == IF Len(old) < MaxReviews THEN Len(old) ELSE MaxReviews
<1>1. order \in Seq(scene.applications) /\ aged \in 0..Len(order)
  BY Typed
<1>2. 1..aged \subseteq DOMAIN order
  BY <1>1
<1>3. P \in SUBSET DOMAIN order /\ old = Kept(order, P)
  BY <1>2 DEF Old
<1> HIDE DEF P, old
<1>4. old \in Seq(scene.applications)
  BY <1>1, <1>3, KeptFrom
<1>5. k \in Nat /\ k <= Len(old) /\ k <= MaxReviews
  BY <1>4, Limit
<1> HIDE DEF k
<1>6. SubSeq(old, 1, k) \in Seq(scene.applications) /\ Len(SubSeq(old, 1, k)) = k
  <2> DEFINE S == scene.applications
  <2>1. old \in Seq(S) /\ Len(old) \in Nat
    BY <1>4
  <2> HIDE DEF S
  <2>2. SubSeq(old, 1, k) \in Seq(S) /\ Len(SubSeq(old, 1, k)) = k
    BY <1>5, <2>1
  <2>3. QED
    BY <2>2 DEF S
<1>7. ToReview = SubSeq(old, 1, k)
  BY DEF ToReview, AtMost, old, k
<1>8. QED
  BY <1>5, <1>6, <1>7

LEMMA TickListsTyped ==
  ASSUME DInv, TickLists
  PROVE  TickTyped' /\ tick'.decided = 0
<1> DEFINE review == ToReview
           todo == [i \in DOMAIN review |->
                     [id |-> review[i],
                      outcome |-> IF ScoreShown(cases[review[i]]) >= RejectsFrom
                                    THEN "rejected" ELSE "approved"]]
<1>1. review \in Seq(scene.applications) /\ Len(review) <= MaxReviews
  BY ToReviewIs
<1>2. tick' = [NoTick EXCEPT !.at = "reviewing", !.todo = todo] /\ scene' = scene
  BY DEF TickLists
<1> HIDE DEF review
<1>3. DOMAIN review = 1..Len(review) /\ Len(review) \in Nat
      /\ \A i \in DOMAIN review : review[i] \in scene.applications
  BY <1>1
<1>4. todo \in [1..Len(review) -> ReviewItem]
  BY <1>3 DEF ReviewItem, Verdicts
<1>5. todo \in Seq(ReviewItem) /\ Len(todo) = Len(review)
  BY <1>3, <1>4
<1> HIDE DEF todo
<1>6. tick' = [at |-> "reviewing", todo |-> todo, decided |-> 0, skipped |-> 0]
  BY <1>2 DEF NoTick
<1>7. tick' \in TickType
  BY <1>5, <1>6 DEF TickType
<1>8. tick'.decided = 0 /\ tick'.skipped = 0 /\ Len(tick'.todo) = Len(review)
  BY <1>5, <1>6
<1>9. tick'.decided + tick'.skipped + Len(tick'.todo) <= MaxReviews
  BY <1>1, <1>3, <1>8
<1>10. TickType' = TickType
  BY <1>2 DEF TickType, ReviewItem
<1>11. QED
  BY <1>7, <1>8, <1>9, <1>10 DEF TickTyped

LEMMA CountsTyped ==
  ASSUME TickTyped, tick.todo # <<>>, scene' = scene, NEW done \in BOOLEAN, tick' = Counts(done)
  PROVE  /\ TickTyped'
         /\ done => tick'.decided = tick.decided + 1
         /\ ~done => tick'.decided = tick.decided
         /\ tick.decided \in Nat
         /\ Head(tick.todo) \in ReviewItem
<1> DEFINE todo == tick.todo
           rest == Tail(todo)
<1>1. /\ todo \in Seq(ReviewItem) /\ todo # <<>> /\ tick.decided \in Nat /\ tick.skipped \in Nat
      /\ tick \in TickType
      /\ tick.decided + tick.skipped + Len(todo) <= MaxReviews
  BY DEF TickTyped, TickType
<1> HIDE DEF todo
<1>2. /\ rest \in Seq(ReviewItem) /\ Len(rest) = Len(todo) - 1 /\ Len(todo) \in Nat
      /\ Head(todo) \in ReviewItem
  BY <1>1
<1>3. tick' = IF done THEN [tick EXCEPT !.todo = rest, !.decided = @ + 1]
                      ELSE [tick EXCEPT !.todo = rest, !.skipped = @ + 1]
  BY DEF Counts, todo
<1> HIDE DEF rest
<1>4. /\ tick' \in TickType
      /\ tick'.todo = rest
      /\ done => tick'.decided = tick.decided + 1 /\ tick'.skipped = tick.skipped
      /\ ~done => tick'.decided = tick.decided /\ tick'.skipped = tick.skipped + 1
  <2> DEFINE item == ReviewItem
  <2>0. /\ tick \in [at : {"idle", "reviewing"}, decided : Nat, skipped : Nat, todo : Seq(item)]
        /\ rest \in Seq(item)
    BY <1>1, <1>2 DEF TickType
  <2> HIDE DEF item
  <2>1. CASE done
    <3> DEFINE more == tick.decided + 1
    <3>1. tick' = [tick EXCEPT !.todo = rest, !.decided = more]
      BY <1>3, <2>1
    <3>2. more \in Nat
      BY <1>1
    <3> HIDE DEF more
    <3>3. /\ tick' \in [at : {"idle", "reviewing"}, decided : Nat, skipped : Nat, todo : Seq(item)]
          /\ tick'.todo = rest /\ tick'.decided = more /\ tick'.skipped = tick.skipped
      BY <2>0, <3>1, <3>2
    <3>4. QED
      BY <2>1, <3>3 DEF TickType, item, more
  <2>2. CASE ~done
    <3> DEFINE more == tick.skipped + 1
    <3>1. tick' = [tick EXCEPT !.todo = rest, !.skipped = more]
      BY <1>3, <2>2
    <3>2. more \in Nat
      BY <1>1
    <3> HIDE DEF more
    <3>3. /\ tick' \in [at : {"idle", "reviewing"}, decided : Nat, skipped : Nat, todo : Seq(item)]
          /\ tick'.todo = rest /\ tick'.skipped = more /\ tick'.decided = tick.decided
      BY <2>0, <3>1, <3>2
    <3>4. QED
      BY <2>2, <3>3 DEF TickType, item, more
  <2>3. QED
    BY <2>1, <2>2
<1>5. tick'.decided + tick'.skipped + Len(tick'.todo) <= MaxReviews
  <2>1. \A m, n, k \in Nat : m + n + k <= MaxReviews =>
          m + 1 + n + (k - 1) <= MaxReviews /\ m + (n + 1) + (k - 1) <= MaxReviews
    BY Limit
  <2>2. /\ tick.decided + 1 + tick.skipped + (Len(todo) - 1) <= MaxReviews
        /\ tick.decided + (tick.skipped + 1) + (Len(todo) - 1) <= MaxReviews
    BY <1>1, <1>2, <2>1, Zenon
  <2>3. QED
    BY <1>2, <1>4, <2>2
<1>6. TickType' = TickType
  BY DEF TickType, ReviewItem
<1>7. QED
  BY <1>1, <1>2, <1>4, <1>5, <1>6 DEF TickTyped, todo

-----------------------------------------------------------------------------
(* The rows of the decisions table.                                        *)

LEMMA RowsAre ==
  ASSUME NEW D, IsFiniteSet(D), NEW table \in [D -> CaseType], \A c \in D : Shape(table[c]),
         NEW O, NEW B
  PROVE  /\ DecisionRows(table, O, B) \subseteq D \X {1, 2}
         /\ IsFiniteSet(DecisionRows(table, O, B))
         /\ Cardinality(DecisionRows(table, O, B)) \in Nat
         /\ \A c, i : <<c, i>> \in DecisionRows(table, O, B) <=>
                        /\ c \in D /\ i \in DOMAIN table[c].decisions
                        /\ table[c].decisions[i].outcome \in O
                        /\ table[c].decisions[i].by \in B
<1> DEFINE At(c) == {i \in DOMAIN table[c].decisions :
                       /\ table[c].decisions[i].outcome \in O
                       /\ table[c].decisions[i].by \in B}
           R == DecisionRows(table, O, B)
<1>1. R = UNION {{c} \X At(c) : c \in D}
  BY DEF DecisionRows
<1>2. \A c, i : <<c, i>> \in R <=> c \in D /\ i \in At(c)
  <2> HIDE DEF At, R
  <2>1. \A r : r \in R <=> \E c \in D : r \in {c} \X At(c)
    BY <1>1
  <2>2. QED
    BY <2>1
<1>3. \A c \in D : At(c) \subseteq {1, 2}
  <2> SUFFICES ASSUME NEW c \in D PROVE DOMAIN table[c].decisions \subseteq {1, 2}
    OBVIOUS
  <2>1. table[c].decisions \in Seq(DecisionType) /\ Len(table[c].decisions) <= 2
    BY DEF CaseType, Shape
  <2> DEFINE d == table[c].decisions
  <2> HIDE DEF d
  <2>2. d \in Seq(DecisionType) /\ Len(d) <= 2
    BY <2>1 DEF d
  <2>3. DOMAIN d \subseteq {1, 2}
    BY <2>2
  <2>4. QED
    BY <2>3 DEF d
<1>4. R \subseteq D \X {1, 2}
  <2> HIDE DEF At, R
  <2>1. \A r \in R : \E c \in D : r \in {c} \X At(c)
    BY <1>1
  <2>2. QED
    BY <1>3, <2>1
<1>5. IsFiniteSet(D \X {1, 2})
  <2>1. IsFiniteSet({1, 2})
    <3>1. IsFiniteSet({1})
      BY FS_Singleton
    <3>2. IsFiniteSet({1} \cup {2})
      BY <3>1, FS_AddElement
    <3>3. {1} \cup {2} = {1, 2}
      OBVIOUS
    <3>4. QED
      BY <3>2, <3>3
  <2>2. QED
    BY <2>1, FS_Product
<1> HIDE DEF R
<1>6. IsFiniteSet(R) /\ Cardinality(R) \in Nat
  BY <1>4, <1>5, FS_Subset, FS_CardinalityType
<1>7. QED
  BY <1>2, <1>4, <1>6 DEF R

\* No row of the decisions table is lost.
LEMMA RowsGrow ==
  ASSUME NEW D, IsFiniteSet(D), NEW table \in [D -> CaseType], \A c \in D : Shape(table[c]),
         NEW new \in [D -> CaseType], \A c \in D : Shape(new[c]),
         \A c \in D : Extends(table[c].decisions, new[c].decisions), NEW O, NEW B
  PROVE  /\ DecisionRows(table, O, B) \subseteq DecisionRows(new, O, B)
         /\ Cardinality(DecisionRows(table, O, B)) <= Cardinality(DecisionRows(new, O, B))
<1> DEFINE R == DecisionRows(table, O, B)
           S == DecisionRows(new, O, B)
<1>1. /\ R \subseteq D \X {1, 2} /\ IsFiniteSet(S)
      /\ \A c, i : <<c, i>> \in R <=> /\ c \in D /\ i \in DOMAIN table[c].decisions
                                      /\ table[c].decisions[i].outcome \in O
                                      /\ table[c].decisions[i].by \in B
      /\ \A c, i : <<c, i>> \in S <=> /\ c \in D /\ i \in DOMAIN new[c].decisions
                                      /\ new[c].decisions[i].outcome \in O
                                      /\ new[c].decisions[i].by \in B
  BY RowsAre
<1> HIDE DEF R, S
<1>2. \A c \in D : \A i \in DOMAIN table[c].decisions :
        i \in DOMAIN new[c].decisions /\ new[c].decisions[i] = table[c].decisions[i]
  <2> SUFFICES ASSUME NEW c \in D
               PROVE  \A i \in DOMAIN table[c].decisions :
                        /\ i \in DOMAIN new[c].decisions
                        /\ new[c].decisions[i] = table[c].decisions[i]
    OBVIOUS
  <2> DEFINE d == table[c].decisions
             e == new[c].decisions
  <2>1. d \in Seq(DecisionType) /\ e \in Seq(DecisionType) /\ Extends(d, e)
    BY DEF CaseType
  <2> HIDE DEF d, e
  <2>2. \A i \in DOMAIN d : i \in DOMAIN e /\ e[i] = d[i]
    BY <2>1 DEF Extends
  <2>3. QED
    BY <2>2 DEF d, e
<1>3. \A c \in D, i \in {1, 2} : <<c, i>> \in R => <<c, i>> \in S
  BY <1>1, <1>2
<1>4. R \subseteq S
  <2> SUFFICES ASSUME NEW r \in R PROVE r \in S
    OBVIOUS
  <2>1. PICK c \in D, i \in {1, 2} : r = <<c, i>>
    BY <1>1
  <2>2. QED
    BY <1>3, <2>1
<1>5. QED
  BY <1>1, <1>4, FS_Subset DEF R, S

\* A verdict is one row more.
LEMMA RowAdded ==
  ASSUME NEW D, IsFiniteSet(D), NEW table \in [D -> CaseType], \A c \in D : Shape(table[c]),
         NEW new \in [D -> CaseType], \A c \in D : Shape(new[c]),
         \A c \in D : Extends(table[c].decisions, new[c].decisions),
         NEW c \in D, NEW o \in Verdicts, NEW by \in Staff, NEW score \in Scores,
         new[c].decisions = Append(table[c].decisions, [outcome |-> o, by |-> by, score |-> score])
  PROVE  VerdictRows(table, {by}) + 1 <= VerdictRows(new, {by})
<1> DEFINE R == DecisionRows(table, Verdicts, {by})
           S == DecisionRows(new, Verdicts, {by})
           d == [outcome |-> o, by |-> by, score |-> score]
           old == table[c].decisions
           pair == <<c, Len(old) + 1>>
<1>1. /\ IsFiniteSet(R) /\ IsFiniteSet(S) /\ R \subseteq S /\ Cardinality(S) \in Nat
      /\ Cardinality(R) \in Nat
  BY RowsAre, RowsGrow
<1>2. old \in Seq(DecisionType) /\ d \in DecisionType /\ d.outcome = o /\ d.by = by
  BY DEF CaseType, DecisionType, Outcomes, Staff
<1> HIDE DEF d, old
<1>3. /\ Append(old, d)[Len(old) + 1] = d
      /\ Len(old) + 1 \in DOMAIN Append(old, d) /\ Len(old) + 1 \notin DOMAIN old
  BY <1>2
<1>4. new[c].decisions = Append(old, d)
  BY DEF old, d
<1>5. pair \in S
  BY <1>2, <1>3, <1>4, RowsAre
<1>6. pair \notin R
  BY <1>3, RowsAre DEF old
<1> HIDE DEF R, S, pair
<1>7. Cardinality(R \cup {pair}) = Cardinality(R) + 1
  BY <1>1, <1>6, FS_AddElement
<1>8. R \cup {pair} \subseteq S
  BY <1>1, <1>5
<1>9. Cardinality(R \cup {pair}) <= Cardinality(S)
  BY <1>1, <1>8, FS_Subset
<1>10. Cardinality(R) + 1 <= Cardinality(S)
  BY <1>7, <1>9
<1>11. QED
  BY <1>10 DEF VerdictRows, R, S

-----------------------------------------------------------------------------
(* Every step.                                                             *)

TableOK == cases \in [scene.applications -> CaseType] /\ \A c \in scene.applications : Sound(cases[c])
OrderOK == order \in Seq(scene.applications) /\ aged \in 0..Len(order)
TabOK == tab \in TabType /\ Watches(tab, cases) /\ TabShows
PhoneOK == phone \in PhoneType /\ Watches(phone, cases) /\ PhoneShows
ReportOK == reported \in Nat /\ ReportedReviewsHappened
AsideOK == LoginTypeOK /\ SweeperTypeOK /\ AsksOnce

LEMMA Parts ==
  DInv <=> scene \in Scenes /\ TableOK /\ OrderOK /\ TabOK /\ PhoneOK /\ TickTyped /\ ReportOK /\ AsideOK
<1>1. ASSUME TableOK
      PROVE  cases \in [scene.applications -> CaseType] /\ \A c \in DOMAIN cases : Sound(cases[c])
  BY <1>1 DEF TableOK
<1>2. ASSUME cases \in [scene.applications -> CaseType], \A c \in DOMAIN cases : Sound(cases[c])
      PROVE  TableOK
  BY <1>2 DEF TableOK
<1>3. TickTyped <=>
        /\ tick \in [at : {"idle", "reviewing"}, decided : Nat, skipped : Nat,
                     todo : Seq([id : scene.applications, outcome : Verdicts])]
        /\ tick.decided + tick.skipped + Len(tick.todo) <= MaxReviews
  BY DEF TickTyped, TickType, ReviewItem
<1>4. DInv => scene \in Scenes /\ TableOK /\ OrderOK /\ TabOK /\ PhoneOK /\ TickTyped /\ ReportOK /\ AsideOK
  BY <1>2, <1>3, Zenon DEF DInv, TypeOK, OrderOK, TabOK, PhoneOK, ReportOK, AsideOK
<1>5. scene \in Scenes /\ TableOK /\ OrderOK /\ TabOK /\ PhoneOK /\ TickTyped /\ ReportOK /\ AsideOK => DInv
  BY <1>1, <1>3, Zenon DEF DInv, TypeOK, OrderOK, TabOK, PhoneOK, ReportOK, AsideOK
<1>6. QED
  BY <1>4, <1>5

LEMMA PartsNext ==
  /\ scene' \in Scenes /\ TableOK' /\ OrderOK' /\ TabOK' /\ PhoneOK' /\ TickTyped' /\ ReportOK'
  /\ AsideOK'
  => DInv'
<1> DEFINE SceneOK == scene \in Scenes
<1>1. DInv <=> SceneOK /\ TableOK /\ OrderOK /\ TabOK /\ PhoneOK /\ TickTyped /\ ReportOK /\ AsideOK
  BY Parts
<1> HIDE DEF SceneOK
<1>2. SceneOK' /\ TableOK' /\ OrderOK' /\ TabOK' /\ PhoneOK' /\ TickTyped' /\ ReportOK' /\ AsideOK'
        => DInv'
  BY <1>1, PTL
<1>3. QED
  BY <1>2 DEF SceneOK

\* The reviews that were reported have happened, and those of the tick under way.
LEMMA Reviews ==
  ASSUME DInv
  PROVE  /\ VerdictRows(cases, {"reviewer"}) \in Nat
         /\ reported + tick.decided <= VerdictRows(cases, {"reviewer"})
         /\ reported \in Nat /\ tick.decided \in Nat
<1>1. /\ IsFiniteSet(scene.applications) /\ cases \in [scene.applications -> CaseType]
      /\ \A c \in scene.applications : Shape(cases[c])
  BY Typed DEF Sound
<1>2. VerdictRows(cases, {"reviewer"}) \in Nat
  BY <1>1, RowsAre DEF VerdictRows
<1>3. tick.decided \in Nat /\ reported \in Nat
  BY Parts DEF TickTyped, TickType, ReportOK
<1>4. QED
  BY <1>2, <1>3 DEF DInv, ReportedReviewsHappened

LEMMA ReviewsGrow ==
  ASSUME DInv, NEW c, NEW rows, Changes(cases, cases', c, rows)
  PROVE  VerdictRows(cases, {"reviewer"}) <= VerdictRows(cases', {"reviewer"})
         /\ VerdictRows(cases', {"reviewer"}) \in Nat
<1>1. /\ IsFiniteSet(scene.applications) /\ cases \in [scene.applications -> CaseType]
      /\ \A d \in scene.applications : Shape(cases[d])
  BY Typed DEF Sound
<1>2. /\ cases' \in [scene.applications -> CaseType]
      /\ \A d \in scene.applications : Shape(cases'[d])
      /\ \A d \in scene.applications : Extends(cases[d].decisions, cases'[d].decisions)
  BY TableNext DEF Sound, Precedes
<1>3. QED
  BY <1>1, <1>2, RowsGrow, RowsAre DEF VerdictRows

\* A change of one case that those who watch it see.
LEMMA ChangeKeeps ==
  ASSUME DInv, scene' = scene, NEW c, OneChanges(c)
  PROVE  TableOK' /\ TabOK' /\ PhoneOK'
         /\ VerdictRows(cases, {"reviewer"}) <= VerdictRows(cases', {"reviewer"})
         /\ VerdictRows(cases', {"reviewer"}) \in Nat
<1>1. PICK rows : /\ Changes(cases, cases', c, rows) /\ phone' = Meanwhile(phone, c, rows)
                  /\ tab' = Meanwhile(tab, c, rows)
  BY DEF OneChanges
<1>2. TableOK'
  BY <1>1, TableNext DEF TableOK
<1>3. TabOK'
  BY <1>1, TabMeanwhile DEF TabOK
<1>4. PhoneOK'
  BY <1>1, PhoneMeanwhile DEF PhoneOK
<1>5. QED
  BY <1>1, <1>2, <1>3, <1>4, ReviewsGrow

LEMMA AsideSame ==
  ASSUME DInv, aside' = aside
  PROVE  AsideOK'
<1>1. /\ UNCHANGED <<session, attempts, watch>>
      /\ UNCHANGED <<file, vendor, due, asked, answers, hourOld, monthOld, sweep>>
  BY DEF aside, loginVars, sweeperVars
<1>2. LoginTypeOK /\ SweeperTypeOK /\ AsksOnce
  BY Parts DEF AsideOK
<1>3. LoginTypeOK'
  BY <1>1, <1>2 DEF LoginTypeOK
<1>4. SweeperTypeOK' /\ AsksOnce'
  BY <1>1, <1>2, SweeperTypedNext DEF sweeperVars
<1>5. QED
  BY <1>3, <1>4 DEF AsideOK

LEMMA TickSame ==
  ASSUME DInv, scene' = scene, tick' = tick
  PROVE  TickTyped'
BY Parts DEF TickTyped, TickType, ReviewItem

\* The cases and those who watch them are as they were.
LEMMA CasesSame ==
  ASSUME DInv, UNCHANGED <<scene, cases>>
  PROVE  /\ TableOK' /\ VerdictRows(cases', {"reviewer"}) = VerdictRows(cases, {"reviewer"})
         /\ tab' = tab => TabOK'
         /\ phone' = phone => PhoneOK'
<1>1. TableOK /\ TabOK /\ PhoneOK
  BY Parts
<1>2. TableOK'
  BY <1>1 DEF TableOK
<1>3. tab' = tab => TabOK'
  BY <1>1 DEF TabOK, Watches, TabShows
<1>4. phone' = phone => PhoneOK'
  BY <1>1 DEF PhoneOK, Watches, PhoneShows
<1>5. QED
  BY <1>2, <1>3, <1>4

LEMMA TickSteps ==
  ASSUME DInv, TickLists \/ TickDecides \/ TickEnds \/ TickDies
  PROVE  DInv'
<1>1. /\ scene' = scene /\ order' = order /\ aged' = aged /\ aside' = aside
      /\ scene \in Scenes /\ OrderOK /\ TickTyped
  BY Parts DEF TickLists, TickDecides, TickEnds, TickDies
<1>2. OrderOK' /\ AsideOK'
  BY <1>1, AsideSame DEF OrderOK
<1>3. /\ VerdictRows(cases, {"reviewer"}) \in Nat
      /\ reported + tick.decided <= VerdictRows(cases, {"reviewer"})
      /\ reported \in Nat /\ tick.decided \in Nat
  BY Reviews
<1>4. CASE TickLists \/ TickDies
  <2>1. UNCHANGED <<cases, tab, phone, reported>>
    BY <1>4 DEF TickLists, TickDies
  <2>2. TableOK' /\ TabOK' /\ PhoneOK'
        /\ VerdictRows(cases', {"reviewer"}) = VerdictRows(cases, {"reviewer"})
    BY <1>1, <2>1, CasesSame
  <2>3. TickTyped' /\ tick'.decided = 0
    <3>1. CASE TickLists
      BY <3>1, TickListsTyped
    <3>2. CASE TickDies
      <4>1. tick' = NoTick
        BY <3>2 DEF TickDies
      <4>2. QED
        BY <1>1, <4>1, NoTickTyped
    <3>3. QED
      BY <1>4, <3>1, <3>2
  <2>4. ReportOK'
    BY <1>3, <2>1, <2>2, <2>3 DEF ReportOK, ReportedReviewsHappened
  <2>5. QED
    BY <1>1, <1>2, <2>2, <2>3, <2>4, PartsNext
<1>5. CASE TickEnds
  <2>1. /\ UNCHANGED <<cases, tab, phone>> /\ tick' = NoTick /\ reported' = reported + tick.decided
    BY <1>5 DEF TickEnds
  <2>2. TableOK' /\ TabOK' /\ PhoneOK'
        /\ VerdictRows(cases', {"reviewer"}) = VerdictRows(cases, {"reviewer"})
    BY <1>1, <2>1, CasesSame
  <2>3. TickTyped' /\ tick'.decided = 0
    BY <1>1, <2>1, NoTickTyped
  <2>4. reported' \in Nat /\ reported' + tick'.decided <= VerdictRows(cases, {"reviewer"})
    BY <1>3, <2>1, <2>3
  <2>5. ReportOK'
    BY <2>1, <2>2, <2>4 DEF ReportOK, ReportedReviewsHappened
  <2>6. QED
    BY <1>1, <1>2, <2>2, <2>3, <2>5, PartsNext
<1>6. CASE TickDecides
  <2> DEFINE item == Head(tick.todo)
             rows == cases[item.id]
  <2>1. /\ tick.todo # <<>> /\ reported' = reported
        /\ \/ /\ Decidable(rows) /\ OfOthers(item.id, WithVerdict(rows, item.outcome, "reviewer"))
              /\ tick' = Counts(TRUE)
           \/ ~Decidable(rows) /\ tick' = Counts(FALSE) /\ UNCHANGED <<cases, tab, phone>>
    BY <1>6 DEF TickDecides
  <2>2. item \in ReviewItem
    BY <1>1, <2>1, CountsTyped
  <2> HIDE DEF item
  <2>3. item.id \in scene.applications /\ item.outcome \in Verdicts /\ DOMAIN cases = scene.applications
    BY <2>2, Typed DEF ReviewItem
  <2>4. CASE /\ Decidable(rows) /\ OfOthers(item.id, WithVerdict(rows, item.outcome, "reviewer"))
             /\ tick' = Counts(TRUE)
    <3>1. TickTyped' /\ tick'.decided = tick.decided + 1
      BY <1>1, <2>1, <2>4, CountsTyped
    <3>2. OneChanges(item.id)
      BY <2>3, <2>4, VerdictChanges DEF Staff
    <3>3. TableOK' /\ TabOK' /\ PhoneOK'
      BY <1>1, <3>2, ChangeKeeps
    <3>4. VerdictRows(cases, {"reviewer"}) + 1 <= VerdictRows(cases', {"reviewer"})
          /\ VerdictRows(cases', {"reviewer"}) \in Nat
      <4> DEFINE D == scene.applications
                 c == item.id
                 o == item.outcome
                 by == "reviewer"
      <4>1. /\ IsFiniteSet(D) /\ cases \in [D -> CaseType] /\ DOMAIN cases = D
            /\ \A d \in D : cases[d] \in CaseType /\ Sound(cases[d])
        BY Typed
      <4>2. PICK r : Changes(cases, cases', c, r)
        BY <3>2 DEF OneChanges
      <4>3. /\ cases' \in [D -> CaseType]
            /\ \A d \in D : Sound(cases'[d]) /\ Precedes(cases[d], cases'[d])
        BY <4>2, TableNext
      <4>4. cases' = [cases EXCEPT ![c] = WithVerdict(cases[c], o, by)]
        BY <2>4 DEF OfOthers, Commits
      <4>5. cases[c] \in CaseType /\ Sound(cases[c]) /\ Decidable(cases[c]) /\ c \in D /\ o \in Verdicts
            /\ by \in Staff
        BY <2>3, <2>4, <4>1 DEF Staff
      <4> HIDE DEF D, c, o, by
      <4>6. /\ WithVerdict(cases[c], o, by).decisions
                = Append(cases[c].decisions, [outcome |-> o, by |-> by, score |-> cases[c].score])
            /\ cases[c].score # None
        BY <4>5, VerdictStep
      <4>7. cases[c].score \in Scores
        BY <4>5, <4>6 DEF CaseType
      <4>8. cases'[c].decisions
              = Append(cases[c].decisions, [outcome |-> o, by |-> by, score |-> cases[c].score])
        BY <4>1, <4>4, <4>5, <4>6
      <4>9. (\A d \in D : Shape(cases[d])) /\ (\A d \in D : Shape(cases'[d]))
            /\ \A d \in D : Extends(cases[d].decisions, cases'[d].decisions)
        BY <4>1, <4>3 DEF Sound, Precedes
      <4>10. VerdictRows(cases, {by}) + 1 <= VerdictRows(cases', {by})
        BY <4>1, <4>3, <4>5, <4>7, <4>8, <4>9, RowAdded
      <4>11. VerdictRows(cases', {by}) \in Nat
        BY <4>1, <4>3, <4>9, RowsAre DEF VerdictRows
      <4>12. QED
        BY <4>10, <4>11 DEF by
    <3>5. ReportOK'
      <4>1. reported' + tick'.decided <= VerdictRows(cases', {"reviewer"})
        BY <1>3, <2>1, <3>1, <3>4
      <4>2. QED
        BY <1>3, <2>1, <4>1 DEF ReportOK, ReportedReviewsHappened
    <3>6. QED
      BY <1>1, <1>2, <3>1, <3>3, <3>5, PartsNext
  <2>5. CASE ~Decidable(rows) /\ tick' = Counts(FALSE) /\ UNCHANGED <<cases, tab, phone>>
    <3>1. TickTyped' /\ tick'.decided = tick.decided
      BY <1>1, <2>1, <2>5, CountsTyped
    <3>2. TableOK' /\ TabOK' /\ PhoneOK'
          /\ VerdictRows(cases', {"reviewer"}) = VerdictRows(cases, {"reviewer"})
      BY <1>1, <2>5, CasesSame
    <3>3. ReportOK'
      BY <1>3, <2>1, <2>5, <3>1, <3>2 DEF ReportOK, ReportedReviewsHappened
    <3>4. QED
      BY <1>1, <1>2, <3>1, <3>2, <3>3, PartsNext
  <2>6. QED
    BY <2>1, <2>4, <2>5
<1>7. QED
  BY <1>4, <1>5, <1>6

LEMMA DInvNext == DInv /\ [Next]_vars => DInv'
<1> SUFFICES ASSUME DInv, [Next]_vars PROVE DInv'
  OBVIOUS
<1>1. /\ scene \in Scenes /\ TableOK /\ OrderOK /\ TabOK /\ PhoneOK /\ TickTyped /\ ReportOK
      /\ AsideOK
  BY Parts
<1>2. /\ VerdictRows(cases, {"reviewer"}) \in Nat
      /\ reported + tick.decided <= VerdictRows(cases, {"reviewer"})
      /\ reported \in Nat /\ tick.decided \in Nat
  BY Reviews
\* Where one case changes, or none, and no tick goes on.
<1>3. ASSUME UNCHANGED <<scene, tick, reported>>,
             VerdictRows(cases, {"reviewer"}) <= VerdictRows(cases', {"reviewer"}),
             VerdictRows(cases', {"reviewer"}) \in Nat
      PROVE  TickTyped' /\ ReportOK' /\ scene' \in Scenes
  <2>1. TickTyped'
    BY <1>3, TickSame
  <2>2. reported' + tick'.decided <= VerdictRows(cases', {"reviewer"})
    BY <1>2, <1>3
  <2>3. QED
    BY <1>1, <1>2, <1>3, <2>1, <2>2 DEF ReportOK, ReportedReviewsHappened
<1>4. ASSUME UNCHANGED <<scene, cases, tick, reported>>
      PROVE  TickTyped' /\ ReportOK' /\ scene' \in Scenes /\ TableOK'
  <2>1. TableOK' /\ VerdictRows(cases', {"reviewer"}) = VerdictRows(cases, {"reviewer"})
    BY <1>4, CasesSame
  <2>2. QED
    BY <1>2, <1>3, <1>4, <2>1
<1>5. UNCHANGED <<scene, order, aged>> => OrderOK'
  BY <1>1 DEF OrderOK
<1>6. CASE Worker
  <2>1. PICK c \in scene.applications : OneChanges(c) /\ order' \in {order, Append(order, c)}
    BY <1>6, WorkerChanges
  <2>2. UNCHANGED <<scene, aged, tick, reported, aside>>
    BY <1>6, WorkerChanges
  <2>3. OrderOK'
    <3> DEFINE S == scene.applications
    <3>1. /\ order \in Seq(S) /\ aged \in 0..Len(order) /\ c \in S
          /\ order' \in {order, Append(order, c)} /\ aged' = aged /\ S' = S
      BY <1>1, <2>1, <2>2 DEF OrderOK
    <3>2. order' \in Seq(S) /\ Len(order) <= Len(order') /\ Len(order) \in Nat /\ Len(order') \in Nat
      <4> HIDE DEF S
      <4>1. QED
        BY <3>1
    <3>3. aged' \in 0..Len(order')
      BY <3>1, <3>2
    <3>4. QED
      BY <2>2, <3>2, <3>3 DEF OrderOK
  <2>4. QED
    BY <1>3, <2>1, <2>2, <2>3, ChangeKeeps, AsideSame, PartsNext
<1>7. CASE Decide
  <2>1. /\ UNCHANGED <<scene, order, aged, tick, reported, aside>>
        /\ TabOK'
        /\ \/ UNCHANGED <<cases, phone>>
           \/ \E rows : /\ Changes(cases, cases', tab.id, rows)
                        /\ phone' = Meanwhile(phone, tab.id, rows)
    BY <1>7, DecideStep DEF TabOK
  <2>2. CASE UNCHANGED <<cases, phone>>
    BY <1>4, <1>5, <2>1, <2>2, CasesSame, AsideSame, PartsNext
  <2>3. CASE \E rows : /\ Changes(cases, cases', tab.id, rows)
                       /\ phone' = Meanwhile(phone, tab.id, rows)
    <3>1. PICK rows : /\ Changes(cases, cases', tab.id, rows)
                      /\ phone' = Meanwhile(phone, tab.id, rows)
      BY <2>3
    <3>2. TableOK' /\ PhoneOK'
      BY <2>1, <3>1, TableNext, PhoneMeanwhile DEF TableOK, PhoneOK
    <3>3. QED
      BY <1>3, <1>5, <2>1, <3>1, <3>2, ReviewsGrow, AsideSame, PartsNext
  <2>4. QED
    BY <2>1, <2>2, <2>3
<1>8. CASE Officer /\ ~Decide
  <2>1. /\ UNCHANGED <<scene, cases, order, aged, phone, tick, reported, aside>> /\ TabOK'
    BY <1>8, OfficerStep DEF TabOK
  <2>2. QED
    BY <1>4, <1>5, <2>1, CasesSame, AsideSame, PartsNext
<1>9. CASE Refreshed \/ \E c \in DOMAIN cases : Refresh(c)
  <2>1. /\ UNCHANGED <<scene, cases, order, aged, tab, tick, reported, aside>> /\ PhoneOK'
    BY <1>9, PhoneStep DEF PhoneOK
  <2>2. QED
    BY <1>4, <1>5, <2>1, CasesSame, AsideSame, PartsNext
<1>10. CASE \E c \in DOMAIN cases, o \in Verdicts : AnotherOfficer(c, o)
  <2>1. PICK c \in DOMAIN cases, o \in Verdicts : AnotherOfficer(c, o)
    BY <1>10
  <2>2. /\ UNCHANGED <<scene, order, aged, tick, reported, aside>>
        /\ Decidable(cases[c]) /\ OfOthers(c, WithVerdict(cases[c], o, "officer"))
    BY <2>1 DEF AnotherOfficer
  <2>3. OneChanges(c)
    BY <2>2, VerdictChanges DEF Staff
  <2>4. QED
    BY <1>3, <1>5, <2>2, <2>3, ChangeKeeps, AsideSame, PartsNext
<1>11. CASE DayPasses
  <2>1. /\ UNCHANGED <<scene, cases, order, tab, phone, tick, reported, aside>>
        /\ aged < Len(order) /\ aged' = aged + 1
    BY <1>11 DEF DayPasses
  <2>2. OrderOK'
    BY <1>1, <2>1 DEF OrderOK
  <2>3. QED
    BY <1>4, <2>1, <2>2, CasesSame, AsideSame, PartsNext
<1>12. CASE TickLists \/ TickDecides \/ TickEnds \/ TickDies
  BY <1>12, TickSteps
<1>13. CASE Access \/ Sweeps(SweeperNext) \/ UNCHANGED vars
  <2>1. UNCHANGED <<scene, cases, order, aged, tab, phone, tick, reported>>
    BY <1>13 DEF Access, Sweeps, vars, deskVars
  <2>2. [LoginNext]_loginVars /\ [SweeperNext]_sweeperVars
    BY <1>13 DEF Access, Sweeps, vars, aside, LoginNext
  <2>3. AsideOK'
    BY <1>1, <2>2, LoginTypeNext, SweeperTypedNext DEF AsideOK
  <2>4. QED
    BY <1>4, <1>5, <2>1, <2>3, CasesSame, PartsNext
<1>14. QED
  BY <1>6, <1>7, <1>8, <1>9, <1>10, <1>11, <1>12, <1>13 DEF Next, Others, Officer

-----------------------------------------------------------------------------
(* The beginning.                                                          *)

LEMMA SetOrdered ==
  ASSUME NEW S, IsFiniteSet(S)
  PROVE  SetToSeq(S) \in Seq(S)
<1>1. Cardinality(S) \in Nat /\ ExistsBijection(1..Cardinality(S), S)
  BY FS_CardinalityType
<1>2. PICK f \in Bijection(1..Cardinality(S), S) : TRUE
  BY <1>1 DEF ExistsBijection
<1>3. f \in [1..Cardinality(S) -> S] /\ IsInjective(f)
  BY <1>2 DEF Bijection, Injection
<1>4. SetToSeq(S) \in [1..Cardinality(S) -> S]
  BY <1>3 DEF SetToSeq
<1>5. QED
  BY <1>1, <1>4

\* A case without decisions, of which no event tells an ending.
LEMMA Undecided ==
  ASSUME NEW a \in CaseType, a.decisions = <<>>, a.score = None,
         a.status \notin OffRamps \cup {"decided"},
         \A e \in Range(a.trail) : e.action \notin Closings \cup {"decision.recorded"}
  PROVE  Sound(a)
<1>1. ~Decided(a) /\ ~Referred(a)
  BY DEF Decided, VerdictsOf, Referred
<1>2. Shape(a)
  BY <1>1 DEF Shape
<1>3. Recorded(a) = {}
  BY DEF Recorded
<1>4. Tells(a)
  <2>1. Range(a.decisions) = {}
    BY DEF Range
  <2>2. QED
    BY <1>1, <1>3, <2>1 DEF Tells, TellsVerdicts
<1>5. EndsAt(a.trail) = {}
  <2>1. \A i \in DOMAIN a.trail : a.trail[i] \in Range(a.trail)
    BY DEF Range
  <2>2. \A i \in DOMAIN a.trail : a.trail[i] \in EventType
    BY DEF CaseType
  <2>3. QED
    BY <2>1, <2>2, Endings3 DEF EndsAt
<1>6. QED
  BY <1>2, <1>4, <1>5 DEF Sound, Ends

LEMMA NewCaseIs ==
  ASSUME NEW from \in {"started", "checking", "referred"}, NEW seeded \in BOOLEAN,
         NEW found \in Findings
  PROVE  NewCase(from, seeded, found) \in CaseType /\ Sound(NewCase(from, seeded, found))
<1> DEFINE created == Event("application.created", None, None)
           opened == Event("verification.session_created", None, None)
           toChecking == Event("status.changed", "checking", None)
           toScreening == Event("status.changed", "screening", None)
           completed == Event("screening.completed", None, None)
           recorded == Event("decision.recorded", "referred", None)
           d == [outcome |-> "referred", by |-> "system", score |-> found.score]
           new == NewCase(from, seeded, found)
<1>1. /\ created \in EventType /\ opened \in EventType /\ toChecking \in EventType
      /\ toScreening \in EventType /\ completed \in EventType /\ recorded \in EventType
  BY StatusNames DEF Event, EventType, Outcomes
<1>2. /\ created.action = "application.created" /\ opened.action = "verification.session_created"
      /\ toChecking.action = "status.changed" /\ toScreening.action = "status.changed"
      /\ completed.action = "screening.completed" /\ recorded.action = "decision.recorded"
      /\ recorded.says = "referred" /\ recorded.automatic = None
  BY DEF Event
<1>3. found.score \in Scores
  BY Constants
<1>4. d \in DecisionType
  BY <1>3 DEF DecisionType, Outcomes
<1> HIDE DEF created, opened, toChecking, toScreening, completed, recorded, d
<1> DEFINE one == <<created>>
           three == Append(Append(one, opened), toChecking)
           five == Append(Append(three, toScreening), completed)
<1>5. /\ one \in Seq(EventType) /\ Range(one) = {created}
      /\ three \in Seq(EventType) /\ Range(three) = {created, opened, toChecking}
      /\ five \in Seq(EventType)
      /\ Range(five) = {created, opened, toChecking, toScreening, completed}
      /\ Append(five, recorded) \in Seq(EventType)
  <2>1. one \in Seq(EventType) /\ Range(one) = {created}
    BY <1>1 DEF Range
  <2> HIDE DEF one
  <2> DEFINE two == Append(one, opened)
  <2>6. two \in Seq(EventType) /\ Range(two) = Range(one) \cup {opened}
    BY <1>1, <2>1, Appended
  <2> HIDE DEF two
  <2>7. /\ Append(two, toChecking) \in Seq(EventType)
         /\ Range(Append(two, toChecking)) = Range(two) \cup {toChecking}
    BY <1>1, <2>6, Appended
  <2>2. three \in Seq(EventType) /\ Range(three) = {created, opened, toChecking}
    BY <2>1, <2>6, <2>7 DEF two
  <2> HIDE DEF three
  <2> DEFINE four == Append(three, toScreening)
  <2>8. four \in Seq(EventType) /\ Range(four) = Range(three) \cup {toScreening}
    BY <1>1, <2>2, Appended
  <2> HIDE DEF four
  <2>9. /\ Append(four, completed) \in Seq(EventType)
         /\ Range(Append(four, completed)) = Range(four) \cup {completed}
    BY <1>1, <2>8, Appended
  <2>3. /\ five \in Seq(EventType)
        /\ Range(five) = {created, opened, toChecking, toScreening, completed}
    BY <2>2, <2>8, <2>9 DEF four
  <2> HIDE DEF five
  <2>4. Append(five, recorded) \in Seq(EventType)
    BY <1>1, <2>3, Appended
  <2>5. QED
    BY <2>1, <2>2, <2>3, <2>4
<1>6. /\ one \o <<>> \o <<>> = one
      /\ one \o <<opened, toChecking>> \o <<>> = three
      /\ one \o <<opened, toChecking>> \o <<toScreening, completed, recorded>>
           = Append(five, recorded)
  <2>1. ASSUME NEW s \in Seq(EventType) PROVE s \o <<>> = s
    OBVIOUS
  <2>2. ASSUME NEW s \in Seq(EventType), NEW x \in EventType, NEW y \in EventType
        PROVE  s \o <<x, y>> = Append(Append(s, x), y)
    OBVIOUS
  <2>3. ASSUME NEW s \in Seq(EventType), NEW x \in EventType, NEW y \in EventType,
               NEW z \in EventType
        PROVE  s \o <<x, y, z>> = Append(Append(Append(s, x), y), z)
    OBVIOUS
  <2> HIDE DEF one
  <2>4. one \o <<>> = one /\ one \o <<opened, toChecking>> = three
    BY <1>1, <1>5, <2>1, <2>2
  <2> HIDE DEF three
  <2>5. three \o <<>> = three
        /\ three \o <<toScreening, completed, recorded>> = Append(five, recorded)
    BY <1>1, <1>5, <2>1, <2>3
  <2>6. QED
    BY <2>4, <2>5
<1> HIDE DEF one, three, five
<1>7. CASE from = "started"
  <2>1. new = [status |-> "started", score |-> None, decisions |-> <<>>, job |-> "none",
               seeded |-> seeded, trail |-> one]
    BY <1>6, <1>7 DEF NewCase, one, created
  <2> HIDE DEF new
  <2>2. new \in CaseType
    BY <1>5, <2>1, StatusNames DEF CaseType
  <2>3. /\ new.decisions = <<>> /\ new.score = None /\ new.status = "started"
        /\ new.trail = one
    BY <2>1
  <2>4. \A e \in Range(new.trail) : e.action \notin Closings \cup {"decision.recorded"}
    BY <1>2, <1>5, <2>3 DEF Closings
  <2>5. new \in CaseType /\ Sound(new)
    BY <2>2, <2>3, <2>4, Undecided DEF OffRamps
  <2>6. QED
    BY <2>5 DEF new
<1>8. CASE from = "checking"
  <2>1. new = [status |-> "checking", score |-> None, decisions |-> <<>>, job |-> "none",
               seeded |-> seeded, trail |-> three]
    BY <1>6, <1>8 DEF NewCase, one, created, opened, toChecking
  <2> HIDE DEF new
  <2>2. new \in CaseType
    BY <1>5, <2>1, StatusNames DEF CaseType
  <2>3. /\ new.decisions = <<>> /\ new.score = None /\ new.status = "checking"
        /\ new.trail = three
    BY <2>1
  <2>4. \A e \in Range(new.trail) : e.action \notin Closings \cup {"decision.recorded"}
    BY <1>2, <1>5, <2>3 DEF Closings
  <2>5. new \in CaseType /\ Sound(new)
    BY <2>2, <2>3, <2>4, Undecided DEF OffRamps
  <2>6. QED
    BY <2>5 DEF new
<1>9. CASE from = "referred"
  <2> DEFINE a == [status |-> "screening", score |-> None, decisions |-> <<>>, job |-> "none",
                   seeded |-> seeded, trail |-> five]
             ds == <<d>>
  <2>1. new = [status |-> "screening", score |-> found.score, decisions |-> ds, job |-> "none",
               seeded |-> seeded, trail |-> Append(five, recorded)]
    BY <1>6, <1>9 DEF NewCase, one, created, opened, toChecking, toScreening, completed, recorded, d
  <2>2. ds \in Seq(DecisionType) /\ ds = Append(<<>>, d)
    BY <1>4
  <2> HIDE DEF new, ds
  <2>3. a \in CaseType
    BY <1>5, StatusNames DEF CaseType
  <2>4. /\ a.decisions = <<>> /\ a.score = None /\ a.status = "screening" /\ a.trail = five
    OBVIOUS
  <2> HIDE DEF a
  <2>5. \A e \in Range(a.trail) : e.action \notin Closings \cup {"decision.recorded"}
    BY <1>2, <1>5, <2>4 DEF Closings
  <2>6. Sound(a)
    BY <2>3, <2>4, <2>5, Undecided DEF OffRamps
  <2>7. /\ new.decisions = Append(a.decisions, d) /\ new.trail = Append(a.trail, recorded)
        /\ new.score = found.score /\ new.status = "screening"
    BY <2>1, <2>2, <2>4
  <2>8. new \in CaseType
    BY <1>3, <1>5, <2>1, <2>2, StatusNames DEF CaseType
  <2>9. Quiet(a.trail, a.trail)
    BY <1>5, <2>4, ExtendsOrder DEF Quiet
  <2>10. ~Decided(a) /\ ~Referred(a)
    BY <2>4 DEF Decided, VerdictsOf, Referred
  <2>11. d.score = found.score /\ d.outcome = "referred" /\ d.outcome \notin Verdicts
    BY DEF d, Verdicts
  <2>12. Sound(new)
    BY <1>1, <1>2, <1>4, <2>3, <2>4, <2>6, <2>7, <2>8, <2>9, <2>10, <2>11, DecisionStep
  <2>13. QED
    BY <2>8, <2>12 DEF new
<1>10. QED
  BY <1>7, <1>8, <1>9

LEMMA DInvInit == Init => DInv
<1> SUFFICES ASSUME Init PROVE DInv
  OBVIOUS
<1>1. /\ scene \in Scenes /\ scene.applications \subseteq Applications
      /\ scene.from \in {"started", "checking", "referred"}
  BY DeskAssumption DEF Init
<1>2. IsFiniteSet(scene.applications)
  BY <1>1, DeskAssumption, FS_Subset
<1>3. TableOK
  <2>1. PICK found \in [scene.applications -> {f \in Findings : f.route = "referred"}] :
          cases = [c \in scene.applications |->
                     NewCase(scene.from, c \in scene.seeded, found[c])]
    BY DEF Init
  <2>2. ASSUME NEW c \in scene.applications PROVE cases[c] \in CaseType /\ Sound(cases[c])
    <3> DEFINE seeded == c \in scene.seeded
    <3>1. /\ cases[c] = NewCase(scene.from, seeded, found[c])
          /\ found[c] \in Findings /\ seeded \in BOOLEAN
      BY <2>1
    <3> HIDE DEF seeded
    <3>2. QED
      BY <1>1, <3>1, NewCaseIs
  <2>3. cases = [c \in scene.applications |-> cases[c]]
    BY <2>1
  <2>4. cases \in [scene.applications -> CaseType]
    BY <2>2, <2>3
  <2>5. QED
    BY <2>2, <2>4 DEF TableOK
<1>4. OrderOK
  <2>1. order \in Seq(scene.applications)
    <3> DEFINE S == scene.applications
    <3>1. SetToSeq(S) \in Seq(S) /\ <<>> \in Seq(S)
      BY <1>2, SetOrdered
    <3>2. order \in {SetToSeq(S), <<>>}
      BY DEF Init
    <3>3. QED
      BY <3>1, <3>2
  <2>2. QED
    BY <2>1 DEF Init, OrderOK
<1>5. TabOK
  BY AwayIs DEF Init, TabOK, Watches, TabShows
<1>6. PhoneOK
  BY DEF Init, Asleep, PhoneOK, PhoneType, Watches, PhoneShows
<1>7. TickTyped /\ tick.decided = 0
  <2>1. tick = [at |-> "idle", todo |-> <<>>, decided |-> 0, skipped |-> 0]
    BY DEF Init, NoTick
  <2>2. tick \in TickType
    BY <2>1 DEF TickType
  <2>3. tick.decided = 0 /\ tick.skipped = 0 /\ Len(tick.todo) = 0
    BY <2>1
  <2>4. QED
    BY <2>2, <2>3, Limit DEF TickTyped
<1>8. ReportOK
  <2>1. VerdictRows(cases, {"reviewer"}) \in Nat
    BY <1>2, <1>3, RowsAre DEF TableOK, VerdictRows, Sound
  <2>2. reported = 0
    BY DEF Init
  <2>3. QED
    BY <1>7, <2>1, <2>2 DEF ReportOK, ReportedReviewsHappened
<1>9. AsideOK
  <2>1. LoginTypeOK
    BY Limits DEF Init, LoginInit, LoginTypeOK, Nothing, Ages
  <2>2. QED
    BY <2>1, SweeperInitTyped DEF Init, AsideOK
<1>10. QED
  BY <1>1, <1>3, <1>4, <1>5, <1>6, <1>7, <1>8, <1>9, Parts

LEMMA DInvAlways == Spec => []DInv
BY DInvInit, DInvNext, PTL DEF Spec

-----------------------------------------------------------------------------
(* What follows.                                                           *)

\* The rows of each application, who looks at them, the order of the referrals, the
\* tick and the session are always of their types.
THEOREM DeskTypeCorrect == Spec => []TypeOK
<1>1. DInv => TypeOK
  BY DEF DInv
<1>2. QED
  BY <1>1, DInvAlways, PTL

\* A tick never reports a review that did not happen, whoever decides the cases of its
\* list first and wherever it dies.
THEOREM ReportsCorrect == Spec => []ReportedReviewsHappened
<1>1. DInv => ReportedReviewsHappened
  BY DEF DInv
<1>2. QED
  BY <1>1, DInvAlways, PTL

\* The limit on wrong passwords holds beside everything else that happens at the desk.
THEOREM FailuresCorrect == Spec => []FailuresAreLimited
<1>1. Init => LoginTypeOK /\ Seen
  BY Limits DEF Init, LoginInit, LoginTypeOK, Nothing, Ages, Seen
<1>2. [Next]_vars => [LoginNext]_loginVars
  <2> SUFFICES ASSUME [Next]_vars PROVE [LoginNext]_loginVars
    OBVIOUS
  <2>1. CASE Access
    BY <2>1 DEF Access, LoginNext
  <2>2. CASE Worker
    BY <2>2 DEF Worker, Move, ScreenAgain, SkipScreening, ScreeningFails, Screen, aside
  <2>3. CASE Officer
    BY <2>3 DEF Officer, ToLogin, OpenQueue, OnQueue, Enter, Render, Decide, Visit, Submit, Tab,
                Filter, Down, Up, Hover, aside
  <2>4. CASE Others
    BY <2>4 DEF Others, AnotherOfficer, Refreshed, Refresh, DayPasses, TickLists, TickDecides,
                TickEnds, TickDies, aside
  <2>5. CASE Sweeps(SweeperNext) \/ UNCHANGED vars
    BY <2>5 DEF Sweeps, vars, aside
  <2>6. QED
    BY <2>1, <2>2, <2>3, <2>4, <2>5 DEF Next
<1>3. LoginTypeOK /\ Seen => FailuresAreLimited
  BY Limits DEF LoginTypeOK, Seen, FailuresAreLimited, Ages
<1>4. QED
  BY <1>1, <1>2, <1>3, LoginTypeNext, SeenNext, PTL DEF Spec

\* In every step at most one case changes, and the officer's page is sent to one that
\* loads by nothing but the verdict that was sent; the applicant's page by a new one alone.
LEMMA StepChanges ==
  ASSUME DInv, [Next]_vars
  PROVE  /\ scene' = scene
         /\ cases' = cases \/ \E c, rows : Changes(cases, cases', c, rows)
         /\ tab.at = "sent" /\ tab'.at = "loading" => Decide
         /\ phone'.page = phone.page \/ Refreshed
<1>1. tab \in TabType /\ phone \in PhoneType
  BY Typed
<1>2. ASSUME NEW c, OneChanges(c)
      PROVE  /\ \E d, rows : Changes(cases, cases', d, rows)
             /\ tab'.at = tab.at /\ phone'.page = phone.page
  <2>1. PICK rows : /\ Changes(cases, cases', c, rows) /\ tab' = Meanwhile(tab, c, rows)
                    /\ phone' = Meanwhile(phone, c, rows)
    BY <1>2 DEF OneChanges
  <2>2. rows \in CaseType
    BY <2>1 DEF Changes
  <2>3. QED
    BY <1>1, <2>1, <2>2, MeanwhileTab, MeanwhilePhone
<1>3. CASE Worker
  <2>1. scene' = scene /\ \E c \in scene.applications : OneChanges(c)
    BY <1>3, WorkerChanges
  <2>2. QED
    BY <1>2, <2>1
<1>4. CASE Decide
  <2>1. /\ scene' = scene
        /\ \/ UNCHANGED <<cases, phone>>
           \/ \E rows : /\ Changes(cases, cases', tab.id, rows)
                        /\ phone' = Meanwhile(phone, tab.id, rows)
    BY <1>4, DecideStep
  <2>2. ASSUME NEW rows, Changes(cases, cases', tab.id, rows), phone' = Meanwhile(phone, tab.id, rows)
        PROVE  phone'.page = phone.page
    <3>1. rows \in CaseType
      BY <2>2 DEF Changes
    <3>2. QED
      BY <1>1, <2>2, <3>1, MeanwhilePhone
  <2>3. QED
    BY <1>4, <2>1, <2>2
<1>5. CASE Officer /\ ~Decide
  BY <1>5, OfficerStep
<1>6. CASE \E c \in DOMAIN cases, o \in Verdicts : AnotherOfficer(c, o)
  <2>1. PICK c \in DOMAIN cases, o \in Verdicts : AnotherOfficer(c, o)
    BY <1>6
  <2>2. /\ scene' = scene
        /\ Decidable(cases[c]) /\ OfOthers(c, WithVerdict(cases[c], o, "officer"))
    BY <2>1 DEF AnotherOfficer
  <2>3. OneChanges(c)
    BY <2>2, VerdictChanges DEF Staff
  <2>4. QED
    BY <1>2, <2>2, <2>3
<1>7. CASE TickDecides
  <2> DEFINE item == Head(tick.todo)
  <2>1. tick.todo # <<>> /\ scene' = scene /\ TickTyped
    BY <1>7, Parts DEF TickDecides
  <2>2. item \in ReviewItem
    <3>1. tick.todo \in Seq(ReviewItem) /\ tick.todo # <<>>
      BY <2>1 DEF TickTyped, TickType
    <3>2. \A S : \A s \in Seq(S) : s # <<>> => Head(s) \in S
      OBVIOUS
    <3>3. QED
      BY <3>1, <3>2
  <2>3. \/ Decidable(cases[item.id])
             /\ OfOthers(item.id, WithVerdict(cases[item.id], item.outcome, "reviewer"))
        \/ UNCHANGED <<cases, tab, phone>>
    BY <1>7 DEF TickDecides
  <2> HIDE DEF item
  <2>4. item.id \in DOMAIN cases /\ item.outcome \in Verdicts
    BY <2>2, Typed DEF ReviewItem
  <2>5. OneChanges(item.id) \/ UNCHANGED <<cases, tab, phone>>
    BY <2>3, <2>4, VerdictChanges DEF Staff
  <2>6. QED
    BY <1>2, <2>1, <2>5
<1>8. CASE \/ Refreshed \/ (\E c \in DOMAIN cases : Refresh(c)) \/ DayPasses \/ TickLists \/ TickEnds
           \/ TickDies \/ Access \/ Sweeps(SweeperNext) \/ UNCHANGED vars
  <2>1. UNCHANGED <<scene, cases, tab>>
    BY <1>8 DEF Refreshed, Refresh, DayPasses, TickLists, TickEnds, TickDies, Access, Sweeps, vars,
                deskVars
  <2>2. ASSUME NEW c \in DOMAIN cases, Refresh(c) PROVE phone'.page = phone.page
    <3>1. phone' = [phone EXCEPT !.at = "loading", !.id = c, !.seen = {cases[c]}]
      BY <2>2 DEF Refresh
    <3>2. QED
      BY <1>1, <3>1 DEF PhoneType
  <2>3. phone' = phone \/ Refreshed \/ \E c \in DOMAIN cases : Refresh(c)
    BY <1>8 DEF DayPasses, TickLists, TickEnds, TickDies, Access, Sweeps, vars, deskVars
  <2>4. QED
    BY <2>1, <2>2, <2>3
<1>9. QED
  BY <1>3, <1>4, <1>5, <1>6, <1>7, <1>8 DEF Next, Others, Officer

\* However old the page that showed a score, and whatever its queries raced with, the
\* verdict given on it is recorded with that score.
THEOREM ShownCorrect == Spec => ShownIsDecided
<1> DEFINE Given == \A c \in DOMAIN cases :
             tab.at = "sent" /\ tab.id = c /\ tab'.at = "loading" /\ tab.page.flags.ruleset
             => Last(cases'[c].decisions).score = tab.page.head.score
<1>1. ASSUME DInv, [Next]_vars PROVE Given
  <2> SUFFICES ASSUME NEW c \in DOMAIN cases, tab.at = "sent", tab.id = c, tab'.at = "loading",
                      tab.page.flags.ruleset
               PROVE  Last(cases'[c].decisions).score = tab.page.head.score
    OBVIOUS
  <2>1. Decide
    BY <1>1, StepChanges
  <2>2. PICK rows : /\ Changes(cases, cases', c, rows)
                    /\ Last(rows.decisions).score = cases[c].score
    BY <1>1, <2>1, DecideStep
  <2>3. cases'[c] = rows
    BY <1>1, <2>2, TableNext
  <2>4. tab.page.head.score = cases[c].score
    BY <1>1 DEF DInv, TabShows
  <2>5. QED
    BY <2>2, <2>3, <2>4
<1>2. DInv /\ [Next]_vars => [Given]_vars
  BY <1>1
<1>3. QED
  BY <1>2, DInvAlways, PTL DEF Spec, ShownIsDecided

-----------------------------------------------------------------------------
(* The officer's timeline.                                                 *)

LEMMA LineOf ==
  ASSUME NEW e \in EventType
  PROVE  LET line == describeEvent(e)
         IN /\ line[1] = "Referred for review"
                 <=> e.action = "decision.recorded" /\ e.says = "referred"
            /\ line[1] = "Decided automatically"
                 <=> e.action = "decision.recorded" /\ e.says # "referred" /\ e.automatic = TRUE
            /\ line[1] = "Decided by a reviewer"
                 <=> e.action = "decision.recorded" /\ e.says # "referred" /\ e.automatic # TRUE
            /\ line[1] = "Closed" <=> e.action \in Closings
            /\ e.action = "decision.recorded" /\ e.says # "referred" => line[2] = e.says
<1>1. CASE e.action = "decision.recorded" /\ e.says = "referred"
  BY <1>1 DEF describeEvent, Closings
<1>2. CASE e.action = "decision.recorded" /\ e.says # "referred" /\ e.automatic = TRUE
  BY <1>2 DEF describeEvent, Closings
<1>3. CASE e.action = "decision.recorded" /\ e.says # "referred" /\ e.automatic # TRUE
  BY <1>3 DEF describeEvent, Closings
<1>4. CASE e.action \in Closings
  BY <1>4 DEF describeEvent, Closings
<1>5. CASE e.action \notin Closings \cup {"decision.recorded"}
  <2>1. describeEvent(e) = <<e.action, e.says>>
    BY <1>5 DEF describeEvent, Closings
  <2>2. e.action \in {"application.created", "verification.session_created", "status.changed",
                      "screening.completed"}
    BY <1>5 DEF EventType, Closings
  <2>3. describeEvent(e)[1] = e.action
    BY <2>1
  <2>4. QED
    BY <1>5, <2>2, <2>3
<1>6. QED
  BY <1>1, <1>2, <1>3, <1>4, <1>5

LEMMA LinesOf ==
  ASSUME NEW a \in CaseType
  PROVE  /\ \A line : line \in Range(Timeline(a)) <=> \E e \in Range(a.trail) : line = describeEvent(e)
         /\ Range(a.trail) \subseteq EventType
<1>1. a.trail \in Seq(EventType)
  BY DEF CaseType
<1>2. Range(a.trail) \subseteq EventType
  BY <1>1 DEF Range
<1>3. DOMAIN Timeline(a) = DOMAIN a.trail
      /\ \A i \in DOMAIN a.trail : Timeline(a)[i] = describeEvent(a.trail[i])
  BY DEF Timeline
<1> HIDE DEF Timeline
<1>4. QED
  BY <1>2, <1>3 DEF Range

LEMMA TimelineAgrees ==
  ASSUME NEW a \in CaseType, Sound(a)
  PROVE  LET Says(what) == {line \in Range(Timeline(a)) : line[1] = what}
             Of(by) == {<<a.decisions[i].outcome>> :
                          i \in {j \in VerdictsOf(a) : a.decisions[j].by \in by}}
         IN /\ Says("Referred for review") # {} <=> Referred(a)
            /\ {<<line[2]>> : line \in Says("Decided automatically")} = Of({"system"})
            /\ {<<line[2]>> : line \in Says("Decided by a reviewer")} = Of(Staff)
            /\ Says("Closed") # {} <=> a.status \in OffRamps
<1> DEFINE Says(what) == {line \in Range(Timeline(a)) : line[1] = what}
           Of(by) == {<<a.decisions[i].outcome>> :
                        i \in {j \in VerdictsOf(a) : a.decisions[j].by \in by}}
           Lines(what) == {<<line[2]>> : line \in Says(what)}
<1>1. /\ Range(a.trail) \subseteq EventType
      /\ \A what : \A line : line \in Says(what) <=>
           \E e \in Range(a.trail) : line = describeEvent(e) /\ describeEvent(e)[1] = what
  BY LinesOf
<1>2. /\ (\E e \in Recorded(a) : e.says = "referred") <=> Referred(a)
      /\ \A e \in Recorded(a) : e.says \in Outcomes
      /\ (\E e \in Range(a.trail) : e.action \in Closings) <=> a.status \in OffRamps
      /\ TellsVerdicts(a)
  BY DEF Sound, Tells
<1>3. \A e : e \in Recorded(a) <=> e \in Range(a.trail) /\ e.action = "decision.recorded"
  BY DEF Recorded
<1>4. a.decisions \in Seq(DecisionType)
  BY DEF CaseType
<1>5. ASSUME NEW by, NEW o
      PROVE  <<o>> \in Of(by) <=> \E d \in Range(a.decisions) :
                                    d.outcome = o /\ o \in Verdicts /\ d.by \in by
  <2>1. <<o>> \in Of(by) <=> \E i \in DOMAIN a.decisions :
          /\ a.decisions[i].outcome \in Verdicts /\ a.decisions[i].by \in by
          /\ <<o>> = <<a.decisions[i].outcome>>
    BY DEF VerdictsOf
  <2>2. \A x, y : <<x>> = <<y>> <=> x = y
    OBVIOUS
  <2> HIDE DEF Of
  <2>3. QED
    BY <2>1, <2>2 DEF Range
<1>6. ASSUME NEW by, NEW t \in Of(by) PROVE \E o : t = <<o>>
  OBVIOUS
<1>7. ASSUME NEW what, NEW o
      PROVE  <<o>> \in Lines(what) <=> \E e \in Range(a.trail) :
                                        describeEvent(e)[1] = what /\ describeEvent(e)[2] = o
  <2>1. <<o>> \in Lines(what) <=> \E line \in Says(what) : <<o>> = <<line[2]>>
    OBVIOUS
  <2>2. \A x, y : <<x>> = <<y>> <=> x = y
    OBVIOUS
  <2> HIDE DEF Lines, Says
  <2>3. QED
    BY <1>1, <2>1, <2>2
<1>8. ASSUME NEW what, NEW t \in Lines(what) PROVE \E o : t = <<o>>
  OBVIOUS
<1> HIDE DEF Lines, Of, Says
<1>9. Says("Referred for review") # {} <=> Referred(a)
  <2>1. Says("Referred for review") # {} <=>
          \E e \in Range(a.trail) : describeEvent(e)[1] = "Referred for review"
    BY <1>1
  <2>2. QED
    BY <1>1, <1>2, <1>3, <2>1, LineOf
<1>10. Says("Closed") # {} <=> a.status \in OffRamps
  <2>1. Says("Closed") # {} <=> \E e \in Range(a.trail) : describeEvent(e)[1] = "Closed"
    BY <1>1
  <2>2. QED
    BY <1>1, <1>2, <2>1, LineOf
<1>11. ASSUME NEW e \in Recorded(a) PROVE e.says # "referred" <=> e.says \in Verdicts
  BY <1>2 DEF Outcomes, Verdicts
<1>12. \A o : <<o>> \in Lines("Decided automatically") <=> <<o>> \in Of({"system"})
  <2> SUFFICES ASSUME NEW o
               PROVE  <<o>> \in Lines("Decided automatically") <=> <<o>> \in Of({"system"})
    OBVIOUS
  <2>1. <<o>> \in Lines("Decided automatically") <=>
          \E e \in Range(a.trail) : /\ e.action = "decision.recorded" /\ e.says # "referred"
                                    /\ e.automatic = TRUE /\ e.says = o
    <3>1. ASSUME NEW e \in Range(a.trail)
          PROVE  describeEvent(e)[1] = "Decided automatically" /\ describeEvent(e)[2] = o
                   <=> /\ e.action = "decision.recorded" /\ e.says # "referred"
                       /\ e.automatic = TRUE /\ e.says = o
      BY <1>1, LineOf
    <3>2. <<o>> \in Lines("Decided automatically") <=>
            \E e \in Range(a.trail) :
              describeEvent(e)[1] = "Decided automatically" /\ describeEvent(e)[2] = o
      BY <1>7
    <3>3. QED
      BY <3>1, <3>2, Zenon
  <2>2. <<o>> \in Lines("Decided automatically") <=>
          o \in Verdicts /\ \E e \in Recorded(a) : e.says = o /\ e.automatic = TRUE
    BY <1>3, <1>11, <2>1
  <2>3. o \in Verdicts =>
          ((\E e \in Recorded(a) : e.says = o /\ e.automatic = TRUE)
             <=> (\E d \in Range(a.decisions) : d.outcome = o /\ d.by = "system"))
    BY <1>2 DEF TellsVerdicts
  <2>4. <<o>> \in Of({"system"}) <=>
          o \in Verdicts /\ \E d \in Range(a.decisions) : d.outcome = o /\ d.by = "system"
    BY <1>5
  <2>5. QED
    BY <2>2, <2>3, <2>4
<1>13. \A o : <<o>> \in Lines("Decided by a reviewer") <=> <<o>> \in Of(Staff)
  <2> SUFFICES ASSUME NEW o
               PROVE  <<o>> \in Lines("Decided by a reviewer") <=> <<o>> \in Of(Staff)
    OBVIOUS
  <2>1. <<o>> \in Lines("Decided by a reviewer") <=>
          \E e \in Range(a.trail) : /\ e.action = "decision.recorded" /\ e.says # "referred"
                                    /\ e.automatic # TRUE /\ e.says = o
    <3>1. ASSUME NEW e \in Range(a.trail)
          PROVE  describeEvent(e)[1] = "Decided by a reviewer" /\ describeEvent(e)[2] = o
                   <=> /\ e.action = "decision.recorded" /\ e.says # "referred"
                       /\ e.automatic # TRUE /\ e.says = o
      BY <1>1, LineOf
    <3>2. <<o>> \in Lines("Decided by a reviewer") <=>
            \E e \in Range(a.trail) :
              describeEvent(e)[1] = "Decided by a reviewer" /\ describeEvent(e)[2] = o
      BY <1>7
    <3>3. QED
      BY <3>1, <3>2, Zenon
  <2>2. <<o>> \in Lines("Decided by a reviewer") <=>
          o \in Verdicts /\ \E e \in Recorded(a) : e.says = o /\ e.automatic # TRUE
    BY <1>3, <1>11, <2>1
  <2>3. o \in Verdicts =>
          ((\E e \in Recorded(a) : e.says = o /\ e.automatic # TRUE)
             <=> (\E d \in Range(a.decisions) : d.outcome = o /\ d.by \in Staff))
    BY <1>2 DEF TellsVerdicts
  <2>4. <<o>> \in Of(Staff) <=>
          o \in Verdicts /\ \E d \in Range(a.decisions) : d.outcome = o /\ d.by \in Staff
    BY <1>5
  <2>5. QED
    BY <2>2, <2>3, <2>4
<1>14. ASSUME NEW what, NEW by, \A o : <<o>> \in Lines(what) <=> <<o>> \in Of(by)
       PROVE  Lines(what) = Of(by)
  <2>1. ASSUME NEW t \in Lines(what) PROVE t \in Of(by)
    BY <1>8, <1>14
  <2>2. ASSUME NEW t \in Of(by) PROVE t \in Lines(what)
    BY <1>6, <1>14
  <2>3. QED
    BY <2>1, <2>2
<1>15. Lines("Decided automatically") = Of({"system"})
  BY <1>12, <1>14
<1>16. Lines("Decided by a reviewer") = Of(Staff)
  BY <1>13, <1>14
<1>17. QED
  BY <1>9, <1>10, <1>15, <1>16 DEF Lines, Of, Says

\* The officer's timeline and the tables never contradict each other: a referral, a
\* verdict with who gave it, and a closing are told exactly when there is one.
THEOREM RecordCorrect == Spec => []RecordAgrees
<1>1. DInv => RecordAgrees
  <2> SUFFICES ASSUME DInv PROVE RecordAgrees
    OBVIOUS
  <2>1. \A c \in DOMAIN cases : cases[c] \in CaseType /\ Sound(cases[c])
    BY Typed
  <2>2. QED
    BY <2>1, TimelineAgrees DEF RecordAgrees
<1>2. QED
  BY <1>1, DInvAlways, PTL

-----------------------------------------------------------------------------
(* The promise of Adjudication.                                            *)

StageIn(rows) == IF rows.status \in OffRamps THEN "closed"
                 ELSE IF Decided(rows) THEN "decided"
                 ELSE IF Referred(rows) THEN "referred" ELSE "open"
VerdictIn(rows) == IF Decided(rows) THEN rows.decisions[Max(VerdictsOf(rows))].outcome ELSE None
BasisIn(rows) == IF rows.decisions # <<>> THEN rows.score ELSE None

LEMMA StagesAre ==
  ASSUME NEW a \in CaseType, Shape(a)
  PROVE  /\ a.status \in OffRamps <=> StageIn(a) = "closed"
         /\ Decided(a) <=> StageIn(a) = "decided"
         /\ Referred(a) /\ ~Decided(a) <=> StageIn(a) = "referred"
         /\ StageIn(a) \in {"open", "referred", "decided", "closed"}
         /\ StageIn(a) \in {"open", "closed"} <=> a.decisions = <<>>
         /\ Decided(a) => VerdictIn(a) \in Verdicts /\ VerdictIn(a) = a.decisions[Len(a.decisions)].outcome
         /\ ~Decided(a) => VerdictIn(a) = None
         /\ a.decisions = <<>> => BasisIn(a) = None
         /\ a.decisions # <<>> => BasisIn(a) = a.score /\ a.score \in Scores
<1>1. a.decisions \in Seq(DecisionType) /\ a.score \in Scores \cup {None}
  BY DEF CaseType
<1>2. a.decisions # <<>> => a.status \notin OffRamps
  BY DEF Shape, OffRamps
<1>3. (Decided(a) \/ Referred(a)) <=> a.decisions # <<>>
  <2>1. ASSUME a.decisions # <<>> PROVE Decided(a) \/ Referred(a)
    <3>1. 1 \in DOMAIN a.decisions /\ a.decisions[1] \in DecisionType
      BY <1>1, <2>1
    <3>2. a.decisions[1].outcome \in Verdicts \cup {"referred"}
      BY <3>1 DEF DecisionType, Outcomes
    <3>3. QED
      BY <3>1, <3>2 DEF Decided, VerdictsOf, Referred
  <2>2. ASSUME Decided(a) \/ Referred(a) PROVE a.decisions # <<>>
    <3>1. PICK i \in DOMAIN a.decisions : TRUE
      BY <2>2 DEF Decided, VerdictsOf, Referred
    <3>2. QED
      BY <3>1
  <2>3. QED
    BY <2>1, <2>2
<1>4. ASSUME Decided(a)
      PROVE  VerdictIn(a) \in Verdicts /\ VerdictIn(a) = a.decisions[Len(a.decisions)].outcome
  <2>1. VerdictsOf(a) = {Len(a.decisions)} /\ Max(VerdictsOf(a)) = Len(a.decisions)
    BY <1>4, VerdictIsLast
  <2>2. VerdictIn(a) = a.decisions[Len(a.decisions)].outcome
    BY <1>4, <2>1 DEF VerdictIn
  <2>3. Len(a.decisions) \in VerdictsOf(a)
    BY <2>1
  <2>4. QED
    BY <2>2, <2>3 DEF VerdictsOf
<1>5. StageIn(a) = "closed" <=> a.status \in OffRamps
  BY DEF StageIn
<1>6. a.status \notin OffRamps =>
        /\ StageIn(a) = "decided" <=> Decided(a)
        /\ StageIn(a) = "referred" <=> Referred(a) /\ ~Decided(a)
        /\ StageIn(a) = "open" <=> ~Referred(a) /\ ~Decided(a)
  BY DEF StageIn
<1>7. StageIn(a) \in {"open", "referred", "decided", "closed"}
  BY DEF StageIn
<1>8. a.decisions = <<>> <=> a.score = None
  BY DEF Shape
<1>9. QED
  BY <1>1, <1>2, <1>3, <1>4, <1>5, <1>6, <1>7, <1>8 DEF VerdictIn, BasisIn

\* What leads from sound rows to later ones keeps the promise.
LEMMA PromiseKept ==
  ASSUME NEW a \in CaseType, NEW b \in CaseType, Sound(a), Sound(b), Precedes(a, b)
  PROVE  \/ StageIn(b) = StageIn(a) /\ VerdictIn(b) = VerdictIn(a) /\ BasisIn(b) = BasisIn(a)
         \/ /\ StageIn(a) = "open" /\ StageIn(b) = "referred" /\ VerdictIn(b) = None
            /\ BasisIn(b) \in Scores
         \/ /\ StageIn(a) = "open" /\ StageIn(b) = "decided" /\ VerdictIn(b) \in Verdicts
            /\ BasisIn(b) \in Scores
         \/ /\ StageIn(a) = "referred" /\ StageIn(b) = "decided" /\ VerdictIn(b) \in Verdicts
            /\ BasisIn(b) = BasisIn(a)
         \/ /\ StageIn(a) = "open" /\ StageIn(b) = "closed" /\ VerdictIn(b) = None
            /\ BasisIn(b) = None
<1>1. Shape(a) /\ Shape(b)
  BY DEF Sound
<1> DEFINE d == a.decisions
           e == b.decisions
<1>2. d \in Seq(DecisionType) /\ e \in Seq(DecisionType) /\ Extends(d, e)
  BY DEF CaseType, Precedes
<1>3. d # <<>> => e # <<>>
  <2> HIDE DEF d, e
  <2>1. QED
    BY <1>2 DEF Extends
<1>4. d # <<>> => BasisIn(b) = BasisIn(a)
  BY <1>1, <1>3, StagesAre DEF Precedes, Shape
<1>5. \A i \in DOMAIN d : i \in DOMAIN e /\ e[i] = d[i]
  <2> HIDE DEF d, e
  <2>1. QED
    BY <1>2 DEF Extends
<1>6. CASE StageIn(a) = "closed"
  <2>1. b.status \in OffRamps
    BY <1>1, <1>6, StagesAre DEF Precedes, Final
  <2>2. StageIn(b) = "closed"
    BY <1>1, <2>1, StagesAre
  <2>3. ~Decided(a) /\ ~Decided(b) /\ d = <<>> /\ e = <<>>
    BY <1>1, <1>6, <2>2, StagesAre
  <2>4. QED
    BY <1>1, <1>6, <2>2, <2>3, StagesAre
<1>7. CASE StageIn(a) = "decided"
  <2>1. Decided(a) /\ d # <<>>
    BY <1>1, <1>7, StagesAre
  <2>2. Len(d) \in VerdictsOf(a)
    BY <1>1, <2>1, VerdictIsLast
  <2>3. Len(d) \in VerdictsOf(b) /\ e[Len(d)] = d[Len(d)]
    BY <1>5, <2>2 DEF VerdictsOf
  <2>4. Decided(b) /\ StageIn(b) = "decided"
    BY <1>1, <2>3, StagesAre DEF Decided
  <2>5. Len(d) = Len(e)
    BY <1>1, <2>3, <2>4, VerdictIsLast
  <2>6. VerdictIn(b) = VerdictIn(a)
    BY <1>1, <2>1, <2>3, <2>4, <2>5, StagesAre
  <2>7. QED
    BY <1>4, <1>7, <2>1, <2>4, <2>6
<1>8. CASE StageIn(a) = "referred"
  <2>1. Referred(a) /\ ~Decided(a) /\ d # <<>>
    BY <1>1, <1>8, StagesAre
  <2>2. Referred(b)
    BY <1>5, <2>1 DEF Referred
  <2>3. StageIn(b) \in {"referred", "decided"}
    BY <1>1, <1>3, <2>1, <2>2, StagesAre
  <2>4. QED
    BY <1>1, <1>4, <1>8, <2>1, <2>3, StagesAre
<1>9. CASE StageIn(a) = "open"
  <2>1. ~Decided(a) /\ d = <<>>
    BY <1>1, <1>9, StagesAre
  <2>2. VerdictIn(a) = None /\ BasisIn(a) = None
    BY <1>1, <2>1, StagesAre
  <2>3. CASE StageIn(b) \in {"open", "closed"}
    <3>1. e = <<>> /\ ~Decided(b)
      BY <1>1, <2>3, StagesAre
    <3>2. VerdictIn(b) = None /\ BasisIn(b) = None
      BY <1>1, <3>1, StagesAre
    <3>3. QED
      BY <1>9, <2>2, <2>3, <3>2
  <2>4. CASE StageIn(b) \in {"referred", "decided"}
    <3>1. e # <<>> /\ BasisIn(b) \in Scores
      BY <1>1, <2>4, StagesAre
    <3>2. /\ StageIn(b) = "referred" => VerdictIn(b) = None
          /\ StageIn(b) = "decided" => VerdictIn(b) \in Verdicts
      BY <1>1, StagesAre
    <3>3. QED
      BY <1>9, <2>4, <3>1, <3>2
  <2>5. QED
    BY <1>1, <2>3, <2>4, StagesAre
<1>10. QED
  BY <1>1, <1>6, <1>7, <1>8, <1>9, StagesAre

\* Each application implements Adjudication: it is referred, decided or closed in the
\* order the record promises, once, and on evidence that stays.
THEOREM PromiseCorrect == Spec => EachCaseKeepsItsPromise
<1>1. ASSUME Init, scene.from # "referred", NEW c \in Applications PROVE Case(c)!Init
  <2>1. CASE c \in scene.applications
    <3>1. PICK found : cases = [d \in scene.applications |->
                                  NewCase(scene.from, d \in scene.seeded, found[d])]
      BY <1>1 DEF Init
    <3>2. /\ c \in DOMAIN cases /\ cases[c] = NewCase(scene.from, c \in scene.seeded, found[c])
          /\ scene.from \in {"started", "checking"}
      BY <1>1, <2>1, <3>1, DeskAssumption DEF Init
    <3>3. cases[c].status = scene.from /\ cases[c].decisions = <<>>
      BY <1>1, <3>2 DEF NewCase
    <3>4. ~Decided(cases[c]) /\ ~Referred(cases[c]) /\ cases[c].status \notin OffRamps
      BY <3>2, <3>3 DEF Decided, VerdictsOf, Referred, OffRamps
    <3>5. QED
      BY <3>2, <3>3, <3>4 DEF Case!Init, StageOf, VerdictOf, BasisOf
  <2>2. CASE c \notin scene.applications
    <3>1. c \notin DOMAIN cases
      BY <1>1, <2>2 DEF Init
    <3>2. QED
      BY <3>1 DEF Case!Init, StageOf, VerdictOf, BasisOf
  <2>3. QED
    BY <2>1, <2>2
<1>2. ASSUME DInv, [Next]_vars, NEW c \in Applications
      PROVE  [Case(c)!Next]_<<StageOf(c), VerdictOf(c), BasisOf(c)>>
  <2>1. DOMAIN cases = scene.applications /\ DOMAIN cases' = scene.applications
    BY <1>2, Typed, StepChanges, TableNext
  <2>2. CASE c \notin scene.applications
    <3>1. /\ StageOf(c) = "open" /\ VerdictOf(c) = None /\ BasisOf(c) = None
          /\ StageOf(c)' = "open" /\ VerdictOf(c)' = None /\ BasisOf(c)' = None
      BY <2>1, <2>2 DEF StageOf, VerdictOf, BasisOf
    <3>2. QED
      BY <3>1
  <2>3. CASE c \in scene.applications
    <3> DEFINE a == cases[c]
               b == cases'[c]
    <3>1. a \in CaseType /\ Sound(a)
      BY <1>2, <2>3, Typed
    <3>2. b \in CaseType /\ Sound(b) /\ Precedes(a, b)
      <4>1. CASE cases' = cases
        BY <3>1, <4>1, PrecedesOrder
      <4>2. CASE \E d, rows : Changes(cases, cases', d, rows)
        BY <1>2, <2>3, <4>2, TableNext
      <4>3. QED
        BY <1>2, <4>1, <4>2, StepChanges
    <3>3. /\ StageOf(c) = StageIn(a) /\ VerdictOf(c) = VerdictIn(a) /\ BasisOf(c) = BasisIn(a)
          /\ StageOf(c)' = StageIn(b) /\ VerdictOf(c)' = VerdictIn(b) /\ BasisOf(c)' = BasisIn(b)
      BY <2>1, <2>3 DEF StageOf, VerdictOf, BasisOf, StageIn, VerdictIn, BasisIn
    <3> HIDE DEF a, b
    <3>4. CASE StageIn(b) = StageIn(a) /\ VerdictIn(b) = VerdictIn(a) /\ BasisIn(b) = BasisIn(a)
      BY <3>3, <3>4
    <3>5. CASE /\ StageIn(a) = "open" /\ StageIn(b) = "referred" /\ VerdictIn(b) = None
               /\ BasisIn(b) \in Scores
      BY <3>3, <3>5 DEF Case!Next, Case!Refer
    <3>6. CASE /\ StageIn(a) = "open" /\ StageIn(b) = "decided" /\ VerdictIn(b) \in Verdicts
               /\ BasisIn(b) \in Scores
      BY <3>3, <3>6 DEF Case!Next, Case!DecideAutomatically, Case!Verdicts, Verdicts
    <3>7. CASE /\ StageIn(a) = "referred" /\ StageIn(b) = "decided" /\ VerdictIn(b) \in Verdicts
               /\ BasisIn(b) = BasisIn(a)
      BY <3>3, <3>7 DEF Case!Next, Case!DecideReferral, Case!Verdicts, Verdicts
    <3>8. CASE /\ StageIn(a) = "open" /\ StageIn(b) = "closed" /\ VerdictIn(b) = None
               /\ BasisIn(b) = None
      BY <3>3, <3>8 DEF Case!Next, Case!CloseWithoutFinding
    <3>9. QED
      BY <3>1, <3>2, <3>4, <3>5, <3>6, <3>7, <3>8, PromiseKept
  <2>4. QED
    BY <2>2, <2>3
<1>3. Init => (scene.from # "referred" => \A c \in Applications : Case(c)!Init)
  BY <1>1
<1>4. DInv /\ [Next]_vars =>
        \A c \in Applications : [Case(c)!Next]_<<StageOf(c), VerdictOf(c), BasisOf(c)>>
  BY <1>2
<1>5. DInv /\ [Next]_vars =>
        [\A c \in Applications :
           [Case(c)!Next]_<<StageOf(c), VerdictOf(c), BasisOf(c)>>]_vars
  BY <1>4
<1>6. QED
  BY <1>3, <1>5, DInvAlways, PTL DEF Spec, EachCaseKeepsItsPromise

-----------------------------------------------------------------------------
(* The statistics.                                                         *)

LEMMA Apart ==
  ASSUME NEW S, NEW T, IsFiniteSet(S), IsFiniteSet(T), S \cap T = {}
  PROVE  /\ IsFiniteSet(S \cup T) /\ Cardinality(S \cup T) = Cardinality(S) + Cardinality(T)
         /\ Cardinality(S) \in Nat /\ Cardinality(T) \in Nat
<1>1. Cardinality(S) \in Nat /\ Cardinality(T) \in Nat /\ Cardinality(S \cap T) = 0
  BY FS_CardinalityType, FS_EmptySet
<1>2. /\ IsFiniteSet(S \cup T)
      /\ Cardinality(S \cup T) = Cardinality(S) + Cardinality(T) - Cardinality(S \cap T)
  BY FS_Union
<1>3. QED
  BY <1>1, <1>2

\* The rows of the decisions table, told apart by what they say or by who gave them.
LEMMA RowsApart ==
  ASSUME NEW D, IsFiniteSet(D), NEW table \in [D -> CaseType], \A c \in D : Shape(table[c]),
         NEW O, NEW B, NEW O1, NEW B1, NEW O2, NEW B2,
         \A d \in DecisionType :
           /\ d.outcome \in O /\ d.by \in B
                <=> (d.outcome \in O1 /\ d.by \in B1) \/ (d.outcome \in O2 /\ d.by \in B2)
           /\ ~(d.outcome \in O1 /\ d.by \in B1 /\ d.outcome \in O2 /\ d.by \in B2)
  PROVE  /\ Cardinality(DecisionRows(table, O, B))
              = Cardinality(DecisionRows(table, O1, B1)) + Cardinality(DecisionRows(table, O2, B2))
         /\ Cardinality(DecisionRows(table, O1, B1)) \in Nat
         /\ Cardinality(DecisionRows(table, O2, B2)) \in Nat
<1> DEFINE R == DecisionRows(table, O, B)
           S == DecisionRows(table, O1, B1)
           T == DecisionRows(table, O2, B2)
           Row(c, i) == c \in D /\ i \in DOMAIN table[c].decisions
           d(c, i) == table[c].decisions[i]
<1>1. /\ R \subseteq D \X {1, 2} /\ S \subseteq D \X {1, 2} /\ T \subseteq D \X {1, 2}
      /\ IsFiniteSet(S) /\ IsFiniteSet(T)
  BY RowsAre
<1>2. \A c, i : <<c, i>> \in R <=> Row(c, i) /\ d(c, i).outcome \in O /\ d(c, i).by \in B
  BY RowsAre
<1>3. \A c, i : <<c, i>> \in S <=> Row(c, i) /\ d(c, i).outcome \in O1 /\ d(c, i).by \in B1
  BY RowsAre
<1>4. \A c, i : <<c, i>> \in T <=> Row(c, i) /\ d(c, i).outcome \in O2 /\ d(c, i).by \in B2
  BY RowsAre
<1>5. \A c, i : Row(c, i) => d(c, i) \in DecisionType
  <2> SUFFICES ASSUME NEW c \in D, NEW i \in DOMAIN table[c].decisions
               PROVE  table[c].decisions[i] \in DecisionType
    OBVIOUS
  <2>1. table[c].decisions \in Seq(DecisionType)
    BY DEF CaseType
  <2>2. QED
    BY <2>1
<1> HIDE DEF R, S, T, Row, d
<1>6. \A c, i : /\ <<c, i>> \in R <=> <<c, i>> \in S \/ <<c, i>> \in T
                /\ ~(<<c, i>> \in S /\ <<c, i>> \in T)
  BY <1>2, <1>3, <1>4, <1>5
<1>7. ASSUME NEW r \in D \X {1, 2}
      PROVE  (r \in R <=> r \in S \/ r \in T) /\ ~(r \in S /\ r \in T)
  <2>1. PICK c \in D, i \in {1, 2} : r = <<c, i>>
    OBVIOUS
  <2>2. QED
    BY <1>6, <2>1
<1>8. R = S \cup T /\ S \cap T = {}
  BY <1>1, <1>7
<1>9. Cardinality(R) = Cardinality(S) + Cardinality(T) /\ Cardinality(S) \in Nat
      /\ Cardinality(T) \in Nat
  BY <1>1, <1>8, Apart
<1>10. QED
  BY <1>9 DEF R, S, T

LEMMA GiversApart ==
  ASSUME NEW D, IsFiniteSet(D), NEW table \in [D -> CaseType], \A c \in D : Shape(table[c]),
         NEW O, NEW B1, NEW B2, B1 \cap B2 = {}
  PROVE  /\ Cardinality(DecisionRows(table, O, B1 \cup B2))
              = Cardinality(DecisionRows(table, O, B1)) + Cardinality(DecisionRows(table, O, B2))
         /\ Cardinality(DecisionRows(table, O, B1)) \in Nat
         /\ Cardinality(DecisionRows(table, O, B2)) \in Nat
<1> DEFINE B == B1 \cup B2
<1>1. \A d \in DecisionType :
        /\ d.outcome \in O /\ d.by \in B
             <=> (d.outcome \in O /\ d.by \in B1) \/ (d.outcome \in O /\ d.by \in B2)
        /\ ~(d.outcome \in O /\ d.by \in B1 /\ d.outcome \in O /\ d.by \in B2)
  OBVIOUS
<1> HIDE DEF B
<1>2. /\ Cardinality(DecisionRows(table, O, B))
           = Cardinality(DecisionRows(table, O, B1)) + Cardinality(DecisionRows(table, O, B2))
      /\ Cardinality(DecisionRows(table, O, B1)) \in Nat
      /\ Cardinality(DecisionRows(table, O, B2)) \in Nat
  BY <1>1, RowsApart
<1>3. QED
  BY <1>2 DEF B

\* A decided case has one verdict.
LEMMA OneVerdictEach ==
  ASSUME NEW D, IsFiniteSet(D), NEW table \in [D -> CaseType], \A c \in D : Shape(table[c])
  PROVE  VerdictRows(table, {"system", "officer", "reviewer"})
           = Cardinality({c \in D : Decided(table[c])})
<1> DEFINE B == {"system", "officer", "reviewer"}
           R == DecisionRows(table, Verdicts, B)
           S == {c \in D : Decided(table[c])}
           n(c) == Len(table[c].decisions)
           f == [c \in S |-> <<c, n(c)>>]
<1>1. IsFiniteSet(S)
  BY FS_Subset
<1>2. /\ R \subseteq D \X {1, 2}
      /\ \A c, i : <<c, i>> \in R <=> /\ c \in D /\ i \in DOMAIN table[c].decisions
                                      /\ table[c].decisions[i].outcome \in Verdicts
                                      /\ table[c].decisions[i].by \in B
  BY RowsAre
<1>3. ASSUME NEW c \in D, NEW i
      PROVE  <<c, i>> \in R <=> i \in VerdictsOf(table[c])
  <2>1. table[c].decisions \in Seq(DecisionType)
    BY DEF CaseType
  <2>2. i \in DOMAIN table[c].decisions => table[c].decisions[i] \in DecisionType
    BY <2>1
  <2>3. i \in DOMAIN table[c].decisions => table[c].decisions[i].by \in B
    BY <2>2 DEF DecisionType, Staff
  <2> HIDE DEF B, R
  <2>4. QED
    BY <1>2, <2>3 DEF VerdictsOf
<1>4. ASSUME NEW c \in S PROVE VerdictsOf(table[c]) = {n(c)}
  BY VerdictIsLast
<1>5. \A c \in D : c \notin S => VerdictsOf(table[c]) = {}
  BY DEF Decided
<1> HIDE DEF B, R, S, n
<1>6. S \subseteq D
  BY DEF S
<1>7. f \in [S -> R]
  BY <1>3, <1>4, <1>6
<1>8. \A c, d \in S : f[c] = f[d] => c = d
  OBVIOUS
<1>9. ASSUME NEW r \in R PROVE \E c \in S : f[c] = r
  <2>1. PICK c \in D, i \in {1, 2} : r = <<c, i>>
    BY <1>2
  <2>2. i \in VerdictsOf(table[c])
    BY <1>3, <2>1
  <2>3. c \in S
    BY <1>5, <2>2
  <2>4. i = n(c)
    BY <1>4, <2>2, <2>3
  <2>5. QED
    BY <2>1, <2>3, <2>4
<1> HIDE DEF f
<1>10. f \in Bijection(S, R)
  BY <1>7, <1>8, <1>9 DEF Bijection, Injection, Surjection, IsInjective
<1>11. ExistsBijection(S, R)
  BY <1>10 DEF ExistsBijection
<1>12. Cardinality(R) = Cardinality(S)
  BY <1>1, <1>11, FS_Bijection
<1>13. QED
  BY <1>12 DEF VerdictRows, R, S, B

\* Every case is on one line.
LEMMA LinesCount ==
  ASSUME NEW D, IsFiniteSet(D), NEW table \in [D -> CaseType], \A c \in D : Shape(table[c])
  PROVE  Cardinality({c \in D : Decided(table[c])}) + StatsLines(table) = Cardinality(D)
<1> DEFINE In(statuses) == {c \in D : table[c].status \in statuses}
           Over == {c \in D : Decided(table[c])}
           Queue == {c \in D : Awaits(table[c])}
           Flight == In({"started", "submitted", "checking"})
           Screening == {c \in D : BeingScreened(table[c])}
           Lost == In({"verification_unavailable"})
           Late == In({"expired"})
<1>1. StatsLines(table) = Cardinality(Queue) + Cardinality(Flight) + Cardinality(Screening)
                            + Cardinality(Lost) + Cardinality(Late)
  BY DEF StatsLines, totals, queueState, CountOf
<1>2. /\ IsFiniteSet(Over) /\ IsFiniteSet(Queue) /\ IsFiniteSet(Flight) /\ IsFiniteSet(Screening)
      /\ IsFiniteSet(Lost) /\ IsFiniteSet(Late)
  BY FS_Subset
<1>3. ASSUME NEW c \in D
      PROVE  /\ c \in Over <=> table[c].status = "decided"
             /\ c \in Queue <=> table[c].status = "screening" /\ Referred(table[c])
             /\ c \in Flight <=> table[c].status \in {"started", "submitted", "checking"}
             /\ c \in Screening <=> table[c].status = "screening" /\ ~Referred(table[c])
             /\ c \in Lost <=> table[c].status = "verification_unavailable"
             /\ c \in Late <=> table[c].status = "expired"
  BY DEF Shape, Awaits, BeingScreened
<1>4. \A c \in D : table[c].status \in {"started", "submitted", "checking", "screening", "decided",
                                        "verification_unavailable", "expired"}
  BY StatusNames DEF CaseType
<1>5. D = ((((Over \cup Queue) \cup Flight) \cup Screening) \cup Lost) \cup Late
  <2>1. \A c \in D : \/ c \in Over \/ c \in Queue \/ c \in Flight \/ c \in Screening
                     \/ c \in Lost \/ c \in Late
    BY <1>3, <1>4
  <2>2. /\ Over \subseteq D /\ Queue \subseteq D /\ Flight \subseteq D /\ Screening \subseteq D
        /\ Lost \subseteq D /\ Late \subseteq D
    OBVIOUS
  <2> HIDE DEF Over, Queue, Flight, Screening, Lost, Late
  <2>3. QED
    BY <2>1, <2>2
<1>6. /\ Over \subseteq D /\ Queue \subseteq D /\ Flight \subseteq D /\ Screening \subseteq D
      /\ Lost \subseteq D /\ Late \subseteq D
  OBVIOUS
<1> HIDE DEF Over, Queue, Flight, Screening, Lost, Late
<1>7. /\ Over \cap Queue = {}
      /\ (Over \cup Queue) \cap Flight = {}
      /\ ((Over \cup Queue) \cup Flight) \cap Screening = {}
      /\ (((Over \cup Queue) \cup Flight) \cup Screening) \cap Lost = {}
      /\ ((((Over \cup Queue) \cup Flight) \cup Screening) \cup Lost) \cap Late = {}
  BY <1>3, <1>6
<1>8. /\ IsFiniteSet(Over \cup Queue)
      /\ Cardinality(Over \cup Queue) = Cardinality(Over) + Cardinality(Queue)
      /\ Cardinality(Over) \in Nat /\ Cardinality(Queue) \in Nat
  BY <1>2, <1>7, Apart
<1>9. /\ IsFiniteSet((Over \cup Queue) \cup Flight)
      /\ Cardinality((Over \cup Queue) \cup Flight)
           = Cardinality(Over \cup Queue) + Cardinality(Flight)
      /\ Cardinality(Flight) \in Nat
  BY <1>2, <1>7, <1>8, Apart
<1>10. /\ IsFiniteSet(((Over \cup Queue) \cup Flight) \cup Screening)
       /\ Cardinality(((Over \cup Queue) \cup Flight) \cup Screening)
            = Cardinality((Over \cup Queue) \cup Flight) + Cardinality(Screening)
       /\ Cardinality(Screening) \in Nat
  BY <1>2, <1>7, <1>9, Apart
<1>11. /\ IsFiniteSet((((Over \cup Queue) \cup Flight) \cup Screening) \cup Lost)
       /\ Cardinality((((Over \cup Queue) \cup Flight) \cup Screening) \cup Lost)
            = Cardinality(((Over \cup Queue) \cup Flight) \cup Screening) + Cardinality(Lost)
       /\ Cardinality(Lost) \in Nat
  BY <1>2, <1>7, <1>10, Apart
<1>12. Cardinality(D) = Cardinality((((Over \cup Queue) \cup Flight) \cup Screening) \cup Lost)
                          + Cardinality(Late)
       /\ Cardinality(Late) \in Nat
  BY <1>2, <1>5, <1>7, <1>11, Apart
<1>13. Cardinality(Over) + StatsLines(table) = Cardinality(D)
  BY <1>1, <1>8, <1>9, <1>10, <1>11, <1>12
<1>14. QED
  BY <1>13 DEF Over

\* After any transaction the statistics account for every application once, give every
\* verdict to one giver, and split the verdicts they count.
THEOREM CountsCorrect == Spec => []EveryApplicationCounted
<1>1. ASSUME DInv PROVE EveryApplicationCounted
  <2> DEFINE D == scene.applications
             All == {"system", "officer", "reviewer"}
             total == totals(cases)
             split == OutcomeSplit(total)
             N(O, B) == Cardinality(DecisionRows(cases, O, B))
  <2>1. /\ IsFiniteSet(D) /\ cases \in [D -> CaseType] /\ DOMAIN cases = D
        /\ \A c \in D : Shape(cases[c])
    BY <1>1, Typed DEF Sound
  <2>2. /\ total.applications = Cardinality(D) /\ total.decided = VerdictRows(cases, All)
        /\ total.auto_decided = N(Verdicts, {"system"})
        /\ total.human_decided = N(Verdicts, {"officer", "reviewer"})
        /\ total.approved = N({"approved"}, All) /\ total.rejected = N({"rejected"}, All)
        /\ total.decided = N(Verdicts, All)
    BY <2>1 DEF totals, VerdictRows, OutcomeRows
  <2> HIDE DEF total
  <2>3. total.decided + StatsLines(cases) = total.applications
    BY <2>1, <2>2, OneVerdictEach, LinesCount
  <2>4. ASSUME NEW d \in DecisionType PROVE d.by \in All
    BY <2>4 DEF DecisionType, Staff
  <2>5. /\ N(Verdicts, All) = N(Verdicts, {"system"}) + N(Verdicts, {"officer", "reviewer"})
        /\ N(Verdicts, {"system"}) \in Nat /\ N(Verdicts, {"officer", "reviewer"}) \in Nat
    <3> DEFINE B1 == {"system"}
               B2 == {"officer", "reviewer"}
    <3>1. All = B1 \cup B2 /\ B1 \cap B2 = {}
      OBVIOUS
    <3> HIDE DEF B1, B2, All, D
    <3>2. /\ Cardinality(DecisionRows(cases, Verdicts, B1 \cup B2))
               = Cardinality(DecisionRows(cases, Verdicts, B1))
                   + Cardinality(DecisionRows(cases, Verdicts, B2))
          /\ Cardinality(DecisionRows(cases, Verdicts, B1)) \in Nat
          /\ Cardinality(DecisionRows(cases, Verdicts, B2)) \in Nat
      BY <2>1, <3>1, GiversApart
    <3>3. QED
      BY <3>1, <3>2 DEF B1, B2
  <2>6. N(Verdicts, All) = N({"approved"}, All) + N({"rejected"}, All)
    BY <2>1, <2>4, RowsApart DEF Verdicts
  <2> HIDE DEF N, All
  <2>7. total.auto_decided + total.human_decided = total.decided
    BY <2>2, <2>5
  <2>8. split # None => split.approved + split.rejected = split.of /\ split.human <= split.of
    <3>1. split # None =>
            /\ split.approved = total.approved /\ split.rejected = total.rejected
            /\ split.human = total.human_decided /\ split.of = total.decided
      BY DEF OutcomeSplit
    <3>2. total.human_decided <= total.decided /\ total.approved + total.rejected = total.decided
      BY <2>2, <2>5, <2>6
    <3>3. QED
      BY <3>1, <3>2
  <2>9. QED
    BY <2>3, <2>7, <2>8 DEF EveryApplicationCounted, total
<1>2. DInv => EveryApplicationCounted
  BY <1>1
<1>3. QED
  BY <1>2, DInvAlways, PTL

-----------------------------------------------------------------------------
(* What the applicant is told.                                             *)

EndsIn(page) == {i \in DOMAIN page.told : page.told[i] \in Endings}
Truthful(page) ==
  Cardinality(EndsIn(page)) <= 1 /\ \A i \in EndsIn(page) : page.told[i] \in EndingOf[page.label]
TellsTrue == phone.page # None => Truthful(phone.page)

LEMMA LabelsTell ==
  ASSUME NEW status \in Statuses
  PROVE  LET label == STATUS_COPY[status]
         IN /\ status = "decided" => EndingOf[label] = Endings \ {"Application closed"}
            /\ status \in OffRamps => EndingOf[label] = {"Application closed"}
            /\ status \notin OffRamps \cup {"decided"} => EndingOf[label] = Endings
<1> DEFINE label == STATUS_COPY[status]
<1>1. DOMAIN STATUS_COPY = Statuses
  BY StatusNames DEF STATUS_COPY
<1>2. label \in Range(STATUS_COPY)
  BY <1>1 DEF Range
<1>3. EndingOf[label] = IF label = STATUS_COPY.decided THEN Endings \ {"Application closed"}
                        ELSE IF \E s \in OffRamps : label = STATUS_COPY[s]
                               THEN {"Application closed"} ELSE Endings
  BY <1>2 DEF EndingOf
<1>0. /\ STATUS_COPY["started"] = "Not started" /\ STATUS_COPY["submitted"] = "Documents received"
      /\ STATUS_COPY["checking"] = "Checking your documents"
      /\ STATUS_COPY["screening"] = "Final checks" /\ STATUS_COPY["decided"] = "Complete"
      /\ STATUS_COPY["verification_unavailable"] = "Could not be completed"
      /\ STATUS_COPY["expired"] = "Closed - not started in time"
  BY DEF STATUS_COPY
<1>4. label = STATUS_COPY.decided <=> status = "decided"
  BY <1>0, StatusNames
<1>5. (\E s \in OffRamps : label = STATUS_COPY[s]) <=> status \in OffRamps
  <2>1. \A s \in OffRamps : label = STATUS_COPY[s] <=> status = s
    BY <1>0, StatusNames DEF OffRamps
  <2> HIDE DEF label
  <2>2. (\E s \in OffRamps : label = STATUS_COPY[s]) <=> \E s \in OffRamps : status = s
    BY <2>1
  <2>3. QED
    BY <2>2
<1>6. "decided" \notin OffRamps
  BY DEF OffRamps
<1> HIDE DEF label
<1>7. /\ status = "decided" => EndingOf[label] = Endings \ {"Application closed"}
      /\ status \in OffRamps => EndingOf[label] = {"Application closed"}
      /\ status \notin OffRamps \cup {"decided"} => EndingOf[label] = Endings
  BY <1>3, <1>4, <1>5, <1>6
<1>8. QED
  BY <1>7 DEF label

\* A history tells one ending at most, the one its record has.
LEMMA OneEnding ==
  ASSUME NEW y \in CaseType, Sound(y)
  PROVE  LET E == {i \in DOMAIN History(y) : History(y)[i] \in Endings}
         IN /\ Cardinality(E) <= 1
            /\ \A i \in E : /\ Final(y)
                            /\ History(y)[i] = "Application closed" <=> y.status \in OffRamps
<1> DEFINE P == ToldAt(y)
           h == History(y)
           E == {i \in DOMAIN h : h[i] \in Endings}
<1>1. /\ h \in Seq(Sentences) /\ Len(h) = Cardinality(P) /\ P \in SUBSET Nat /\ IsFiniteSet(P)
      /\ Cardinality(P) \in Nat
      /\ \A n \in 1..Cardinality(P) :
           Place(P, n) \in P /\ h[n] = describeForApplicant(y.trail[Place(P, n)])
  BY HistoryIs
<1>2. P \subseteq DOMAIN y.trail
  BY DEF ToldAt
<1>3. \A m, n \in 1..Cardinality(P) : m < n => Place(P, m) < Place(P, n)
  <2> HIDE DEF P
  <2>1. QED
    BY <1>1, PlacesInOrder
<1> HIDE DEF P, h
<1>4. DOMAIN h = 1..Cardinality(P)
  BY <1>1
<1>5. ASSUME NEW i \in E
      PROVE  /\ i \in 1..Cardinality(P) /\ Place(P, i) \in EndsAt(y.trail)
             /\ h[i] = describeForApplicant(y.trail[Place(P, i)])
  BY <1>1, <1>2, <1>4 DEF EndsAt
<1>6. Ends(y)
  BY DEF Sound
<1>7. ASSUME NEW m \in E, NEW n \in E PROVE m = n
  <2>1. Place(P, m) = Place(P, n)
    BY <1>5, <1>6 DEF Ends
  <2>2. m \in 1..Cardinality(P) /\ n \in 1..Cardinality(P)
    BY <1>5
  <2>3. Place(P, m) \in Nat /\ Place(P, n) \in Nat
    BY <1>1, <2>2
  <2>4. ~(m < n) /\ ~(n < m)
    BY <1>3, <2>1, <2>2, <2>3
  <2>5. QED
    BY <1>1, <2>2, <2>4
<1>8. ASSUME NEW i \in E
      PROVE  Final(y) /\ (h[i] = "Application closed" <=> y.status \in OffRamps)
  BY <1>5, <1>6 DEF Ends
<1> HIDE DEF E
<1>9. Cardinality(E) <= 1
  <2>1. CASE E = {}
    BY <2>1, FS_EmptySet
  <2>2. CASE E # {}
    <3>1. PICK m \in E : TRUE
      BY <2>2
    <3>2. E = {m}
      BY <1>7, <3>1
    <3>3. QED
      BY <3>2, FS_Singleton
  <2>3. QED
    BY <2>1, <2>2
<1>10. QED
  BY <1>8, <1>9 DEF E, h

\* However old the two snapshots of a status page are, its heading and its history agree.
LEMMA PageTruthful ==
  ASSUME NEW x \in CaseType, NEW y \in CaseType, NEW now \in CaseType,
         Sound(y), Precedes(x, now), Precedes(y, now)
  PROVE  Truthful(StatusPage(x, y))
<1> DEFINE page == StatusPage(x, y)
<1>1. page.label = STATUS_COPY[x.status] /\ page.told = History(y)
  BY StatusPageIs
<1> HIDE DEF page
<1>2. /\ Cardinality(EndsIn(page)) <= 1
      /\ \A i \in EndsIn(page) : /\ Final(y)
                                 /\ page.told[i] = "Application closed" <=> y.status \in OffRamps
  BY <1>1, OneEnding DEF EndsIn
<1>3. x.status \in Statuses
  BY DEF CaseType
<1>4. ASSUME NEW i \in EndsIn(page) PROVE page.told[i] \in EndingOf[page.label]
  <2>1. page.told[i] \in Endings
    BY DEF EndsIn
  <2>2. now.status = y.status /\ (page.told[i] = "Application closed" <=> y.status \in OffRamps)
    BY <1>2 DEF Precedes
  <2>3. x.status \in OffRamps \cup {"decided"} => x.status = y.status
    BY <2>2 DEF Precedes, Final
  <2>4. "decided" \notin OffRamps
    BY DEF OffRamps
  <2>5. QED
    BY <1>1, <1>3, <2>1, <2>2, <2>3, <2>4, LabelsTell
<1>5. QED
  BY <1>2, <1>4 DEF Truthful, page

\* A new page is of what the last one was of, or later.
LEMMA NewPage ==
  ASSUME DInv, Refreshed
  PROVE  /\ Truthful(phone'.page)
         /\ phone.page # None => /\ IsPrefix(phone.page.told, phone'.page.told)
                                 /\ phone.page.step <= phone'.page.step
<1>1. phone \in PhoneType /\ PhoneShows /\ Watches(phone, cases) /\ phone.at = "loading"
      /\ DOMAIN cases = scene.applications
      /\ \A c \in scene.applications : cases[c] \in CaseType
  BY Typed DEF Refreshed
<1>2. PICK page \in StatusPages(phone.seen) :
        phone' = [phone EXCEPT !.at = "shown", !.seen = {}, !.page = page]
  BY DEF Refreshed
<1>3. PICK x \in phone.seen, y \in phone.seen : page = StatusPage(x, y)
  BY <1>2 DEF StatusPages
<1>4. /\ x \in CaseType /\ y \in CaseType /\ cases[phone.id] \in CaseType /\ Sound(y)
      /\ Precedes(x, cases[phone.id]) /\ Precedes(y, cases[phone.id])
  BY <1>1 DEF Watches, PhoneType
<1>5. phone'.page = page
  BY <1>1, <1>2 DEF PhoneType
<1>6. Truthful(page)
  BY <1>3, <1>4, PageTruthful
<1>7. page.told = History(y) /\ page.step = StepOf(x.status)
  BY <1>3, <1>4, StatusPageIs
<1>8. phone.page # None =>
        IsPrefix(phone.page.told, History(y)) /\ phone.page.step <= StepOf(x.status)
  BY <1>1 DEF PhoneShows, Behind
<1>9. QED
  BY <1>5, <1>6, <1>7, <1>8

LEMMA PageStays ==
  ASSUME DInv, phone.page # None
  PROVE  IsPrefix(phone.page.told, phone.page.told) /\ phone.page.step <= phone.page.step
<1>1. phone.page \in StatusPageType
  BY Typed DEF PhoneType
<1>2. phone.page.told \in Seq(Sentences) /\ phone.page.step \in Nat
  BY <1>1 DEF StatusPageType
<1>3. Extends(phone.page.told, phone.page.told)
  BY <1>2, ExtendsOrder
<1>4. QED
  BY <1>2, <1>3, PrefixIs

\* The applicant is told one ending at most, and no other in the heading; what the page
\* told is never taken back, nor does its step go back.
THEOREM ToldCorrect == Spec => ToldOnce
<1> DEFINE Goes == /\ TellsTrue'
                   /\ phone.page # None =>
                        /\ IsPrefix(phone.page.told, phone'.page.told)
                        /\ phone.page.step <= phone'.page.step
           Tells1 == /\ phone'.page # None =>
                          LET told == phone'.page.told
                              endings == {i \in DOMAIN told : told[i] \in Endings}
                          IN /\ Cardinality(endings) <= 1
                             /\ \A i \in endings : told[i] \in EndingOf[phone'.page.label]
                     /\ phone.page # None =>
                          /\ IsPrefix(phone.page.told, phone'.page.told)
                          /\ phone.page.step <= phone'.page.step
<1>1. Init => TellsTrue
  BY DEF Init, Asleep, TellsTrue
<1>2. ASSUME DInv, TellsTrue, [Next]_vars PROVE Goes
  <2>1. CASE phone'.page = phone.page
    <3>1. TellsTrue'
      BY <1>2, <2>1 DEF TellsTrue, Truthful, EndsIn
    <3>2. QED
      BY <1>2, <2>1, <3>1, PageStays
  <2>2. CASE Refreshed
    BY <1>2, <2>2, NewPage DEF TellsTrue, Truthful, EndsIn
  <2>3. QED
    BY <1>2, <2>1, <2>2, StepChanges
<1>3. Goes => Tells1
  BY DEF TellsTrue, Truthful, EndsIn
<1>4. DInv /\ TellsTrue /\ [Next]_vars => TellsTrue' /\ [Tells1]_vars
  BY <1>2, <1>3
<1>5. QED
  BY <1>1, <1>4, DInvAlways, PTL DEF Spec, ToldOnce
=============================================================================
