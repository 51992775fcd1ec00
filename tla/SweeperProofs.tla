---------------------------- MODULE SweeperProofs ----------------------------
(***************************************************************************)
(* What holds of every sweep, for any applications, vendor, batch size and *)
(* limit: it asks about an application once and applies one answer to it,  *)
(* and what is due and what was disowned are applications that wait.       *)
(***************************************************************************)
EXTENDS Sweeper, BoundedSets

\* A sweep asks about an application once.
AsksOnce ==
  /\ \A i, j \in DOMAIN sweep.todo : sweep.todo[i].id = sweep.todo[j].id => i = j
  /\ \A i, j \in DOMAIN sweep.told : sweep.told[i].id = sweep.told[j].id => i = j
  /\ \A i \in DOMAIN sweep.todo, j \in DOMAIN sweep.told : sweep.todo[i].id # sweep.told[j].id

LEMMA Known ==
  /\ IsFiniteSet(Files) /\ Files \subseteq Nat /\ Cardinality(Files) \in Nat
  /\ Vendor \in [Files -> Answers]
  /\ BatchSize \in Nat /\ BatchSize > 0 /\ CloseAfter \in Nat /\ CloseAfter > 0
<1>1. /\ IsFiniteSet(Files) /\ Files \subseteq Nat
      /\ Vendor \in [Files -> Answers]
      /\ BatchSize \in Nat /\ BatchSize > 0 /\ CloseAfter \in Nat /\ CloseAfter > 0
  BY SweeperAssumption
<1>2. Cardinality(Files) \in Nat
  BY <1>1, FS_CardinalityType
<1>3. QED
  BY <1>1, <1>2

-----------------------------------------------------------------------------
(* The line of those that are due.                                         *)

LEMMA LastAskedIs ==
  ASSUME SweeperTypeOK, NEW a
  PROVE  LastAsked(a) \in Nat
<1>1. DOMAIN asked \subseteq Nat
  <2>1. asked \in Seq((SUBSET Waiting) \ {{}})
    BY DEF SweeperTypeOK
  <2>2. QED
    BY <2>1
<1>2. CASE \E k \in DOMAIN asked : a \in asked[k]
  <2>1. (CHOOSE k \in DOMAIN asked : a \in asked[k]) \in DOMAIN asked
    BY <1>2
  <2>2. QED
    BY <1>1, <1>2, <2>1 DEF LastAsked
<1>3. CASE ~(\E k \in DOMAIN asked : a \in asked[k])
  BY <1>3 DEF LastAsked
<1>4. QED
  BY <1>2, <1>3

\* Everyone that is due has one place in the line.
LEMMA LineIs ==
  ASSUME SweeperTypeOK
  PROVE  /\ Line \in Seq(Waiting)
         /\ \A m, n \in DOMAIN Line : Line[m] = Line[n] => m = n
<1> DEFINE S == DOMAIN due
           R == {p \in S \X S : Sooner(p[1], p[2])}
           Rank(i) == Cardinality({j \in S : Sooner(j, i)})
           Pos(n) == CHOOSE i \in S : Rank(i) = n - 1
<1>1. /\ due \in Seq(Waiting) /\ S = 1..Len(due) /\ Len(due) \in Nat
      /\ \A i, j \in S : due[i] = due[j] => i = j
  BY DEF SweeperTypeOK, IsInjective
<1>2. IsFiniteSet(S) /\ Cardinality(S) = Len(due)
  <2> HIDE DEF S
  <2>1. 1 \in Int /\ Len(due) \in Int
    BY <1>1
  <2>2. IsFiniteSet(1..Len(due)) /\ Cardinality(1..Len(due)) = IF 1 > Len(due) THEN 0 ELSE Len(due) - 1 + 1
    BY <2>1, FS_Interval
  <2>3. QED
    BY <1>1, <2>2
<1>3. \A i \in S : LastAsked(due[i]) \in Nat /\ i \in Nat
  BY <1>1, LastAskedIs
<1> HIDE DEF S
<1>4. /\ \A i \in S : <<i, i>> \notin R
      /\ \A i, j, k \in S : <<i, j>> \in R /\ <<j, k>> \in R => <<i, k>> \in R
      /\ \A i, j \in S : i = j \/ <<i, j>> \in R \/ <<j, i>> \in R
  <2>1. \A i, j \in S : <<i, j>> \in R <=> Sooner(i, j)
    OBVIOUS
  <2> HIDE DEF R
  <2>2. QED
    BY <1>3, <2>1 DEF Sooner
<1>5. \A i \in S : {k \in S : <<k, i>> \in R} = {k \in S : Sooner(k, i)}
  OBVIOUS
<1> HIDE DEF R
<1>6. \A n \in 1..Cardinality(S) : \E i \in S : Cardinality({k \in S : <<k, i>> \in R}) = n - 1
  BY <1>2, <1>4, Ranks
<1>7. \A n \in 1..Len(due) : \E i \in S : Rank(i) = n - 1
  BY <1>2, <1>5, <1>6
<1> HIDE DEF Rank
<1>8. \A n \in 1..Len(due) : Pos(n) \in S /\ Rank(Pos(n)) = n - 1
  BY <1>7
<1>9. Line = [n \in 1..Len(due) |-> due[Pos(n)]]
  BY <1>1 DEF Line, Rank, S
<1> HIDE DEF Pos
<1>10. Line \in [1..Len(due) -> Waiting]
  BY <1>1, <1>8, <1>9
<1>11. Line \in Seq(Waiting)
  BY <1>1, <1>10
<1>12. \A m, n \in 1..Len(due) : Line[m] = Line[n] => m = n
  <2> SUFFICES ASSUME NEW m \in 1..Len(due), NEW n \in 1..Len(due), Line[m] = Line[n]
               PROVE  m = n
    OBVIOUS
  <2>1. Pos(m) = Pos(n)
    BY <1>1, <1>8, <1>9
  <2>2. m - 1 = n - 1
    BY <1>8, <2>1
  <2>3. QED
    BY <1>1, <2>2
<1>13. QED
  BY <1>10, <1>11, <1>12

LEMMA BatchIs ==
  ASSUME SweeperTypeOK
  PROVE  /\ FirstOf(Line) \in Seq(Waiting) /\ Len(FirstOf(Line)) <= BatchSize
         /\ \A m, n \in DOMAIN FirstOf(Line) : FirstOf(Line)[m] = FirstOf(Line)[n] => m = n
<1>1. Line \in Seq(Waiting) /\ \A m, n \in DOMAIN Line : Line[m] = Line[n] => m = n
  BY LineIs
<1> DEFINE line == Line
           k == IF Len(line) < BatchSize THEN Len(line) ELSE BatchSize
<1> HIDE DEF line
<1>2. /\ line \in Seq(Waiting) /\ Len(line) \in Nat /\ DOMAIN line = 1..Len(line)
      /\ \A m, n \in DOMAIN line : line[m] = line[n] => m = n
  BY <1>1 DEF line
<1>3. k \in Nat /\ k <= Len(line) /\ k <= BatchSize
  BY <1>2, Known
<1> HIDE DEF k
<1>4. /\ SubSeq(line, 1, k) \in Seq(Waiting) /\ Len(SubSeq(line, 1, k)) = k
      /\ \A i \in 1..k : SubSeq(line, 1, k)[i] = line[i]
  BY <1>2, <1>3
<1>5. DOMAIN SubSeq(line, 1, k) = 1..k /\ 1..k \subseteq DOMAIN line
  BY <1>2, <1>3, <1>4
<1>6. FirstOf(Line) = SubSeq(line, 1, k)
  BY DEF FirstOf, line, k
<1>7. QED
  BY <1>2, <1>3, <1>4, <1>5, <1>6

-----------------------------------------------------------------------------
(* What is written.                                                        *)

LEMMA WriteIs ==
  ASSUME SweeperTypeOK, NEW new \in [Files -> FileStatuses], NEW touched,
         \A a \in Waiting \ touched : new[a] \in InFlight,
         Write(new, touched)
  PROVE  file' \in [Files -> FileStatuses] /\ due' \in Seq(Waiting') /\ IsInjective(due')
<1> DEFINE P == {i \in DOMAIN due : due[i] \notin touched}
<1>1. due \in Seq(Waiting) /\ \A i, j \in DOMAIN due : due[i] = due[j] => i = j
  BY DEF SweeperTypeOK, IsInjective
<1>2. file' = new /\ due' = Kept(due, P) /\ P \in SUBSET DOMAIN due
  BY DEF Write
<1>3. \A i \in P : due[i] \in Waiting \ touched
  BY <1>1
<1> HIDE DEF P
<1>4. /\ due' \in Seq(Waiting)
      /\ \A n \in DOMAIN due' : \E i \in P : due'[n] = due[i]
  BY <1>1, <1>2, KeptFrom
<1>5. \A n \in DOMAIN due' : due'[n] \in Waiting'
  BY <1>2, <1>3, <1>4 DEF Waiting
<1>6. due' \in Seq(Waiting')
  BY <1>4, <1>5
<1>7. IsInjective(due')
  BY <1>1, <1>2, KeptDistinct DEF IsInjective
<1>8. QED
  BY <1>2, <1>6, <1>7

LEMMA OnlyWaitingIs ==
  ASSUME NEW sets, NEW n \in Nat, DOMAIN sets = 1..n
  PROVE  OnlyWaiting(sets) \in Seq((SUBSET Waiting') \ {{}})
<1> DEFINE left == [i \in DOMAIN sets |-> sets[i] \cap {a \in Files : file'[a] \in InFlight}]
           P == {i \in DOMAIN left : left[i] # {}}
           W == {a \in Files : file'[a] \in InFlight}
<1>1. W = Waiting'
  BY DEF Waiting
<1>2. left \in [1..n -> SUBSET W]
  OBVIOUS
<1>3. \A i \in P : left[i] # {}
  OBVIOUS
<1>4. OnlyWaiting(sets) = Kept(left, P)
  BY DEF OnlyWaiting
<1>5. P \in SUBSET DOMAIN left
  OBVIOUS
<1> HIDE DEF left, P, W
<1>6. left \in Seq(SUBSET W)
  BY <1>2
<1>7. /\ Kept(left, P) \in Seq(SUBSET W)
      /\ \A m \in DOMAIN Kept(left, P) : \E i \in P : Kept(left, P)[m] = left[i]
  BY <1>5, <1>6, KeptFrom
<1>8. \A m \in DOMAIN Kept(left, P) : Kept(left, P)[m] \in (SUBSET W) \ {{}}
  BY <1>3, <1>7
<1>9. Kept(left, P) \in Seq((SUBSET W) \ {{}})
  BY <1>7, <1>8
<1>10. QED
  BY <1>1, <1>4, <1>9

-----------------------------------------------------------------------------
(* The steps.                                                              *)

ItemType == [id : Files, status : InFlight]
AnswerType == [id : Files, says : {"lost", "reviews", "concluded"}]

LEMMA SweepTyped ==
  ASSUME SweeperTypeOK
  PROVE  /\ sweep.todo \in Seq(ItemType) /\ sweep.told \in Seq(AnswerType)
         /\ sweep.at \in {"idle", "asking"}
         /\ Len(sweep.todo) \in Nat /\ Len(sweep.told) \in Nat
         /\ Len(sweep.todo) + Len(sweep.told) <= BatchSize
         /\ file \in [Files -> FileStatuses] /\ vendor \in [Files -> Answers]
<1>1. /\ sweep.todo \in Seq(ItemType) /\ sweep.told \in Seq(AnswerType)
      /\ sweep.at \in {"idle", "asking"}
      /\ Len(sweep.todo) + Len(sweep.told) <= BatchSize
      /\ file \in [Files -> FileStatuses] /\ vendor \in [Files -> Answers]
  BY DEF SweeperTypeOK, ItemType, AnswerType
<1>2. \A S : \A s \in Seq(S) : Len(s) \in Nat
  OBVIOUS
<1>3. Len(sweep.todo) \in Nat /\ Len(sweep.told) \in Nat
  BY <1>1, <1>2, Zenon
<1>4. QED
  BY <1>1, <1>3

\* A sweep that is idle, and one that was lost, asks and was told nothing.
LEMMA IdleSweep ==
  ASSUME sweep' = NoSweep
  PROVE  /\ AsksOnce'
         /\ sweep' \in [at : {"idle", "asking"}, todo : Seq([id : Files, status : InFlight]),
                        told : Seq([id : Files, says : {"lost", "reviews", "concluded"}])]
         /\ Len(sweep'.todo) + Len(sweep'.told) <= BatchSize
<1>1. sweep' = [at |-> "idle", todo |-> <<>>, told |-> <<>>]
  BY DEF NoSweep
<1>2. sweep'.todo = <<>> /\ sweep'.told = <<>>
  BY <1>1
<1>3. AsksOnce'
  BY <1>2 DEF AsksOnce
<1>4. sweep' \in [at : {"idle", "asking"}, todo : Seq([id : Files, status : InFlight]),
                  told : Seq([id : Files, says : {"lost", "reviews", "concluded"}])]
  BY <1>1
<1>5. Len(sweep'.todo) + Len(sweep'.told) <= BatchSize
  BY <1>2, Known
<1>6. QED
  BY <1>3, <1>4, <1>5

LEMMA SweeperInitTyped == SweeperInit => SweeperTypeOK /\ AsksOnce
<1> SUFFICES ASSUME SweeperInit PROVE SweeperTypeOK /\ AsksOnce
  OBVIOUS
<1>1. /\ file \in [Files -> FileStatuses] /\ vendor \in [Files -> Answers]
      /\ answers \in [Files -> 0..CloseAfter] /\ hourOld \subseteq Files
      /\ monthOld \in 0..Cardinality(Files)
  BY Known DEF SweeperInit, FileStatuses
<1>2. due \in Seq(Waiting) /\ asked \in Seq((SUBSET Waiting) \ {{}})
  BY DEF SweeperInit
<1>3. IsInjective(due)
  BY DEF SweeperInit, IsInjective
<1>4. sweep = [at |-> "idle", todo |-> <<>>, told |-> <<>>]
  BY DEF SweeperInit, NoSweep
<1>5. /\ sweep \in [at : {"idle", "asking"}, todo : Seq([id : Files, status : InFlight]),
                    told : Seq([id : Files, says : {"lost", "reviews", "concluded"}])]
      /\ sweep.todo = <<>> /\ sweep.told = <<>>
  BY <1>4
<1>6. Len(sweep.todo) + Len(sweep.told) <= BatchSize
  BY <1>5, Known
<1>7. QED
  BY <1>1, <1>2, <1>3, <1>5, <1>6 DEF SweeperTypeOK, AsksOnce

\* Around the sweep.
LEMMA AroundSweep ==
  ASSUME SweeperTypeOK, AsksOnce,
         \/ \E a \in Files :
              \/ RecordsSession(a) \/ WebhookApplies(a) \/ FallsDue(a)
              \/ \E kind \in Answers : VendorMoves(a, kind)
         \/ HourGoesBy \/ MonthGoesBy
  PROVE  SweeperTypeOK' /\ AsksOnce'
<1>1. sweep' = sweep
  BY DEF RecordsSession, WebhookApplies, FallsDue, VendorMoves, HourGoesBy, MonthGoesBy
<1>2. AsksOnce'
  BY <1>1 DEF AsksOnce
<1>3. ASSUME NEW a \in Files, RecordsSession(a)
      PROVE  SweeperTypeOK'
  <2> DEFINE new == [file EXCEPT ![a] = "submitted"]
  <2>1. new \in [Files -> FileStatuses] /\ new[a] \in InFlight
        /\ \A b \in Files : b # a => new[b] = file[b]
    BY DEF SweeperTypeOK, FileStatuses, InFlight
  <2>2. \A b \in Waiting \ {a} : new[b] \in InFlight
    BY <2>1 DEF Waiting
  <2>3. Write(new, {a}) /\ asked' = asked
    BY <1>3 DEF RecordsSession
  <2> HIDE DEF new
  <2>4. file' \in [Files -> FileStatuses] /\ due' \in Seq(Waiting') /\ IsInjective(due')
    BY <2>1, <2>2, <2>3, WriteIs
  <2>5. Waiting \subseteq Waiting'
    BY <2>1, <2>2, <2>3 DEF Write, Waiting
  <2>6. asked' \in Seq((SUBSET Waiting') \ {{}})
    <3>1. asked \in Seq((SUBSET Waiting) \ {{}})
      BY DEF SweeperTypeOK
    <3>2. \A k \in DOMAIN asked : asked[k] \in (SUBSET Waiting') \ {{}}
      BY <2>5, <3>1
    <3>3. QED
      BY <2>3, <3>1, <3>2
  <2>7. QED
    BY <1>1, <1>3, <2>4, <2>6 DEF SweeperTypeOK, RecordsSession
<1>4. ASSUME NEW a \in Files, WebhookApplies(a)
      PROVE  SweeperTypeOK'
  <2> DEFINE to == Target[vendor[a]]
             new == [file EXCEPT ![a] = to]
  <2>1. to \in FileStatuses
    BY <1>4 DEF WebhookApplies, Target, FileStatuses, InFlight
  <2>2. new \in [Files -> FileStatuses] /\ \A b \in Files : b # a => new[b] = file[b]
    BY <2>1 DEF SweeperTypeOK
  <2>3. \A b \in Waiting \ {a} : new[b] \in InFlight
    BY <2>2 DEF Waiting
  <2>4. Write(new, {a}) /\ asked' = OnlyWaiting(asked)
    BY <1>4 DEF WebhookApplies
  <2> HIDE DEF new, to
  <2>5. file' \in [Files -> FileStatuses] /\ due' \in Seq(Waiting') /\ IsInjective(due')
    BY <2>2, <2>3, <2>4, WriteIs
  <2>6. asked' \in Seq((SUBSET Waiting') \ {{}})
    <3>1. asked \in Seq((SUBSET Waiting) \ {{}})
      BY DEF SweeperTypeOK
    <3>2. Len(asked) \in Nat /\ DOMAIN asked = 1..Len(asked)
      BY <3>1
    <3>3. QED
      BY <2>4, <3>2, OnlyWaitingIs
  <2>7. QED
    BY <1>1, <1>4, <2>5, <2>6 DEF SweeperTypeOK, WebhookApplies
<1>5. ASSUME NEW a \in Files, FallsDue(a)
      PROVE  SweeperTypeOK'
  <2>1. /\ a \in Waiting /\ a \notin Range(due) /\ due' = Append(due, a)
        /\ file' = file
    BY <1>5 DEF FallsDue
  <2>2. due \in Seq(Waiting) /\ Waiting' = Waiting
        /\ \A i, j \in DOMAIN due : due[i] = due[j] => i = j
    BY <2>1 DEF SweeperTypeOK, Waiting, IsInjective
  <2>3. /\ due' \in Seq(Waiting') /\ DOMAIN due' = DOMAIN due \cup {Len(due) + 1}
        /\ due'[Len(due) + 1] = a /\ \A i \in DOMAIN due : due'[i] = due[i]
    BY <2>1, <2>2
  <2>4. \A i \in DOMAIN due : due[i] # a
    BY <2>1 DEF Range
  <2>5. IsInjective(due')
    BY <2>2, <2>3, <2>4 DEF IsInjective
  <2>6. QED
    BY <1>1, <1>5, <2>2, <2>3, <2>5 DEF SweeperTypeOK, FallsDue
<1>6. ASSUME NEW a \in Files, NEW kind \in Answers, VendorMoves(a, kind)
      PROVE  SweeperTypeOK'
  <2>1. vendor' \in [Files -> Answers]
    BY <1>6 DEF SweeperTypeOK, VendorMoves
  <2>2. Waiting' = Waiting
    BY <1>6 DEF VendorMoves, Waiting
  <2>3. QED
    BY <1>1, <1>6, <2>1, <2>2 DEF SweeperTypeOK, VendorMoves
<1>7. ASSUME HourGoesBy \/ MonthGoesBy
      PROVE  SweeperTypeOK'
  <2>1. Waiting' = Waiting
    BY <1>7 DEF HourGoesBy, MonthGoesBy, Waiting
  <2>2. hourOld' \subseteq Files
    BY <1>7 DEF HourGoesBy, MonthGoesBy, SweeperTypeOK
  <2>3. monthOld' \in 0..Cardinality(Files)
    <3> DEFINE N == Cardinality(Files)
    <3>1. N \in Nat
      BY Known
    <3> HIDE DEF N
    <3>2. monthOld \in 0..N /\ (monthOld' = monthOld \/ (monthOld < N /\ monthOld' = monthOld + 1))
      BY <1>7 DEF HourGoesBy, MonthGoesBy, SweeperTypeOK, N
    <3>3. monthOld' \in 0..N
      BY <3>1, <3>2
    <3>4. QED
      BY <3>3 DEF N
  <2>4. QED
    BY <1>1, <1>7, <2>1, <2>2, <2>3 DEF SweeperTypeOK, HourGoesBy, MonthGoesBy
<1>8. QED
  BY <1>2, <1>3, <1>4, <1>5, <1>6, <1>7

\* The sweep, up to its end.
LEMMA SweepAsking ==
  ASSUME SweeperTypeOK, AsksOnce,
         SweepStarts \/ SweepAsks \/ SweepRaises \/ SweepIsLost
  PROVE  SweeperTypeOK' /\ AsksOnce'
<1>1. /\ file' = file /\ vendor' = vendor /\ due' = due /\ asked' = asked
      /\ answers' = answers /\ hourOld' = hourOld /\ monthOld' = monthOld
  BY DEF SweepStarts, SweepAsks, SweepRaises, SweepIsLost
<1>2. Waiting' = Waiting
  BY <1>1 DEF Waiting
<1>3. ASSUME sweep' \in [at : {"idle", "asking"}, todo : Seq([id : Files, status : InFlight]),
                         told : Seq([id : Files, says : {"lost", "reviews", "concluded"}])],
             Len(sweep'.todo) + Len(sweep'.told) <= BatchSize
      PROVE  SweeperTypeOK'
  BY <1>1, <1>2, <1>3 DEF SweeperTypeOK
<1>4. CASE SweepRaises \/ SweepIsLost
  <2>1. sweep' = NoSweep
    BY <1>4 DEF SweepRaises, SweepIsLost
  <2>2. QED
    BY <1>3, <2>1, IdleSweep
<1>5. CASE SweepStarts
  <2> DEFINE first == FirstOf(Line)
             todo == [i \in DOMAIN first |-> [id |-> first[i], status |-> file[first[i]]]]
  <2>1. sweep' = [NoSweep EXCEPT !.at = "asking", !.todo = todo]
    BY <1>5 DEF SweepStarts
  <2>2. /\ first \in Seq(Waiting) /\ Len(first) <= BatchSize
        /\ \A m, n \in DOMAIN first : first[m] = first[n] => m = n
    BY BatchIs
  <2> HIDE DEF first
  <2>3. /\ DOMAIN first = 1..Len(first) /\ Len(first) \in Nat
        /\ \A i \in DOMAIN first : first[i] \in Files /\ file[first[i]] \in InFlight
    BY <2>2 DEF Waiting
  <2>4. todo \in [1..Len(first) -> [id : Files, status : InFlight]]
    BY <2>3
  <2>5. todo \in Seq([id : Files, status : InFlight]) /\ Len(todo) = Len(first)
    BY <2>3, <2>4
  <2>6. \A i, j \in DOMAIN todo : todo[i].id = todo[j].id => i = j
    BY <2>2
  <2> HIDE DEF todo
  <2>7. sweep' = [at |-> "asking", todo |-> todo, told |-> <<>>]
    BY <2>1 DEF NoSweep
  <2>8. sweep'.todo = todo /\ sweep'.told = <<>>
    BY <2>7
  <2>9. AsksOnce'
    BY <2>6, <2>8 DEF AsksOnce
  <2>10. sweep' \in [at : {"idle", "asking"}, todo : Seq([id : Files, status : InFlight]),
                     told : Seq([id : Files, says : {"lost", "reviews", "concluded"}])]
    BY <2>5, <2>7
  <2>11. Len(sweep'.todo) + Len(sweep'.told) <= BatchSize
    <3>1. Len(sweep'.told) = 0
      BY <2>8
    <3>2. Len(sweep'.todo) = Len(first)
      BY <2>5, <2>8
    <3>3. QED
      BY <2>2, <2>3, <3>1, <3>2
  <2>12. QED
    BY <1>3, <2>9, <2>10, <2>11
<1>6. CASE SweepAsks
  <2> DEFINE todo == sweep.todo
             item == Head(todo)
             answer == [id |-> item.id, says |-> vendor[item.id]]
             rest == Tail(todo)
             told == IF Matters(item) THEN Append(sweep.told, answer) ELSE sweep.told
  <2>1. /\ todo # <<>> /\ sweep' = [sweep EXCEPT !.todo = rest, !.told = told]
    BY <1>6 DEF SweepAsks
  <2>2. /\ todo \in Seq(ItemType) /\ sweep.told \in Seq(AnswerType)
        /\ sweep.at \in {"idle", "asking"}
        /\ Len(todo) + Len(sweep.told) <= BatchSize
        /\ Len(todo) \in Nat /\ Len(sweep.told) \in Nat
    BY SweepTyped
  <2>3. /\ item \in ItemType /\ item = todo[1] /\ 1 \in DOMAIN todo
    <3> HIDE DEF todo
    <3>1. QED
      BY <2>1, <2>2
  <2>4. Matters(item) => answer \in AnswerType
    BY <2>3 DEF Matters, Target, ItemType, AnswerType
  <2>5. /\ rest \in Seq(ItemType) /\ Len(rest) = Len(todo) - 1
        /\ \A i \in DOMAIN rest : i + 1 \in DOMAIN todo /\ rest[i] = todo[i + 1] /\ i + 1 # 1
    <3> HIDE DEF todo
    <3>1. QED
      BY <2>1, <2>2
  <2>6. /\ \A i, j \in DOMAIN todo : todo[i].id = todo[j].id => i = j
        /\ \A i, j \in DOMAIN sweep.told : sweep.told[i].id = sweep.told[j].id => i = j
        /\ \A i \in DOMAIN todo, j \in DOMAIN sweep.told : todo[i].id # sweep.told[j].id
    BY DEF AsksOnce
  <2> HIDE DEF todo
  <2>7. \A i \in DOMAIN rest : i \in Nat
    BY <2>5
  <2>8. \A i, j \in DOMAIN rest : rest[i].id = rest[j].id => i = j
    BY <2>5, <2>6, <2>7
  <2>9. \A i \in DOMAIN rest : rest[i].id # item.id
    BY <2>3, <2>5, <2>6
  <2> HIDE DEF rest, item
  <2>10. answer.id = item.id
    OBVIOUS
  <2> HIDE DEF answer
  <2>11. CASE Matters(item)
    <3>1. /\ told \in Seq(AnswerType) /\ Len(told) = Len(sweep.told) + 1
          /\ DOMAIN told = DOMAIN sweep.told \cup {Len(sweep.told) + 1}
          /\ told[Len(sweep.told) + 1] = answer
          /\ \A i \in DOMAIN sweep.told : told[i] = sweep.told[i]
      BY <2>2, <2>4, <2>11
    <3> HIDE DEF told
    <3>2. sweep'.todo = rest /\ sweep'.told = told /\ sweep'.at = sweep.at
      BY <2>1 DEF SweeperTypeOK
    <3>3. \A j \in DOMAIN sweep.told : sweep.told[j].id # item.id
      BY <2>3, <2>6
    <3>4. \A i, j \in DOMAIN told : told[i].id = told[j].id => i = j
      BY <2>6, <2>10, <3>1, <3>3
    <3>5. \A i \in DOMAIN rest, j \in DOMAIN told : rest[i].id # told[j].id
      BY <2>5, <2>6, <2>9, <2>10, <3>1
    <3>6. AsksOnce'
      BY <2>8, <3>2, <3>4, <3>5 DEF AsksOnce
    <3>7. Len(sweep'.todo) + Len(sweep'.told) <= BatchSize
      <4>1. Len(sweep'.todo) = Len(todo) - 1 /\ Len(sweep'.told) = Len(sweep.told) + 1
        BY <2>5, <3>1, <3>2
      <4>2. QED
        BY <2>2, <4>1
    <3>8. sweep' \in [at : {"idle", "asking"}, todo : Seq(ItemType), told : Seq(AnswerType)]
      BY <2>1, <2>5, <3>1 DEF SweeperTypeOK, ItemType, AnswerType
    <3>9. QED
      BY <1>3, <3>6, <3>7, <3>8 DEF ItemType, AnswerType
  <2>12. CASE ~Matters(item)
    <3>1. sweep'.todo = rest /\ sweep'.told = sweep.told /\ sweep'.at = sweep.at
      BY <2>1, <2>12 DEF SweeperTypeOK
    <3>2. AsksOnce'
      BY <2>5, <2>6, <2>8, <3>1 DEF AsksOnce
    <3>3. Len(sweep'.todo) + Len(sweep'.told) <= BatchSize
      <4>1. Len(sweep'.todo) = Len(todo) - 1 /\ sweep'.told = sweep.told
        BY <2>5, <3>1
      <4>2. \A m, n \in Nat : m + n <= BatchSize => m - 1 + n <= BatchSize
        BY Known
      <4>3. Len(todo) - 1 + Len(sweep.told) <= BatchSize
        BY <2>2, <4>2, Zenon
      <4>4. QED
        BY <4>1, <4>3
    <3>4. sweep' = [sweep EXCEPT !.todo = rest, !.told = sweep.told]
      BY <2>1, <2>12
    <3>5. sweep' \in [at : {"idle", "asking"}, todo : Seq(ItemType), told : Seq(AnswerType)]
      BY <2>5, <3>4 DEF SweeperTypeOK, ItemType, AnswerType
    <3>6. QED
      BY <1>3, <3>2, <3>3, <3>5 DEF ItemType, AnswerType
  <2>13. QED
    BY <2>11, <2>12
<1>7. QED
  BY <1>4, <1>5, <1>6

\* The answers of a sweep that commits: one of each application.
LEMMA AppliedIs ==
  ASSUME SweeperTypeOK, AsksOnce
  PROVE  /\ \A what : Told(what) \subseteq Files
         /\ \A a \in Applied : NewStatus(a) \in {"checking", "screening"}
<1>1. sweep.told \in Seq(AnswerType)
  BY SweepTyped
<1>2. \A i \in Range(sweep.told) : i \in AnswerType
  BY <1>1 DEF Range
<1>3. \A i, j \in Range(sweep.told) : i.id = j.id => i = j
  BY DEF AsksOnce, Range
<1>4. ASSUME NEW a \in Applied PROVE NewStatus(a) \in {"checking", "screening"}
  <2>1. PICK i \in Range(sweep.told) : i.id = a /\ i.says \in DOMAIN Target
    BY DEF Applied, Told
  <2>2. (CHOOSE j \in Range(sweep.told) : j.id = a) = i
    BY <1>3, <2>1
  <2>3. NewStatus(a) = Target[i.says]
    BY <2>2 DEF NewStatus
  <2>4. QED
    BY <2>1, <2>3 DEF Target
<1>5. QED
  BY <1>2, <1>4 DEF Told, AnswerType

LEMMA SweepCommitting ==
  ASSUME SweeperTypeOK, AsksOnce, SweepCommits
  PROVE  SweeperTypeOK' /\ AsksOnce'
<1> DEFINE disowned == Told({"lost"})
           closing == {a \in disowned \cap Waiting \cap hourOld : answers'[a] = CloseAfter}
           expiring == Abandoned
           new == [a \in Files |-> IF a \in closing THEN "verification_unavailable"
                                   ELSE IF a \in Applied THEN NewStatus(a)
                                   ELSE IF a \in expiring THEN "expired" ELSE file[a]]
           sets == Append([i \in DOMAIN asked |-> asked[i] \ disowned], disowned)
<1>1. /\ answers' = [a \in Files |-> IF a \in disowned /\ answers[a] < CloseAfter
                                      THEN answers[a] + 1 ELSE answers[a]]
      /\ Write(new, closing \cup Applied)
      /\ asked' = OnlyWaiting(sets)
      /\ sweep' = NoSweep /\ vendor' = vendor /\ hourOld' = hourOld /\ monthOld' = monthOld
  BY DEF SweepCommits
<1>2. /\ disowned \subseteq Files /\ \A a \in Applied : NewStatus(a) \in FileStatuses
  BY AppliedIs DEF FileStatuses, InFlight
<1>3. new \in [Files -> FileStatuses]
  BY <1>2 DEF SweeperTypeOK, FileStatuses
<1>4. \A a \in Waiting \ (closing \cup Applied) : new[a] \in InFlight
  <2>1. \A a \in Waiting : a \in Files /\ file[a] \in InFlight /\ a \notin expiring
    BY DEF Waiting, Abandoned, InFlight
  <2> HIDE DEF closing, expiring
  <2>2. QED
    BY <2>1
<1>5. answers' \in [Files -> 0..CloseAfter]
  <2>1. answers \in [Files -> 0..CloseAfter] /\ CloseAfter \in Nat
    BY Known DEF SweeperTypeOK
  <2>2. \A a \in Files : answers[a] < CloseAfter => answers[a] + 1 \in 0..CloseAfter
    BY <2>1
  <2> HIDE DEF disowned
  <2>3. QED
    BY <1>1, <2>1, <2>2
<1>6. Len(asked) + 1 \in Nat /\ DOMAIN sets = 1..(Len(asked) + 1)
  <2> DEFINE left == [i \in DOMAIN asked |-> asked[i] \ disowned]
  <2>1. asked \in Seq((SUBSET Waiting) \ {{}})
    BY DEF SweeperTypeOK
  <2>2. DOMAIN asked = 1..Len(asked) /\ Len(asked) \in Nat
        /\ \A i \in DOMAIN asked : asked[i] \subseteq Files
    BY <2>1 DEF Waiting
  <2>3. left \in [1..Len(asked) -> SUBSET Files]
    BY <2>2
  <2>4. left \in Seq(SUBSET Files) /\ Len(left) = Len(asked)
    BY <2>2, <2>3
  <2> HIDE DEF left, disowned
  <2>5. disowned \in SUBSET Files
    BY <1>2
  <2>6. Append(left, disowned) \in Seq(SUBSET Files)
        /\ Len(Append(left, disowned)) = Len(asked) + 1
    BY <2>4, <2>5
  <2>7. DOMAIN Append(left, disowned) = 1..(Len(asked) + 1)
    BY <2>6
  <2>8. QED
    BY <2>2, <2>7 DEF left
<1> HIDE DEF new, sets, closing, disowned
<1>7. file' \in [Files -> FileStatuses] /\ due' \in Seq(Waiting') /\ IsInjective(due')
  BY <1>1, <1>3, <1>4, WriteIs
<1>8. asked' \in Seq((SUBSET Waiting') \ {{}})
  BY <1>1, <1>6, OnlyWaitingIs
<1>9. QED
  BY <1>1, <1>5, <1>7, <1>8, IdleSweep DEF SweeperTypeOK

LEMMA SweeperTypedNext ==
  SweeperTypeOK /\ AsksOnce /\ [SweeperNext]_sweeperVars => SweeperTypeOK' /\ AsksOnce'
<1> SUFFICES ASSUME SweeperTypeOK, AsksOnce, [SweeperNext]_sweeperVars
             PROVE  SweeperTypeOK' /\ AsksOnce'
  OBVIOUS
<1>1. CASE UNCHANGED sweeperVars
  <2>1. Waiting' = Waiting
    BY <1>1 DEF sweeperVars, Waiting
  <2>2. QED
    BY <1>1, <2>1 DEF sweeperVars, SweeperTypeOK, AsksOnce
<1>2. CASE SweepStarts \/ SweepAsks \/ SweepRaises \/ SweepIsLost
  BY <1>2, SweepAsking
<1>3. CASE SweepCommits
  BY <1>3, SweepCommitting
<1>4. CASE \/ \E a \in Files :
                \/ RecordsSession(a) \/ WebhookApplies(a) \/ FallsDue(a)
                \/ \E kind \in Answers : VendorMoves(a, kind)
           \/ HourGoesBy \/ MonthGoesBy
  BY <1>4, AroundSweep
<1>5. QED
  BY <1>1, <1>2, <1>3, <1>4 DEF SweeperNext

\* A sweep asks about an application once and applies one answer to it at most, and no
\* more than a batch: what the queue of those that are due and the not-found answers on
\* record hold are applications that wait.
THEOREM SweepAsksOnce == SweeperSpec => [](SweeperTypeOK /\ AsksOnce)
BY SweeperInitTyped, SweeperTypedNext, PTL DEF SweeperSpec
=============================================================================
