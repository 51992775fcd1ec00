-------------------------- MODULE ListLoaderProofs --------------------------
(***************************************************************************)
(* What holds of ListLoader for any versions and any number of overlapping *)
(* runs, forced or not.                                                    *)
(***************************************************************************)
EXTENDS ListLoader, BoundedSets, TLAPS

-----------------------------------------------------------------------------
(* The inductive invariant.                                                *)

IdsBounded == \E n \in Nat : \A v \in Versions : ids[v] <= n

\* Exactly the runs inside the transaction hold the lock, so there is at most one.
LockHeld == \A l \in Loaders : loader[l].at = "copying" <=> lock = l

\* The id reserved under the lock stays above all committed ones.
IdIsNew ==
  \A l \in Loaders :
    loader[l].at = "copying" => \A v \in Versions : ids[v] < loader[l].id

BusyHasVersion ==
  \A l \in Loaders : loader[l].at # "idle" => loader[l].version \in Versions

IInv ==
  /\ TypeOK
  /\ IdsBounded
  /\ LockHeld
  /\ IdIsNew
  /\ BusyHasVersion
  /\ LoadIsAllOrNothing
  /\ SearchableIsComplete

LEMMA IInvInit == Init => IInv
<1> SUFFICES ASSUME Init PROVE IInv
  OBVIOUS
<1>1. TypeOK
  BY DEF Init, TypeOK, LoaderStates, Idle, Places
<1>2. IdsBounded
  BY DEF Init, IdsBounded
<1>3. LockHeld
  BY ListLoaderAssumption DEF Init, LockHeld, Idle
<1>4. IdIsNew /\ BusyHasVersion
  BY DEF Init, IdIsNew, BusyHasVersion, Idle
<1>5. LoadIsAllOrNothing /\ SearchableIsComplete
  BY DEF Init, LoadIsAllOrNothing, SearchableIsComplete
<1>6. QED
  BY <1>1, <1>2, <1>3, <1>4, <1>5 DEF IInv

\* max(id) is a number, and no committed id is above it.
LEMMA HighestIdIsHighest ==
  ASSUME TypeOK, IdsBounded, Versions # {}
  PROVE  HighestId \in Nat /\ \A v \in Versions : ids[v] <= HighestId
<1> DEFINE S == {ids[v] : v \in Versions}
<1>1. S \in SUBSET Nat /\ S # {}
  BY DEF TypeOK
<1>2. PICK n \in Nat : \A s \in S : s <= n
  BY DEF IdsBounded
<1> HIDE DEF S
<1>3. \E m \in S : \A s \in S : s <= m
  BY <1>1, <1>2, Greatest
<1>4. \E m \in {ids[v] : v \in Versions} : \A v \in Versions : ids[v] <= m
  BY <1>3 DEF S
<1>5. HighestId \in {ids[v] : v \in Versions} /\ \A v \in Versions : ids[v] <= HighestId
  BY <1>4 DEF HighestId
<1>6. QED
  BY <1>5 DEF TypeOK

\* A run that ends or dies, with nothing committed, gives up the lock it may hold.
LEMMA EndsEmpty ==
  ASSUME IInv, NEW l \in Loaders, Finish(l), Release(l),
         UNCHANGED <<snapshots, stamped, tables>>
  PROVE  IInv'
<1> USE DEF IInv, Finish, Release, tables
<1>1. TypeOK'
  BY DEF TypeOK, LoaderStates, Idle, Places
<1>2. IdsBounded'
  BY DEF IdsBounded
<1>3. LockHeld'
  BY ListLoaderAssumption DEF LockHeld, TypeOK, Idle
<1>4. IdIsNew' /\ BusyHasVersion'
  BY DEF IdIsNew, BusyHasVersion, TypeOK, Idle
<1>5. LoadIsAllOrNothing' /\ SearchableIsComplete'
  BY DEF LoadIsAllOrNothing, SearchableIsComplete
<1>6. QED
  BY <1>1, <1>2, <1>3, <1>4, <1>5

\* A run that moves on outside the transaction, taking off a stamp at most.
LEMMA MovesOn ==
  ASSUME IInv, NEW l \in Loaders, NEW at \in Places \ {"copying"}, Move(l, at),
         loader[l].at \notin {"idle", "copying"},
         stamped' \subseteq stamped, snapshots' \in Seq(Versions), UNCHANGED <<tables, lock>>
  PROVE  IInv'
<1> USE DEF IInv, Move, tables
<1>1. TypeOK'
  BY DEF TypeOK, LoaderStates
<1>2. IdsBounded'
  BY DEF IdsBounded
<1>3. LockHeld' /\ IdIsNew' /\ BusyHasVersion'
  BY DEF LockHeld, IdIsNew, BusyHasVersion, TypeOK
<1>4. LoadIsAllOrNothing' /\ SearchableIsComplete'
  BY DEF LoadIsAllOrNothing, SearchableIsComplete
<1>5. QED
  BY <1>1, <1>2, <1>3, <1>4

LEMMA BeginStep ==
  ASSUME IInv, NEW l \in Loaders, BeginLoad(l)
  PROVE  IInv'
<1> USE DEF IInv, BeginLoad, tables
<1>1. HighestId \in Nat /\ \A v \in Versions : ids[v] <= HighestId
  BY HighestIdIsHighest DEF BusyHasVersion
<1>2. TypeOK'
  <2>1. HighestId + 1 \in Nat /\ "copying" \in Places
    BY <1>1 DEF Places
  <2> HIDE DEF IInv
  <2>2. TypeOK
    BY DEF IInv
  <2>3. loader' \in [Loaders -> LoaderStates]
    <3>1. \A k \in Loaders : k # l => loader'[k] = loader[k]
      BY <2>2 DEF TypeOK
    <3>2. loader'[l] = [loader[l] EXCEPT !.at = "copying", !.id = HighestId + 1]
      BY <2>2 DEF TypeOK, LoaderStates
    <3>3. loader'[l] \in LoaderStates
      BY <2>1, <2>2, <3>2 DEF TypeOK, LoaderStates
    <3>4. loader' = [k \in Loaders |-> loader'[k]]
      BY <2>2 DEF TypeOK
    <3>5. QED
      BY <2>2, <3>1, <3>3, <3>4 DEF TypeOK
  <2>4. QED
    BY <2>2, <2>3 DEF TypeOK
<1>3. IdsBounded' /\ LoadIsAllOrNothing' /\ SearchableIsComplete'
  BY DEF IdsBounded, LoadIsAllOrNothing, SearchableIsComplete
<1>4. LockHeld'
  BY ListLoaderAssumption DEF LockHeld, TypeOK
<1>5. IdIsNew'
  BY <1>1 DEF IdIsNew, TypeOK
<1>6. BusyHasVersion'
  BY DEF BusyHasVersion, TypeOK
<1>7. QED
  BY <1>2, <1>3, <1>4, <1>5, <1>6

LEMMA StampStep ==
  ASSUME IInv, NEW l \in Loaders, StampAndCommit(l)
  PROVE  IInv'
<1> USE DEF IInv, StampAndCommit, Finish, Release
<1>1. loader[l].version \in Versions /\ loader[l].id \in Nat
  BY DEF BusyHasVersion, TypeOK, LoaderStates
<1>2. TypeOK'
  BY <1>1 DEF TypeOK, LoaderStates, Idle, Places, AllTables
<1>3. IdsBounded'
  <2>1. \A v \in Versions : ids'[v] <= loader[l].id
    BY <1>1 DEF IdIsNew, TypeOK
  <2>2. QED
    BY <1>1, <2>1 DEF IdsBounded
<1>4. LockHeld'
  BY ListLoaderAssumption DEF LockHeld, TypeOK, Idle
<1>5. IdIsNew'
  BY <1>4 DEF IdIsNew, LockHeld, TypeOK, Idle
<1>6. BusyHasVersion'
  BY DEF BusyHasVersion, TypeOK, Idle
<1>7. LoadIsAllOrNothing' /\ SearchableIsComplete'
  BY <1>1 DEF LoadIsAllOrNothing, SearchableIsComplete, TypeOK
<1>8. QED
  BY <1>2, <1>3, <1>4, <1>5, <1>6, <1>7

LEMMA IInvNext == IInv /\ [Next]_vars => IInv'
<1> SUFFICES ASSUME IInv, [Next]_vars PROVE IInv'
  OBVIOUS
<1>1. ASSUME NEW l \in Loaders, NEW v \in Versions, NEW f \in BOOLEAN, Start(l, v, f)
      PROVE  IInv'
  <2> USE DEF Start, IInv, tables
  <2>1. TypeOK'
    <3> DEFINE at == IF f THEN "forcing" ELSE "registering"
    <3>1. at \in Places
      BY DEF Places
    <3> HIDE DEF at
    <3>2. 0 \in 0..3 /\ 0 \in Nat
      OBVIOUS
    <3>3. [at |-> at, version |-> v, force |-> f, copied |-> 0, id |-> 0] \in LoaderStates
      BY <3>1, <3>2, Zenon DEF LoaderStates
    <3>4. QED
      BY <1>1, <3>3 DEF TypeOK, at
  <2>2. IdsBounded' /\ LoadIsAllOrNothing' /\ SearchableIsComplete'
    BY <1>1 DEF IdsBounded, LoadIsAllOrNothing, SearchableIsComplete
  <2>3. LockHeld' /\ IdIsNew' /\ BusyHasVersion'
    BY <1>1 DEF LockHeld, IdIsNew, BusyHasVersion, TypeOK, Idle
  <2>4. QED
    BY <2>1, <2>2, <2>3
<1>2. ASSUME NEW l \in Loaders, Unstamp(l)
      PROVE  IInv'
  BY <1>2, MovesOn DEF Unstamp, IInv, TypeOK, Places
<1>3. ASSUME NEW l \in Loaders, Register(l)
      PROVE  IInv'
  <2>1. snapshots' \in Seq(Versions)
    BY <1>3 DEF Register, IInv, TypeOK, BusyHasVersion
  <2>2. QED
    BY <1>3, <2>1, MovesOn DEF Register, Places
<1>4. ASSUME NEW l \in Loaders, FindLoaded(l)
      PROVE  IInv'
  <2>1. Release(l)
    BY <1>4 DEF FindLoaded, Release, IInv, LockHeld
  <2>2. QED
    BY <1>4, <2>1, EndsEmpty DEF FindLoaded
<1>5. ASSUME NEW l \in Loaders, FindMissing(l)
      PROVE  IInv'
  BY <1>5, MovesOn DEF FindMissing, IInv, TypeOK, Places
<1>6. ASSUME NEW l \in Loaders, BeginLoad(l)
      PROVE  IInv'
  BY <1>6, BeginStep
<1>7. ASSUME NEW l \in Loaders, Copy(l)
      PROVE  IInv'
  <2> USE DEF Copy, IInv, tables
  <2>1. TypeOK'
    <3>1. loader[l] \in LoaderStates /\ loader[l].copied + 1 \in 0..3
      <4>1. loader[l] \in LoaderStates
        BY DEF TypeOK
      <4>2. loader[l].copied \in 0..3 /\ loader[l].copied < 3
        BY <1>7, <4>1 DEF LoaderStates
      <4>3. QED
        BY <4>1, <4>2
    <3>2. [loader[l] EXCEPT !.copied = @ + 1] \in LoaderStates
      BY <3>1 DEF LoaderStates
    <3>3. QED
      BY <1>7, <3>2 DEF TypeOK
  <2>2. IdsBounded' /\ LoadIsAllOrNothing' /\ SearchableIsComplete'
    BY <1>7 DEF IdsBounded, LoadIsAllOrNothing, SearchableIsComplete
  <2>3. LockHeld' /\ IdIsNew' /\ BusyHasVersion'
    BY <1>7 DEF LockHeld, IdIsNew, BusyHasVersion, TypeOK
  <2>4. QED
    BY <2>1, <2>2, <2>3
<1>8. ASSUME NEW l \in Loaders, CopyRefused(l)
      PROVE  IInv'
  BY <1>8, EndsEmpty DEF CopyRefused
<1>9. ASSUME NEW l \in Loaders, StampAndCommit(l)
      PROVE  IInv'
  BY <1>9, StampStep
<1>10. ASSUME NEW l \in Loaders, Crash(l)
       PROVE  IInv'
  BY <1>10, EndsEmpty DEF Crash
<1>11. CASE UNCHANGED vars
  BY <1>11 DEF vars, IInv, TypeOK, IdsBounded, LockHeld, IdIsNew, BusyHasVersion,
               LoadIsAllOrNothing, SearchableIsComplete
<1>12. QED
  BY <1>1, <1>2, <1>3, <1>4, <1>5, <1>6, <1>7, <1>8, <1>9, <1>10, <1>11 DEF Next, Loader

LEMMA Invariance == Spec => []IInv
BY IInvInit, IInvNext, PTL DEF Spec

-----------------------------------------------------------------------------
(* What follows from it.                                                   *)

\* The loader's state keeps its type.
THEOREM TypeCorrect == Spec => []TypeOK
<1>1. IInv => TypeOK
  BY DEF IInv
<1>2. QED
  BY <1>1, Invariance, PTL

\* Screening never searches a part of a list: whatever loads overlap, die or are
\* forced, a stamped version has all its rows.
THEOREM ListsAreSearchedWhole == Spec => []SearchableIsComplete
<1>1. IInv => SearchableIsComplete
  BY DEF IInv
<1>2. QED
  BY <1>1, Invariance, PTL

\* A load that dies leaves nothing in the way of the next one.
THEOREM LoadsAreWhole == Spec => []LoadIsAllOrNothing
<1>1. IInv => LoadIsAllOrNothing
  BY DEF IInv
<1>2. QED
  BY <1>1, Invariance, PTL

\* Under the advisory lock an id block is never reserved twice.
THEOREM IdsDoNotCollide == Spec => []LoadsDoNotCollide
<1>1. IInv => LoadsDoNotCollide
  BY DEF IInv, LoadsDoNotCollide, SameId, IdIsNew, TypeOK
<1>2. QED
  BY <1>1, Invariance, PTL

\* A step that takes no stamp off and forgets no version never makes screening go
\* back to an older one.
LEMMA LongerListsAreNewer ==
  ASSUME TypeOK, TypeOK', LoadedLast \subseteq LoadedLast'
  PROVE  Active' >= Active
<1>1. /\ LoadedLast \in SUBSET Nat /\ LoadedLast' \in SUBSET Nat
      /\ \A i \in LoadedLast : i > 0 /\ i <= Len(snapshots)
      /\ \A i \in LoadedLast' : i > 0 /\ i <= Len(snapshots')
      /\ Len(snapshots) \in Nat /\ Len(snapshots') \in Nat
  BY DEF LoadedLast, TypeOK
<1>2. ASSUME LoadedLast' # {}
      PROVE  Active' \in LoadedLast' /\ \A j \in LoadedLast' : j <= Active'
  BY <1>1, <1>2, ChosenGreatest DEF Active
<1>3. CASE LoadedLast = {}
  <2>1. Active = 0
    BY <1>3 DEF Active
  <2>2. CASE LoadedLast' = {}
    BY <2>1, <2>2 DEF Active
  <2>3. CASE LoadedLast' # {}
    <3>1. Active' \in LoadedLast'
      BY <1>2, <2>3
    <3>2. Active' \in Nat
      BY <1>1, <3>1
    <3>3. QED
      BY <2>1, <3>2
  <2>4. QED
    BY <2>2, <2>3
<1>4. CASE LoadedLast # {}
  <2>1. Active \in LoadedLast
    BY <1>1, <1>4, ChosenGreatest DEF Active
  <2>2. QED
    BY <1>1, <1>2, <1>4, <2>1
<1>5. QED
  BY <1>3, <1>4

\* Screening never goes back to an older version, unless a load is forced.
THEOREM ListsMoveForward == Spec => ActiveNeverOlder
<1>1. ASSUME IInv, IInv', [Next]_vars
      PROVE  [(\E l \in Loaders : Unstamp(l)) \/ Active' >= Active]_vars
  <2> SUFFICES ASSUME Next, ~ \E l \in Loaders : Unstamp(l)
               PROVE  Active' >= Active
    BY <1>1
  <2>1. PICK l \in Loaders : Loader(l)
    BY DEF Next
  <2>2. stamped \subseteq stamped'
    BY <2>1 DEF Loader, Start, Register, FindLoaded, FindMissing, BeginLoad, Copy,
                CopyRefused, StampAndCommit, Crash
  <2>3. snapshots' = snapshots \/ \E v \in Versions : snapshots' = Append(snapshots, v)
    BY <1>1, <2>1 DEF Loader, Start, Register, FindLoaded, FindMissing, BeginLoad, Copy,
                      CopyRefused, StampAndCommit, Crash, IInv, BusyHasVersion
  <2>4. LoadedLast \subseteq LoadedLast'
    <3>1. snapshots \in Seq(Versions)
      BY <1>1 DEF IInv, TypeOK
    <3>2. \A i \in DOMAIN snapshots : i \in DOMAIN snapshots' /\ snapshots'[i] = snapshots[i]
      BY <2>3, <3>1
    <3>3. QED
      BY <2>2, <3>2 DEF LoadedLast
  <2>5. QED
    BY <1>1, <2>4, LongerListsAreNewer DEF IInv
<1>2. QED
  BY <1>1, Invariance, PTL DEF Spec, ActiveNeverOlder
=============================================================================
