----------------------------- MODULE ListLoader -----------------------------
(***************************************************************************)
(* Loading the versions of one sanctions list into Postgres, by several    *)
(* runs of load_sanctions.py that may overlap and die, and the version a   *)
(* screening then takes.                                                   *)
(*                                                                         *)
(* The connection is in autocommit: forcing, registering and checking are  *)
(* statements that commit by themselves; what follows is one transaction   *)
(* under an advisory lock, whose rows nobody sees before it commits.       *)
(***************************************************************************)
EXTENDS Naturals, Sequences

CONSTANTS
  Versions,   \* contents of the list, each known by its hash
  Loaders,    \* runs of the loader that may be under way at once
  MayForce,   \* is --force used?
  None        \* no version, no loader

ASSUME ListLoaderAssumption == None \notin Versions \cup Loaders /\ MayForce \in BOOLEAN

\* The tables of a list, in the order they are copied.
Tables == <<"entries", "names", "tokens">>
AllTables == {"entries", "names", "tokens"}

VARIABLES
  snapshots,  \* the registered versions in the order of downloaded_at
  stamped,    \* the ones whose entries_loaded_at is set
  rows,       \* the tables that hold rows of each version
  ids,        \* the id of the version's entries (one entry stands for all), 0 if none
  lock,       \* the holder of advisory lock 4291
  loader      \* the runs of the loader

vars == <<snapshots, stamped, rows, ids, lock, loader>>
tables == <<rows, ids>>

Places == {"idle", "forcing", "registering", "checking", "locking", "copying"}
Idle == [at |-> "idle", version |-> None, force |-> FALSE, copied |-> 0, id |-> 0]

LoaderStates == [at : Places, version : Versions \cup {None}, force : BOOLEAN,
                 copied : 0..3, id : Nat]

TypeOK ==
  /\ snapshots \in Seq(Versions)
  /\ stamped \subseteq Versions
  /\ rows \in [Versions -> SUBSET AllTables]
  /\ ids \in [Versions -> Nat]
  /\ lock \in Loaders \cup {None}
  /\ loader \in [Loaders -> LoaderStates]

Init ==
  /\ snapshots = <<>> /\ stamped = {}
  /\ rows = [v \in Versions |-> {}] /\ ids = [v \in Versions |-> 0]
  /\ lock = None
  /\ loader = [l \in Loaders |-> Idle]

Move(l, at) == loader' = [loader EXCEPT ![l].at = at]
Finish(l) == loader' = [loader EXCEPT ![l] = Idle]
Release(l) == lock' = IF lock = l THEN None ELSE lock
Registered(v) == \E i \in DOMAIN snapshots : snapshots[i] = v

\* An operator runs load_sanctions.py, with or without --force.
Start(l, v, force) ==
  /\ loader[l].at = "idle"
  /\ force => MayForce
  /\ loader' = [loader EXCEPT ![l] =
                   [at |-> IF force THEN "forcing" ELSE "registering",
                    version |-> v, force |-> force, copied |-> 0, id |-> 0]]
  /\ UNCHANGED <<snapshots, stamped, tables, lock>>

\* --force: the stamp is taken off, if the version is registered at all.
Unstamp(l) ==
  /\ loader[l].at = "forcing"
  /\ stamped' = stamped \ {loader[l].version}
  /\ Move(l, "registering")
  /\ UNCHANGED <<snapshots, tables, lock>>

\* ensure_snapshot: identical content is the snapshot it was before.
Register(l) ==
  /\ loader[l].at = "registering"
  /\ snapshots' = IF Registered(loader[l].version) THEN snapshots
                  ELSE Append(snapshots, loader[l].version)
  /\ Move(l, "checking")
  /\ UNCHANGED <<stamped, tables, lock>>

\* "already loaded - nothing to write".
FindLoaded(l) ==
  /\ loader[l].at = "checking" /\ loader[l].version \in stamped
  /\ Finish(l)
  /\ UNCHANGED <<snapshots, stamped, tables, lock>>

FindMissing(l) ==
  /\ loader[l].at = "checking" /\ loader[l].version \notin stamped
  /\ Move(l, "locking")
  /\ UNCHANGED <<snapshots, stamped, tables, lock>>

\* The transaction begins: the lock, then the highest id that is committed.
HighestId == CHOOSE n \in {ids[v] : v \in Versions} : \A v \in Versions : ids[v] <= n

BeginLoadUnlocked(l) ==  \* (mutant: no advisory lock)
  /\ loader[l].at = "locking"
  /\ lock' = l
  /\ loader' = [loader EXCEPT ![l].at = "copying", ![l].id = HighestId + 1]
  /\ UNCHANGED <<snapshots, stamped, tables>>
BeginLoad(l) ==
  /\ loader[l].at = "locking"
  /\ lock = None
  /\ lock' = l
  /\ loader' = [loader EXCEPT ![l].at = "copying", ![l].id = HighestId + 1]
  /\ UNCHANGED <<snapshots, stamped, tables>>

\* sanctions_entries: the primary key, and (snapshot_id, entity_id) is unique.
SameEntries(l) == "entries" \in rows[loader[l].version]
SameId(l) == \E v \in Versions : ids[v] = loader[l].id

\* The next COPY; its rows belong to the transaction.
CopyAtOnce(l) ==  \* (mutant: every COPY commits by itself)
  /\ loader[l].at = "copying" /\ loader[l].copied < 3
  /\ loader[l].copied = 0 => ~SameEntries(l) /\ ~SameId(l)
  /\ loader' = [loader EXCEPT ![l].copied = @ + 1]
  /\ rows' = [rows EXCEPT ![loader[l].version] = @ \cup {Tables[loader[l].copied + 1]}]
  /\ ids' = [ids EXCEPT ![loader[l].version] = loader[l].id]
  /\ UNCHANGED <<snapshots, stamped, lock>>
CopyOn(l) ==  \* (mutant: the last COPY is repeated)
  /\ loader[l].at = "copying"
  /\ loader[l].copied = 0 => ~SameEntries(l) /\ ~SameId(l)
  /\ loader' = [loader EXCEPT ![l].copied = @ + 1]
  /\ UNCHANGED <<snapshots, stamped, tables, lock>>
Copy(l) ==
  /\ loader[l].at = "copying" /\ loader[l].copied < 3
  /\ loader[l].copied = 0 => ~SameEntries(l) /\ ~SameId(l)
  /\ loader' = [loader EXCEPT ![l].copied = @ + 1]
  /\ UNCHANGED <<snapshots, stamped, tables, lock>>

\* A COPY into sanctions_entries breaks a constraint; the run ends with the error.
CopyRefused(l) ==
  /\ loader[l].at = "copying" /\ loader[l].copied = 0
  /\ SameEntries(l) \/ SameId(l)
  /\ Finish(l)
  /\ Release(l)
  /\ UNCHANGED <<snapshots, stamped, tables>>

\* The stamp goes on, and the transaction commits: rows, stamp and lock at once.
StampFirst(l) ==  \* (mutant: the stamp is committed before the rows are there)
  /\ loader[l].at = "copying"
  /\ stamped' = stamped \cup {loader[l].version}
  /\ rows' = [rows EXCEPT ![loader[l].version] =
                @ \cup {Tables[i] : i \in 1..loader[l].copied}]
  /\ ids' = [ids EXCEPT ![loader[l].version] = loader[l].id]
  /\ Finish(l)
  /\ Release(l)
  /\ UNCHANGED snapshots
StampAndCommit(l) ==
  /\ loader[l].at = "copying" /\ loader[l].copied = 3
  /\ stamped' = stamped \cup {loader[l].version}
  /\ rows' = [rows EXCEPT ![loader[l].version] = AllTables]
  /\ ids' = [ids EXCEPT ![loader[l].version] = loader[l].id]
  /\ Finish(l)
  /\ Release(l)
  /\ UNCHANGED snapshots

\* The run is killed or loses its connection; an open transaction is rolled back.
Crash(l) ==
  /\ loader[l].at # "idle"
  /\ Finish(l)
  /\ Release(l)
  /\ UNCHANGED <<snapshots, stamped, tables>>

\* active_snapshot: the position of the newest version that is stamped, 0 if none.
LoadedLast == {i \in DOMAIN snapshots : snapshots[i] \in stamped}
LatestLoad ==  \* (mutant: the newest rows, not the newest version)
  IF LoadedLast = {} THEN 0
  ELSE CHOOSE i \in LoadedLast : \A j \in LoadedLast : ids[snapshots[j]] <= ids[snapshots[i]]
Active == IF LoadedLast = {} THEN 0 ELSE CHOOSE i \in LoadedLast : \A j \in LoadedLast : j <= i

Loader(l) ==
  \/ \E v \in Versions, f \in BOOLEAN : Start(l, v, f)
  \/ Unstamp(l) \/ Register(l) \/ FindLoaded(l) \/ FindMissing(l)
  \/ BeginLoad(l) \/ Copy(l) \/ CopyRefused(l) \/ StampAndCommit(l) \/ Crash(l)

Next == \E l \in Loaders : Loader(l)

Spec == Init /\ [][Next]_vars

-----------------------------------------------------------------------------
(* Properties.                                                             *)

\* What screening may use is whole: a version that is stamped has all its rows in
\* all its tables, whatever loads died, overlapped or were forced (load_into_postgres:
\* "ORDER MATTERS"; the comment on entries_loaded_at in 019).
SearchableIsComplete == \A v \in stamped : rows[v] = AllTables

\* A load leaves all of a version behind or nothing, so that a run which died can be
\* repeated: no half of a list is in the way of the next attempt.
LoadIsAllOrNothing == \A v \in Versions : rows[v] \in {{}, AllTables}

\* Ids reserved from max(id) are never somebody else's: two loads that overlap do not
\* make each other fail, unless they load the same version.  (Why there is a lock.)
LoadsDoNotCollide ==
  \A l \in Loaders :
    loader[l].at = "copying" /\ loader[l].copied = 0 => ~SameId(l) \/ SameEntries(l)

\* Unless somebody forces a load, screening never goes back to an older version,
\* in whatever order versions are registered, loaded and finished.
ActiveNeverOlder == [][(\E l \in Loaders : Unstamp(l)) \/ Active' >= Active]_vars

\* load_sanctions.py, --force: "load even if this version is already marked loaded":
\* a forced load is not refused for the rows of the load before.
ForcedLoadSearchable ==
  \A l \in Loaders :
    loader[l].force /\ loader[l].at = "copying" /\ loader[l].copied = 0 => ~SameEntries(l)
=============================================================================
