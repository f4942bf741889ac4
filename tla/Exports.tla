-------------------------------- MODULE Exports --------------------------------
(***************************************************************************)
(* DatasetExporter (src/easy_dashboard/dataset_exporter.py): exports and the  *)
(* retention that removes old ones, on requests that share the index file    *)
(* and take no lock.  An export is a name; what it holds is in Captures      *)
(* (ValidSamples), the split of its samples and its size are left out.       *)
(* Threads change places at any instruction.  Between lines 213 and 222,     *)
(* where export() reads back what it has just set, only Python 3.9 does so.  *)
(***************************************************************************)
EXTENDS Integers, Sequences, FiniteSets

CONSTANTS
  Datasets,   \* export ids, in the order they are used
  Exporters,  \* request threads
  Keeps       \* what a request asks to keep

Null == 0  \* None, and the row it makes

ASSUME ExportsAssumption == Datasets \subseteq Nat \ {Null} /\ Keeps \subseteq Int

VARIABLES
  folders,   \* export folders
  archives,  \* ZIP files
  rows,      \* index.json: a row is the number of its export in `entered`,
             \* and the index lists the latest first
  last,      \* _last_export
  entered,   \* the exports in the order they entered the index
  mistaken,  \* those of them that another export's request entered
  task,      \* where each request is, the export it makes, the one it will
             \* enter, the rows it read, the ids it is to remove
  errands,   \* requests left to come
  slips      \* failures and crashes left to happen

exportVars == <<folders, archives, rows, last, entered, mistaken, task, errands, slips>>

NoTask == [at |-> "idle", dataset |-> 0, entry |-> 0, read |-> {}, gone |-> {}]

ExportsInit ==
  /\ folders = {} /\ archives = {} /\ rows = {} /\ last = Null
  /\ entered = <<>> /\ mistaken = {}
  /\ task = [x \in Exporters |-> NoTask]
  /\ errands \in Nat /\ slips \in Nat

\* A request gets a thread that is free, whichever it is.
Called(x) ==
  /\ errands > 0 /\ errands' = errands - 1
  /\ task[x] = NoTask /\ x = CHOOSE y \in Exporters : task[y] = NoTask

Then(x, there) == task' = [task EXCEPT ![x].at = there]
Done(x) == task' = [task EXCEPT ![x] = NoTask]

\* The first of these rows whose archive is there.
Latest(list) ==
  LET there == {n \in list : entered[n] \in archives}
  IN IF there = {} THEN Null ELSE entered[CHOOSE n \in there : \A k \in there : k <= n]

\* The rows above any that is null: a loop over the index raises at that one.
AboveNull(list) == {n \in list : \A k \in list : entered[k] = Null => k < n}

(***************************************************************************)
(* export()                                                                 *)
(***************************************************************************)
\* Ids that no export had.
Unused == Datasets \ (folders \cup {entered[n] : n \in 1..Len(entered)})

\* There is a valid sample; a folder with a new name gets the copies.
Export(x) ==
  /\ Called(x)
  /\ \E e \in Unused :
       /\ \A d \in Unused : e <= d
       /\ folders' = folders \cup {e}
       /\ task' = [task EXCEPT ![x].at = "zip", ![x].dataset = e]
  /\ UNCHANGED <<archives, rows, last, entered, mistaken, slips>>

Zip(x) ==
  /\ task[x].at = "zip"
  /\ archives' = archives \cup {task[x].dataset}
  /\ last' = task[x].dataset
  /\ Then(x, "load")
  /\ UNCHANGED <<folders, rows, entered, mistaken, errands, slips>>

\* The new row is what _last_export is by now: another export, or a retention,
\* may have set it since.
LoadLast(x) ==
  /\ task[x].at = "load"
  /\ task' = [task EXCEPT ![x].at = "read", ![x].entry = last]
  /\ UNCHANGED <<folders, archives, rows, last, entered, mistaken, errands, slips>>

\* A null row among those read raises.
ReadRows(x) ==
  /\ task[x].at = "read"
  /\ IF AboveNull(rows) = rows
     THEN task' = [task EXCEPT ![x].at = "write",
                     ![x].read = {n \in rows : entered[n] # task[x].dataset}]
     ELSE Done(x)
  /\ UNCHANGED <<folders, archives, rows, last, entered, mistaken, errands, slips>>

WriteRows(x) ==
  /\ task[x].at = "write"
  /\ rows' = task[x].read \cup {Len(entered) + 1}
  /\ entered' = Append(entered, task[x].entry)
  /\ mistaken' = IF task[x].entry = task[x].dataset THEN mistaken
                 ELSE mistaken \cup {task[x].entry}
  /\ Done(x)
  /\ UNCHANGED <<folders, archives, last, errands, slips>>

(***************************************************************************)
(* apply_retention()                                                        *)
(***************************************************************************)
Retain(x) ==
  /\ Called(x)
  /\ task' = [task EXCEPT ![x].at = "plan", ![x].read = rows]
  /\ UNCHANGED <<folders, archives, rows, last, entered, mistaken, slips>>

\* The number asked for, without a bound.
Kept_Any(n) == n

\* At least one.
Kept(n) == IF n < 1 THEN 1 ELSE n

\* retention_plan() reads the index once more; a null row it would remove
\* raises.
Plan(x) ==
  /\ task[x].at = "plan"
  /\ \E n \in Keeps :
       LET removable == {i \in rows : Cardinality({k \in rows : k > i}) >= Kept(n)}
       IN IF AboveNull(removable) = removable
          THEN task' = [task EXCEPT ![x].at = "delete", ![x].gone = {entered[i] : i \in removable}]
          ELSE Done(x)
  /\ UNCHANGED <<folders, archives, rows, last, entered, mistaken, errands, slips>>

Doomed(x) == {entered[n] : n \in AboveNull(task[x].read)} \cap task[x].gone

\* The archive of an export goes first, then its folder.
Delete(x) ==
  /\ task[x].at = "delete"
  /\ \/ \E e \in Doomed(x) \cap archives : archives' = archives \ {e} /\ UNCHANGED folders
     \/ \E e \in (Doomed(x) \cap folders) \ archives : folders' = folders \ {e} /\ UNCHANGED archives
  /\ UNCHANGED <<rows, last, entered, mistaken, task, errands, slips>>

KeepRows(x) ==
  /\ task[x].at = "delete" /\ Doomed(x) \cap (archives \cup folders) = {}
  /\ IF AboveNull(task[x].read) = task[x].read
     THEN /\ rows' = {n \in task[x].read : entered[n] \notin task[x].gone}
          /\ task' = [task EXCEPT ![x].at = "last", ![x].read = rows']
     ELSE Done(x) /\ UNCHANGED rows
  /\ UNCHANGED <<folders, archives, last, entered, mistaken, errands, slips>>

SetLast(x) ==
  /\ task[x].at = "last"
  /\ last' = Latest(task[x].read)
  /\ Done(x)
  /\ UNCHANGED <<folders, archives, rows, entered, mistaken, errands, slips>>

(***************************************************************************)
(* Failures                                                                 *)
(***************************************************************************)
\* Nothing is undone: a copy, an archive, a deletion or a write that fails
\* leaves what is there.
TaskFails(x) ==
  /\ task[x] # NoTask /\ slips > 0
  /\ slips' = slips - 1
  /\ Done(x)
  /\ UNCHANGED <<folders, archives, rows, last, entered, mistaken, errands>>

\* _load_latest_export() reads the index when the program starts again, which
\* it does not if a null row comes before the first archive.
RestartExports ==
  /\ slips > 0 /\ slips' = slips - 1
  /\ AboveNull(rows) = rows \/ Latest(AboveNull(rows)) # Null
  /\ task' = [x \in Exporters |-> NoTask]
  /\ last' = Latest(rows)
  /\ UNCHANGED <<folders, archives, rows, entered, mistaken, errands>>

ExportsNext ==
  \/ \E x \in Exporters :
       \/ Export(x) \/ Zip(x) \/ LoadLast(x) \/ ReadRows(x) \/ WriteRows(x) \/ Retain(x) \/ Plan(x)
       \/ Delete(x) \/ KeepRows(x) \/ SetLast(x) \/ TaskFails(x)
  \/ RestartExports

ExportsTypeOK ==
  /\ folders \subseteq Datasets /\ archives \subseteq Datasets
  /\ entered \in Seq(Datasets \cup {Null}) /\ rows \subseteq 1..Len(entered)
  /\ last \in Datasets \cup {Null} /\ mistaken \subseteq Datasets \cup {Null}
  /\ errands \in Nat /\ slips \in Nat

(***************************************************************************)
(* Properties                                                               *)
(***************************************************************************)
\* A retention removes "old" exports only (dataset_exporter.py, 242-271): an
\* export that entered the index has its archive, or one that entered after it
\* has, though the index is read twice by one retention and written over by
\* others and by exports, and rows get lost in between.  Not so for an export
\* that another one entered, which line 222 allows: two rows of one export are
\* removed together, the latest export with them.
OnlyOlderExportsGo ==
  \A i \in 1..Len(entered) :
    \E k \in i..Len(entered) : entered[k] \in archives \cup mistaken
=============================================================================
