------------------------------ MODULE Migration ------------------------------
(***************************************************************************)
(* Opening a database (common/database.cpp) of an older version: the       *)
(* updates of common/db/updates, one after the other.                      *)
(*                                                                         *)
(* sqlite_burrito's versioned_database is external: open() reads the       *)
(* version, and as long as it is not CURRENT_DB_VERSION calls db_update    *)
(* with it and then stores the next version.  SQLite is external too: a    *)
(* transaction takes effect as a whole or not at all, one at a time.  Any  *)
(* call may fail, any process may be killed, and several processes may     *)
(* open the file at once.                                                  *)
(***************************************************************************)
EXTENDS Integers, FiniteSetsExt, SequencesExt

CONSTANTS
  Openers,   \* the processes that open the file
  Contents,  \* what ocr_entries may hold: sequences of [frame, text]
  MaxFaults  \* bound on calls that fail and processes that are killed

CURRENT_DB_VERSION == 4

ASSUME MigrationAssumption ==
  /\ \A c \in Contents : c \in Seq([frame : Nat, text : {c[i].text : i \in DOMAIN c}])
  /\ MaxFaults \in Nat

VARIABLES
  entries,  \* the rows the file held at first (history)
  version,  \* metadata.version
  tables,   \* the tables, indices and columns there are
  ocr_entries,
  text_entries,          \* the texts; the id of a text is its place
  text_instances,        \* [text_entry_id, frame] records
  last_processed_frame,
  pc,
  from,     \* the version an opener updates from
  current_max,
  disturbed, \* openers that had a failure, or another opener beside them
  faults

data == <<ocr_entries, text_entries, text_instances, last_processed_frame>>
file == <<version, tables, data>>
vars == <<entries, file, pc, from, current_max, disturbed, faults>>

Objects == {"metadata", "ocr_entries", "indices", "last_processed_frame", "text_entries"}

Steps == {"new", "version", "update", "alter", "set_last", "drop", "vacuum",
          "set_version", "open", "failed", "killed"}

(* The steps of an opener that has the file open for an update.            *)
Updating == Steps \ {"new", "open", "failed", "killed"}

Frames(c) == {0} \cup {c[i].frame : i \in DOMAIN c}

TypeOK ==
  /\ entries \in Contents /\ ocr_entries \in {entries, <<>>}
  /\ version \in 0 .. CURRENT_DB_VERSION
  /\ tables \subseteq Objects
  /\ IsInjective(text_entries)
  /\ \A i \in DOMAIN text_instances :
       /\ text_instances[i].text_entry_id \in DOMAIN text_entries
       /\ text_instances[i].frame \in Frames(entries)
  /\ last_processed_frame \in Frames(entries)
  /\ pc \in [Openers -> Steps]
  /\ from \in [Openers -> 0 .. CURRENT_DB_VERSION]
  /\ current_max \in [Openers -> Frames(entries)]
  /\ disturbed \subseteq Openers
  /\ faults \in 0 .. MaxFaults

-----------------------------------------------------------------------------
(* What update_v3_safe does with a row: it becomes an instance of its      *)
(* text, which is inserted unless it is there.                             *)
AddEntry(new, row) ==
  LET texts == IF Contains(new.texts, row.text) THEN new.texts
               ELSE Append(new.texts, row.text)
      text_id == CHOOSE i \in DOMAIN texts : texts[i] = row.text
  IN  [texts |-> texts,
       instances |-> Append(new.instances, [text_entry_id |-> text_id, frame |-> row.frame])]

(* Mutant: every row takes the text that was inserted last. *)
Migrated_LastText(rows) ==
  LET new == FoldLeft(AddEntry, [texts |-> <<>>, instances |-> <<>>], rows)
  IN  [new EXCEPT !.instances =
        [i \in DOMAIN @ |-> [@[i] EXCEPT !.text_entry_id = Len(new.texts)]]]

Migrated(rows) == FoldLeft(AddEntry, [texts |-> <<>>, instances |-> <<>>], rows)

(* A file as an older program left it.  Version 0 is a new file.           *)
Init ==
  /\ entries \in Contents
  /\ version \in 0 .. CURRENT_DB_VERSION - 1
  /\ version = 0 => entries = <<>>
  /\ tables = UNION {IF version >= 1 THEN {"metadata", "ocr_entries"} ELSE {},
                     IF version >= 2 THEN {"indices"} ELSE {},
                     IF version >= 3 THEN {"last_processed_frame"} ELSE {}}
  /\ ocr_entries = entries /\ text_entries = <<>> /\ text_instances = <<>>
  /\ last_processed_frame = IF version >= 3 THEN Max(Frames(entries)) ELSE 0
  /\ pc = [p \in Openers |-> "new"]
  /\ from = [p \in Openers |-> 0]
  /\ current_max = [p \in Openers |-> 0]
  /\ disturbed = {}
  /\ faults = 0

-----------------------------------------------------------------------------
GoTo(p, step) == pc' = [pc EXCEPT ![p] = step]

Active == {p \in Openers : pc[p] \in Updating}

(* database::database: db_.open().                                         *)
Open(p) ==
  /\ pc[p] = "new"
  /\ GoTo(p, "version")
  /\ disturbed' = disturbed \cup (IF Active = {} THEN {} ELSE Active \cup {p})
  /\ UNCHANGED <<entries, file, from, current_max, faults>>

ReadVersion(p) ==
  /\ pc[p] = "version"
  /\ from' = [from EXCEPT ![p] = version]
  /\ GoTo(p, IF version = CURRENT_DB_VERSION THEN "open" ELSE "update")
  /\ UNCHANGED <<entries, file, current_max, disturbed, faults>>

(* The constructor throws; SQLite rolls an open transaction back.          *)
Refuse(p) ==
  /\ GoTo(p, "failed")
  /\ UNCHANGED <<entries, file, from, current_max, disturbed, faults>>

UpdateV0(p) ==
  /\ pc[p] = "update" /\ from[p] = 0
  /\ IF "metadata" \in tables
     THEN Refuse(p)
     ELSE /\ tables' = tables \cup {"metadata", "ocr_entries"}
          /\ version' = 0
          /\ GoTo(p, "set_version")
          /\ UNCHANGED <<entries, data, from, current_max, disturbed, faults>>

(* Mutant: CREATE INDEX IF NOT EXISTS. *)
UpdateV1_IfNotExists(p) ==
  /\ pc[p] = "update" /\ from[p] = 1
  /\ tables' = tables \cup {"indices"}
  /\ GoTo(p, "set_version")
  /\ UNCHANGED <<entries, version, data, from, current_max, disturbed, faults>>

UpdateV1(p) ==
  /\ pc[p] = "update" /\ from[p] = 1
  /\ IF "ocr_entries" \notin tables \/ "indices" \in tables
     THEN Refuse(p)
     ELSE /\ tables' = tables \cup {"indices"}
          /\ GoTo(p, "set_version")
          /\ UNCHANGED <<entries, version, data, from, current_max, disturbed, faults>>

(* update_v2: SELECT MAX(frame_num) of no rows is null, and keeps the 0.   *)
SelectMax(p) ==
  /\ pc[p] = "update" /\ from[p] = 2
  /\ IF "ocr_entries" \notin tables
     THEN Refuse(p)
     ELSE /\ current_max' = [current_max EXCEPT ![p] = Max(Frames(ocr_entries))]
          /\ GoTo(p, "alter")
          /\ UNCHANGED <<entries, file, from, disturbed, faults>>

AlterTable(p) ==
  /\ pc[p] = "alter"
  /\ IF "last_processed_frame" \in tables
     THEN Refuse(p)
     ELSE /\ tables' = tables \cup {"last_processed_frame"}
          /\ last_processed_frame' = 0
          /\ GoTo(p, "set_last")
          /\ UNCHANGED <<entries, version, ocr_entries, text_entries, text_instances,
                         from, current_max, disturbed, faults>>

(* Mutant: the update is forgotten. *)
SetLast_Not(p) ==
  /\ pc[p] = "set_last"
  /\ GoTo(p, "set_version")
  /\ UNCHANGED <<entries, file, from, current_max, disturbed, faults>>

SetLast(p) ==
  /\ pc[p] = "set_last"
  /\ last_processed_frame' = current_max[p]
  /\ GoTo(p, "set_version")
  /\ UNCHANGED <<entries, version, tables, ocr_entries, text_entries, text_instances,
                 from, current_max, disturbed, faults>>

(* update_v3_safe, in its transaction.                                     *)
CopyEntries(p) ==
  /\ pc[p] = "update" /\ from[p] = 3
  /\ IF "text_entries" \in tables \/ "ocr_entries" \notin tables
     THEN Refuse(p)
     ELSE /\ tables' = tables \cup {"text_entries"}
          /\ text_entries' = Migrated(ocr_entries).texts
          /\ text_instances' = Migrated(ocr_entries).instances
          /\ GoTo(p, "drop")
          /\ UNCHANGED <<entries, version, ocr_entries, last_processed_frame,
                         from, current_max, disturbed, faults>>

(* The rest of update_v3: the indices go with the table.                   *)
DropTable(p) ==
  /\ pc[p] = "drop"
  /\ IF "ocr_entries" \notin tables
     THEN Refuse(p)
     ELSE /\ tables' = tables \ {"ocr_entries", "indices"}
          /\ ocr_entries' = <<>>
          /\ GoTo(p, "vacuum")
          /\ UNCHANGED <<entries, version, text_entries, text_instances,
                         last_processed_frame, from, current_max, disturbed, faults>>

Vacuum(p) ==
  /\ pc[p] = "vacuum"
  /\ GoTo(p, "set_version")
  /\ UNCHANGED <<entries, file, from, current_max, disturbed, faults>>

(* db_update is done: open() stores the version and looks again.           *)
SetVersion(p) ==
  /\ pc[p] = "set_version"
  /\ version' = from[p] + 1
  /\ from' = [from EXCEPT ![p] = @ + 1]
  /\ GoTo(p, IF from[p] + 1 = CURRENT_DB_VERSION THEN "open" ELSE "update")
  /\ UNCHANGED <<entries, tables, data, current_max, disturbed, faults>>

(* A call fails: the disk is full, or another opener has the file locked.  *)
Fail(p) ==
  /\ pc[p] \in Updating /\ faults < MaxFaults
  /\ faults' = faults + 1
  /\ disturbed' = disturbed \cup {p}
  /\ GoTo(p, "failed")
  /\ UNCHANGED <<entries, file, from, current_max>>

Kill(p) ==
  /\ pc[p] \in Updating /\ faults < MaxFaults
  /\ faults' = faults + 1
  /\ disturbed' = disturbed \cup {p}
  /\ GoTo(p, "killed")
  /\ UNCHANGED <<entries, file, from, current_max>>

Update(p) ==
  \/ ReadVersion(p) \/ UpdateV0(p) \/ UpdateV1(p) \/ SelectMax(p) \/ AlterTable(p)
  \/ SetLast(p) \/ CopyEntries(p) \/ DropTable(p) \/ Vacuum(p) \/ SetVersion(p)

Finished == (\A p \in Openers : pc[p] \notin {"new"} \cup Updating) /\ UNCHANGED vars

Next ==
  \/ \E p \in Openers : Open(p) \/ Update(p) \/ Fail(p) \/ Kill(p)
  \/ Finished

Spec == Init /\ [][Next]_vars
-----------------------------------------------------------------------------
(* What find_text can find: instances joined with their texts.             *)
Joined ==
  [i \in DOMAIN text_instances |->
    [frame |-> text_instances[i].frame,
     text |-> text_entries[text_instances[i].text_entry_id]]]

AsBag(rows) == [row \in Range(rows) |-> Cardinality({i \in DOMAIN rows : rows[i] = row})]

(* No step loses a row, doubles one or gives it another text: at any time  *)
(* the old table or the new ones, or both, hold exactly the first rows.    *)
EntriesPreserved ==
  /\ "ocr_entries" \in tables => ocr_entries = entries
  /\ "text_entries" \in tables => AsBag(Joined) = AsBag(entries)
  /\ version >= 1 => tables \cap {"ocr_entries", "text_entries"} # {}

(* Whoever gets the database open finds the schema its statements are      *)
(* prepared for, and the resume point at the last frame of the old rows.   *)
OpenedIsCurrent ==
  \A p \in Openers : pc[p] = "open" =>
    /\ tables = {"metadata", "last_processed_frame", "text_entries"}
    /\ version = CURRENT_DB_VERSION
    /\ last_processed_frame = Max(Frames(entries))

(* The updates are not repeatable, and so each happens at most once,       *)
(* however many processes try: the version never goes back.                *)
VersionNeverDecreases == [][version' \in {version, version + 1}]_version

(* An opener that fails met a failure, another opener, or a file that a    *)
(* failure left between two versions.                                      *)
RefusedForAReason ==
  \A p \in Openers : pc[p] = "failed" => p \in disturbed \/ faults > 0
=============================================================================
