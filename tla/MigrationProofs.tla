--------------------------- MODULE MigrationProofs ---------------------------
(***************************************************************************)
(* Migration for any number of processes that open any file at once, with  *)
(* any failures and kills: no update happens twice, and whoever gets the   *)
(* database open finds the current schema, the resume point and every row. *)
(***************************************************************************)
EXTENDS Migration, WellFoundedInduction, TLAPS

(* An update cannot be repeated once its first statement was executed:     *)
(* what that statement makes is there, or what it needs is gone.           *)
Claimed(v) ==
  CASE v = 0 -> "metadata" \in tables
    [] v = 1 -> "indices" \in tables \/ "ocr_entries" \notin tables
    [] v = 2 -> "last_processed_frame" \in tables
    [] v = 3 -> "text_entries" \in tables \/ "ocr_entries" \notin tables
    [] OTHER -> TRUE

(* Between the first statement and the new version.                        *)
Claiming(p) == pc[p] \in {"set_last", "drop", "vacuum", "set_version"}

VersionType ==
  /\ version \in Nat
  /\ pc \in [Openers -> Steps]
  /\ from \in [Openers -> Nat]

(* The version an opener works from, by its place.                         *)
FromState ==
  \A p \in Openers :
    /\ from[p] <= version
    /\ pc[p] \in {"alter", "set_last"} => from[p] = 2
    /\ pc[p] \in {"drop", "vacuum"} => from[p] = 3

(* All updates below the version of the file are claimed, the next one is  *)
(* if an opener is in it, and there is one such opener.                    *)
ClaimState ==
  /\ \A v \in Nat : v < version => Claimed(v)
  /\ \A p \in Openers : Claiming(p) => from[p] = version /\ Claimed(version)
  /\ \A p, q \in Openers : Claiming(p) /\ Claiming(q) => p = q

VersionInv == VersionType /\ FromState /\ ClaimState

(* It holds of a file an older program left.                               *)
LEMMA VersionInit == Init => VersionInv
<1> SUFFICES ASSUME Init PROVE VersionInv
  OBVIOUS
<1>1. VersionType
  BY DEF Init, VersionType, Steps, CURRENT_DB_VERSION
<1>2. FromState
  BY DEF Init, FromState, CURRENT_DB_VERSION
<1>3. \A v \in Nat : v < version => Claimed(v)
  <2> SUFFICES ASSUME NEW v \in Nat, v < version PROVE Claimed(v)
    OBVIOUS
  <2>1. version \in 0 .. 3
    BY DEF Init, CURRENT_DB_VERSION
  <2>2. CASE v = 0
    BY <2>1, <2>2 DEF Init, Claimed
  <2>3. CASE v = 1
    BY <2>1, <2>3 DEF Init, Claimed
  <2>4. CASE v = 2
    BY <2>1, <2>4 DEF Init, Claimed
  <2> QED
    BY <2>1, <2>2, <2>3, <2>4
<1> QED
  BY <1>1, <1>2, <1>3 DEF Init, ClaimState, Claiming, VersionInv

(* What an opener may claim is the update after the version of the file,   *)
(* and nobody is in it.                                                    *)
LEMMA ClaimIsFree ==
  ASSUME VersionInv, NEW p \in Openers, ~ Claimed(from[p])
  PROVE  from[p] = version /\ \A q \in Openers : ~ Claiming(q)
BY DEF VersionInv, VersionType, FromState, ClaimState

(* A claim keeps the invariant.                                            *)
LEMMA ClaimKeeps ==
  ASSUME VersionInv, NEW p \in Openers, NEW step \in {"set_last", "drop", "set_version"},
         ~ Claimed(from[p]), Claimed(from[p])',
         tables \subseteq tables', "ocr_entries" \in tables' => "ocr_entries" \in tables \/ version = 0,
         version' = version, from' = from, pc' = [pc EXCEPT ![p] = step],
         step = "set_last" => from[p] = 2, step = "drop" => from[p] = 3
  PROVE  VersionInv'
<1>1. from[p] = version /\ \A q \in Openers : ~ Claiming(q)
  BY ClaimIsFree
<1>2. VersionType'
  BY DEF VersionInv, VersionType, Steps
<1>3. FromState'
  BY DEF VersionInv, VersionType, FromState, Steps
<1>4. \A q \in Openers : Claiming(q)' => q = p
  BY <1>1 DEF Claiming, VersionInv, VersionType
<1>5. \A v \in Nat : v < version' => Claimed(v)'
  BY <1>1 DEF VersionInv, VersionType, ClaimState, Claimed
<1>6. Claimed(version)'
  BY <1>1
<1> QED
  BY <1>1, <1>2, <1>3, <1>4, <1>5, <1>6 DEF VersionInv, ClaimState

(* A step that goes on without touching the file's version or what claims  *)
(* rest on.                                                                *)
LEMMA GoOnKeeps ==
  ASSUME VersionInv, NEW p \in Openers, NEW step \in Steps,
         version' = version, from' = from, pc' = [pc EXCEPT ![p] = step],
         \A v \in Nat : Claimed(v) => Claimed(v)',
         step \in {"set_last", "drop", "vacuum", "set_version"} => Claiming(p),
         step \in {"alter", "set_last"} => from[p] = 2,
         step \in {"drop", "vacuum"} => from[p] = 3
  PROVE  VersionInv'
<1>1. VersionType' /\ FromState'
  BY DEF VersionInv, VersionType, FromState
<1>2. \A q \in Openers : Claiming(q)' => Claiming(q)
  BY DEF VersionInv, VersionType, Claiming
<1> QED
  BY <1>1, <1>2 DEF VersionInv, VersionType, ClaimState

(* Every step of an opener keeps it.                                       *)
LEMMA VersionStep ==
  ASSUME VersionInv, NEW p \in Openers, Open(p) \/ Update(p) \/ Fail(p) \/ Kill(p)
  PROVE  VersionInv'
<1> USE DEF GoTo, file, data
<1>1. tables' = tables => \A v \in Nat : Claimed(v) => Claimed(v)'
  BY DEF Claimed
<1>2. ASSUME Refuse(p) PROVE VersionInv'
  BY <1>1, <1>2, GoOnKeeps DEF Refuse, Steps
<1>3. CASE Open(p)
  BY <1>1, <1>3, GoOnKeeps DEF Open, Steps
<1>4. CASE Fail(p)
  BY <1>1, <1>4, GoOnKeeps DEF Fail, Steps
<1>5. CASE Kill(p)
  BY <1>1, <1>5, GoOnKeeps DEF Kill, Steps
<1>6. CASE ReadVersion(p)
  <2>1. UNCHANGED <<version, tables>> /\ VersionType' /\ FromState'
    BY <1>6 DEF ReadVersion, VersionInv, VersionType, FromState, Steps
  <2>2. ~ Claiming(p)' /\ \A q \in Openers \ {p} : Claiming(q)' => Claiming(q) /\ from'[q] = from[q]
    BY <1>6 DEF ReadVersion, Claiming, VersionInv, VersionType
  <2> QED
    BY <1>1, <2>1, <2>2 DEF VersionInv, VersionType, ClaimState
<1>7. CASE UpdateV0(p)
  <2>1. CASE "metadata" \in tables
    BY <1>2, <1>7, <2>1 DEF UpdateV0
  <2>2. CASE "metadata" \notin tables
    <3>1. ~ Claimed(from[p]) /\ Claimed(from[p])'
      BY <1>7, <2>2 DEF UpdateV0, Claimed
    <3>2. version = 0 /\ version' = version
      BY <1>7, <2>2, <3>1, ClaimIsFree DEF UpdateV0
    <3> QED
      BY <1>7, <2>2, <3>1, <3>2, ClaimKeeps DEF UpdateV0
  <2> QED
    BY <2>1, <2>2
<1>8. CASE UpdateV1(p)
  <2>1. CASE "ocr_entries" \notin tables \/ "indices" \in tables
    BY <1>2, <1>8, <2>1 DEF UpdateV1
  <2>2. CASE ~ ("ocr_entries" \notin tables \/ "indices" \in tables)
    <3>1. ~ Claimed(from[p]) /\ Claimed(from[p])'
      BY <1>8, <2>2 DEF UpdateV1, Claimed
    <3> QED
      BY <1>8, <2>2, <3>1, ClaimKeeps DEF UpdateV1
  <2> QED
    BY <2>1, <2>2
<1>9. CASE SelectMax(p)
  <2>1. CASE "ocr_entries" \notin tables
    BY <1>2, <1>9, <2>1 DEF SelectMax
  <2>2. CASE "ocr_entries" \in tables
    BY <1>1, <1>9, <2>2, GoOnKeeps DEF SelectMax, Steps
  <2> QED
    BY <2>1, <2>2
<1>10. CASE AlterTable(p)
  <2>1. CASE "last_processed_frame" \in tables
    BY <1>2, <1>10, <2>1 DEF AlterTable
  <2>2. CASE "last_processed_frame" \notin tables
    <3>1. from[p] = 2
      BY <1>10 DEF AlterTable, VersionInv, FromState
    <3>2. ~ Claimed(from[p]) /\ Claimed(from[p])'
      BY <1>10, <2>2, <3>1 DEF AlterTable, Claimed
    <3> QED
      BY <1>10, <2>2, <3>1, <3>2, ClaimKeeps DEF AlterTable
  <2> QED
    BY <2>1, <2>2
<1>11. CASE SetLast(p)
  BY <1>1, <1>11, GoOnKeeps DEF SetLast, Steps, Claiming
<1>12. CASE CopyEntries(p)
  <2>1. CASE "text_entries" \in tables \/ "ocr_entries" \notin tables
    BY <1>2, <1>12, <2>1 DEF CopyEntries
  <2>2. CASE ~ ("text_entries" \in tables \/ "ocr_entries" \notin tables)
    <3>1. ~ Claimed(from[p]) /\ Claimed(from[p])'
      BY <1>12, <2>2 DEF CopyEntries, Claimed
    <3> QED
      BY <1>12, <2>2, <3>1, ClaimKeeps DEF CopyEntries
  <2> QED
    BY <2>1, <2>2
<1>13. CASE DropTable(p)
  <2>1. CASE "ocr_entries" \notin tables
    BY <1>2, <1>13, <2>1 DEF DropTable
  <2>2. CASE "ocr_entries" \in tables
    <3>1. \A v \in Nat : Claimed(v) => Claimed(v)'
      BY <1>13, <2>2 DEF DropTable, Claimed
    <3>2. from[p] = 3 /\ Claiming(p)
      BY <1>13 DEF DropTable, Claiming, VersionInv, FromState
    <3> QED
      BY <1>13, <2>2, <3>1, <3>2, GoOnKeeps DEF DropTable, Steps
  <2> QED
    BY <2>1, <2>2
<1>14. CASE Vacuum(p)
  BY <1>1, <1>14, GoOnKeeps DEF Vacuum, Steps, Claiming
<1>15. CASE SetVersion(p)
  <2>1. from[p] = version /\ Claimed(version) /\ version \in Nat /\ \A q \in Openers \ {p} : ~ Claiming(q)
    BY <1>15 DEF SetVersion, Claiming, VersionInv, VersionType, ClaimState
  <2>2. version' = version + 1 /\ tables' = tables /\ from' = [from EXCEPT ![p] = version + 1]
    BY <1>15, <2>1 DEF SetVersion, VersionInv, VersionType
  <2>3. VersionType'
    BY <1>15, <2>1, <2>2 DEF SetVersion, VersionInv, VersionType, Steps
  <2>4. FromState'
    BY <1>15, <2>1, <2>2 DEF SetVersion, VersionInv, VersionType, FromState
  <2>5. \A q \in Openers : ~ Claiming(q)'
    BY <1>15, <2>1 DEF SetVersion, Claiming, VersionInv, VersionType
  <2>6. \A v \in Nat : v < version' => Claimed(v)'
    BY <1>1, <2>1, <2>2 DEF VersionInv, ClaimState
  <2> QED
    BY <2>3, <2>4, <2>5, <2>6 DEF VersionInv, ClaimState
<1> QED
  BY <1>3, <1>4, <1>5, <1>6, <1>7, <1>8, <1>9, <1>10, <1>11, <1>12, <1>13, <1>14, <1>15 DEF Update

(* A step that touches nothing of it.                                      *)
LEMMA VersionStutter == VersionInv /\ UNCHANGED vars => VersionInv'
BY DEF VersionInv, VersionType, FromState, ClaimState, Claimed, Claiming, vars, file

(* The invariant holds in every reachable state.                           *)
THEOREM VersionInvCorrect == Spec => []VersionInv
<1>1. VersionInv /\ [Next]_vars => VersionInv'
  BY VersionStep, VersionStutter DEF Next, Finished
<1> QED
  BY VersionInit, <1>1, PTL DEF Spec

(* No update happens twice, however many processes open the file at once   *)
(* and whatever fails or is killed: the version goes up by one or stays.   *)
THEOREM VersionCorrect == Spec => VersionNeverDecreases
<1>1. VersionInv /\ [Next]_vars => [version' \in {version, version + 1}]_version
  <2> SUFFICES ASSUME VersionInv, NEW p \in Openers, Open(p) \/ Update(p) \/ Fail(p) \/ Kill(p)
               PROVE  version' \in {version, version + 1}
    BY DEF Next, Finished, vars, file
  <2>1. CASE SetVersion(p)
    BY <2>1 DEF SetVersion, Claiming, VersionInv, ClaimState
  <2>2. CASE UpdateV0(p)
    <3>1. "metadata" \notin tables => ~ Claimed(from[p])
      BY <2>2 DEF UpdateV0, Claimed
    <3> QED
      BY <2>2, <3>1, ClaimIsFree DEF UpdateV0, Refuse, file
  <2>3. CASE ~ (SetVersion(p) \/ UpdateV0(p))
    BY <2>3 DEF Update, Open, Fail, Kill, ReadVersion, UpdateV1, SelectMax, AlterTable, SetLast,
                CopyEntries, DropTable, Vacuum, Refuse, file
  <2> QED
    BY <2>1, <2>2, <2>3
<1> QED
  BY VersionInvCorrect, <1>1, PTL DEF Spec, VersionNeverDecreases

-----------------------------------------------------------------------------
(* The schema, and the resume point that comes with it.                    *)

(* What a file of each version holds.                                      *)
Schema(v) ==
  CASE v = 0 -> {}
    [] v = 1 -> {"metadata", "ocr_entries"}
    [] v = 2 -> {"metadata", "ocr_entries", "indices"}
    [] v = 3 -> {"metadata", "ocr_entries", "indices", "last_processed_frame"}
    [] OTHER -> {"metadata", "last_processed_frame", "text_entries"}

BothTables == Schema(3) \cup {"text_entries"}

Newest == Max(Frames(entries))

(* The file is as its version says, or as the update in progress, or given *)
(* up half way, has left it.                                               *)
FileState ==
  /\ version \in 0 .. 4
  /\ version < 3 \/ "ocr_entries" \in tables => ocr_entries = entries
  /\ \/ tables = Schema(version)
     \/ version < 4 /\ tables = Schema(version + 1)
     \/ version = 3 /\ tables = BothTables
  /\ version >= 3 => last_processed_frame = Newest

(* What the opener that is in an update has done so far.                   *)
UpdateState ==
  \A p \in Openers :
    /\ Claiming(p) => version < 4
    /\ pc[p] = "set_version" => tables = Schema(version + 1)
    /\ pc[p] = "set_version" /\ from[p] = 2 => last_processed_frame = Newest
    /\ pc[p] = "set_last" => tables = Schema(3)
    /\ pc[p] = "drop" => tables = BothTables
    /\ pc[p] = "vacuum" => tables = Schema(4)
    /\ pc[p] \in {"alter", "set_last"} => current_max[p] = Newest
    /\ pc[p] = "open" => version = 4

SchemaInv == FileState /\ UpdateState /\ current_max = [p \in Openers |-> current_max[p]]

LEMMA SchemaInit == Init => SchemaInv
<1> SUFFICES ASSUME Init PROVE SchemaInv
  OBVIOUS
<1>1. version \in 0 .. 3 /\ ocr_entries = entries
  BY DEF Init, CURRENT_DB_VERSION
<1>2. tables = Schema(version)
  <2>1. CASE version = 0
    BY <2>1 DEF Init, Schema
  <2>2. CASE version = 1
    BY <2>2 DEF Init, Schema
  <2>3. CASE version = 2
    BY <2>3 DEF Init, Schema
  <2>4. CASE version = 3
    BY <2>4 DEF Init, Schema
  <2> QED
    BY <1>1, <2>1, <2>2, <2>3, <2>4
<1>3. version >= 3 => last_processed_frame = Newest
  BY DEF Init, Newest
<1> QED
  BY <1>1, <1>2, <1>3 DEF Init, SchemaInv, FileState, UpdateState, Claiming

(* A step that changes nothing but where one opener is.                    *)
LEMMA MoveKeeps ==
  ASSUME VersionInv, SchemaInv, NEW p \in Openers, NEW step \in Steps,
         UNCHANGED <<entries, file, from, current_max>>, pc' = [pc EXCEPT ![p] = step],
         step \notin {"set_version", "set_last", "drop", "vacuum", "alter", "open"}
  PROVE  SchemaInv'
BY DEF VersionInv, VersionType, SchemaInv, FileState, UpdateState, Claiming, Newest, file, data

(* A statement of an update that changes the tables: the file is on its    *)
(* way to the next version, and nobody else is in an update.               *)
LEMMA UpdateKeeps ==
  ASSUME pc \in [Openers -> Steps], SchemaInv, NEW p \in Openers,
         NEW step \in {"set_last", "drop", "vacuum", "set_version"},
         \A q \in Openers \ {p} : ~ Claiming(q),
         pc' = [pc EXCEPT ![p] = step], UNCHANGED <<entries, version, from, current_max>>,
         version < 4, version = 3 => UNCHANGED last_processed_frame,
         version < 3 \/ "ocr_entries" \in tables' => ocr_entries' = entries,
         IF step = "drop" THEN version = 3 /\ tables' = BothTables ELSE tables' = Schema(version + 1),
         step = "set_last" => version = 2 /\ current_max[p] = Newest,
         step = "vacuum" => version = 3,
         step = "set_version" => from[p] # 2
  PROVE  SchemaInv'
<1>1. pc'[p] = step /\ \A q \in Openers \ {p} : pc'[q] = pc[q] /\ ~ Claiming(q)
  OBVIOUS
<1>2. Newest' = Newest /\ version \in 0 .. 3
  BY DEF Newest, SchemaInv, FileState
<1>3. FileState'
  BY <1>2 DEF SchemaInv, FileState
<1>4. ASSUME NEW q \in Openers \ {p}
      PROVE  /\ ~ Claiming(q)' /\ pc'[q] # "open"
             /\ pc'[q] = "alter" => current_max'[q] = Newest'
  BY <1>1, <1>2 DEF SchemaInv, UpdateState, Claiming
<1>5. UpdateState'
  BY <1>1, <1>2, <1>4 DEF UpdateState, Claiming
<1> QED
  BY <1>3, <1>5 DEF SchemaInv

LEMMA SchemaStep ==
  ASSUME VersionInv, SchemaInv, NEW p \in Openers, Open(p) \/ Update(p) \/ Fail(p) \/ Kill(p)
  PROVE  SchemaInv'
<1> USE DEF GoTo, file, data
<1>1. ASSUME Refuse(p) PROVE SchemaInv'
  BY <1>1, MoveKeeps DEF Refuse, Steps
<1>2. CASE Open(p)
  BY <1>2, MoveKeeps DEF Open, Steps
<1>3. CASE Fail(p)
  BY <1>3, MoveKeeps DEF Fail, Steps
<1>4. CASE Kill(p)
  BY <1>4, MoveKeeps DEF Kill, Steps
<1>5. pc \in [Openers -> Steps] /\ from \in [Openers -> Nat] /\ version \in 0 .. 4
  BY DEF VersionInv, VersionType, SchemaInv, FileState
<1>6. CASE ReadVersion(p)
  <2>1. UNCHANGED <<entries, file, current_max>>
    BY <1>6 DEF ReadVersion
  <2>2. pc'[p] = "update" \/ (pc'[p] = "open" /\ version = 4)
    BY <1>5, <1>6 DEF ReadVersion, CURRENT_DB_VERSION
  <2>3. \A q \in Openers \ {p} : pc'[q] = pc[q] /\ from'[q] = from[q]
    BY <1>5, <1>6 DEF ReadVersion
  <2> QED
    BY <2>1, <2>2, <2>3 DEF SchemaInv, FileState, UpdateState, Claiming, Newest
<1>7. CASE UpdateV0(p)
  <2>1. CASE "metadata" \in tables
    BY <1>1, <1>7, <2>1 DEF UpdateV0
  <2>2. CASE "metadata" \notin tables
    <3>1. from[p] = 0 /\ version = 0 /\ \A q \in Openers : ~ Claiming(q)
      BY <1>7, <2>2, ClaimIsFree DEF UpdateV0, Claimed
    <3>2. tables = {}
      BY <2>2, <3>1 DEF SchemaInv, FileState, Schema, BothTables
    <3>3. tables' = Schema(1) /\ version' = 0
      BY <1>7, <2>2, <3>2 DEF UpdateV0, Schema
    <3>4. (version < 3 \/ "ocr_entries" \in tables' => ocr_entries' = entries)
      BY <1>7, <2>2, <3>1 DEF UpdateV0, SchemaInv, FileState
    <3> QED
      BY <1>5, <1>7, <2>2, <3>1, <3>3, <3>4, UpdateKeeps DEF UpdateV0
  <2> QED
    BY <2>1, <2>2
<1>8. CASE UpdateV1(p)
  <2>1. CASE "ocr_entries" \notin tables \/ "indices" \in tables
    BY <1>1, <1>8, <2>1 DEF UpdateV1
  <2>2. CASE ~ ("ocr_entries" \notin tables \/ "indices" \in tables)
    <3>1. from[p] = 1 /\ version = 1 /\ \A q \in Openers : ~ Claiming(q)
      BY <1>8, <2>2, ClaimIsFree DEF UpdateV1, Claimed
    <3>2. tables = Schema(1)
      BY <2>2, <3>1 DEF SchemaInv, FileState, Schema, BothTables
    <3>3. tables' = Schema(2) /\ version' = 1
      BY <1>8, <2>2, <3>1, <3>2 DEF UpdateV1, Schema
    <3>4. (version < 3 \/ "ocr_entries" \in tables' => ocr_entries' = entries)
      BY <1>8, <2>2, <3>1 DEF UpdateV1, SchemaInv, FileState
    <3> QED
      BY <1>5, <1>8, <2>2, <3>1, <3>3, <3>4, UpdateKeeps DEF UpdateV1
  <2> QED
    BY <2>1, <2>2
<1>9. CASE SelectMax(p)
  <2>1. CASE "ocr_entries" \notin tables
    BY <1>1, <1>9, <2>1 DEF SelectMax
  <2>2. CASE "ocr_entries" \in tables
    <3>1. Max(Frames(ocr_entries)) = Newest
      BY <2>2 DEF SchemaInv, FileState, Newest
    <3> QED
      BY <1>5, <1>9, <2>2, <3>1
      DEF SelectMax, SchemaInv, FileState, UpdateState, Claiming, Newest
  <2> QED
    BY <2>1, <2>2
<1>10. CASE AlterTable(p)
  <2>1. CASE "last_processed_frame" \in tables
    BY <1>1, <1>10, <2>1 DEF AlterTable
  <2>2. CASE "last_processed_frame" \notin tables
    <3>1. from[p] = 2 /\ version = 2 /\ \A q \in Openers : ~ Claiming(q)
      BY <1>10, <2>2, ClaimIsFree DEF AlterTable, Claimed, VersionInv, FromState
    <3>2. tables = Schema(2)
      BY <2>2, <3>1 DEF SchemaInv, FileState, Schema, BothTables
    <3>3. tables' = Schema(3) /\ version' = 2
      BY <1>10, <2>2, <3>1, <3>2 DEF AlterTable, Schema
    <3>4. (version < 3 \/ "ocr_entries" \in tables' => ocr_entries' = entries) /\ current_max[p] = Newest
      BY <1>10, <2>2, <3>1 DEF AlterTable, SchemaInv, FileState, UpdateState
    <3> QED
      BY <1>5, <1>10, <2>2, <3>1, <3>3, <3>4, UpdateKeeps DEF AlterTable
  <2> QED
    BY <2>1, <2>2
<1>11. CASE SetLast(p)
  <2>1. /\ from[p] = 2 /\ version = 2 /\ \A q \in Openers \ {p} : ~ Claiming(q)
    BY <1>11 DEF SetLast, Claiming, VersionInv, FromState, ClaimState
  <2>2. tables = Schema(3) /\ current_max[p] = Newest
    BY <1>11 DEF SetLast, SchemaInv, UpdateState
  <2> QED
    BY <1>5, <1>11, <2>1, <2>2
    DEF SetLast, SchemaInv, FileState, UpdateState, Claiming, Newest
<1>12. CASE CopyEntries(p)
  <2>1. CASE "text_entries" \in tables \/ "ocr_entries" \notin tables
    BY <1>1, <1>12, <2>1 DEF CopyEntries
  <2>2. CASE ~ ("text_entries" \in tables \/ "ocr_entries" \notin tables)
    <3>1. from[p] = 3 /\ version = 3 /\ \A q \in Openers : ~ Claiming(q)
      BY <1>12, <2>2, ClaimIsFree DEF CopyEntries, Claimed
    <3>2. tables = Schema(3)
      BY <2>2, <3>1 DEF SchemaInv, FileState, Schema, BothTables
    <3>3. tables' = BothTables /\ version' = 3
      BY <1>12, <2>2, <3>1, <3>2 DEF CopyEntries, BothTables
    <3>4. (version < 3 \/ "ocr_entries" \in tables' => ocr_entries' = entries)
      BY <1>12, <2>2, <3>1 DEF CopyEntries, SchemaInv, FileState
    <3> QED
      BY <1>5, <1>12, <2>2, <3>1, <3>3, <3>4, UpdateKeeps DEF CopyEntries
  <2> QED
    BY <2>1, <2>2
<1>13. CASE DropTable(p)
  <2>1. CASE "ocr_entries" \notin tables
    BY <1>1, <1>13, <2>1 DEF DropTable
  <2>2. CASE "ocr_entries" \in tables
    <3>1. from[p] = 3 /\ version = 3 /\ \A q \in Openers \ {p} : ~ Claiming(q)
      BY <1>13 DEF DropTable, Claiming, VersionInv, FromState, ClaimState
    <3>2. tables = BothTables
      BY <1>13 DEF DropTable, SchemaInv, UpdateState
    <3>3. tables' = Schema(4) /\ version' = 3 /\ "ocr_entries" \notin tables'
      BY <1>13, <2>2, <3>1, <3>2 DEF DropTable, BothTables, Schema
    <3>4. (version < 3 \/ "ocr_entries" \in tables' => ocr_entries' = entries)
      BY <1>13, <2>2, <3>1, <3>3 DEF DropTable, SchemaInv, FileState
    <3> QED
      BY <1>5, <1>13, <2>2, <3>1, <3>3, <3>4, UpdateKeeps DEF DropTable
  <2> QED
    BY <2>1, <2>2
<1>14. CASE Vacuum(p)
  <2>1. from[p] = 3 /\ version = 3 /\ tables = Schema(4)
    BY <1>14 DEF Vacuum, Claiming, VersionInv, FromState, ClaimState, SchemaInv, UpdateState
  <2> QED
    BY <1>5, <1>14, <2>1 DEF Vacuum, SchemaInv, FileState, UpdateState, Claiming, Newest
<1>15. CASE SetVersion(p)
  <2>1. /\ from[p] = version /\ version < 4 /\ tables = Schema(version + 1)
        /\ \A q \in Openers \ {p} : ~ Claiming(q)
    BY <1>15 DEF SetVersion, Claiming, VersionInv, ClaimState, SchemaInv, UpdateState
  <2>2. /\ version' = version + 1 /\ UNCHANGED <<entries, tables, data, current_max>>
        /\ pc'[p] = "update" \/ (pc'[p] = "open" /\ version' = 4)
        /\ \A q \in Openers \ {p} : pc'[q] = pc[q] /\ from'[q] = from[q]
    BY <1>5, <1>15, <2>1 DEF SetVersion, CURRENT_DB_VERSION
  <2>3. \A q \in Openers : pc[q] # "open"
    BY <2>1 DEF SchemaInv, UpdateState
  <2>4. version' >= 3 => last_processed_frame' = Newest'
    BY <1>5, <1>15, <2>1, <2>2 DEF SetVersion, SchemaInv, FileState, UpdateState, Newest
  <2>5. version' < 3 \/ "ocr_entries" \in tables' => ocr_entries' = entries'
    BY <1>5, <2>2 DEF SchemaInv, FileState
  <2>6. FileState'
    BY <1>5, <2>1, <2>2, <2>4, <2>5 DEF FileState
  <2>7. UpdateState'
    BY <2>1, <2>2, <2>3 DEF SchemaInv, UpdateState, Claiming, Newest
  <2> QED
    BY <2>2, <2>6, <2>7 DEF SchemaInv
<1> QED
  BY <1>2, <1>3, <1>4, <1>6, <1>7, <1>8, <1>9, <1>10, <1>11, <1>12, <1>13, <1>14, <1>15 DEF Update

LEMMA SchemaStutter == SchemaInv /\ UNCHANGED vars => SchemaInv'
BY DEF SchemaInv, FileState, UpdateState, Claiming, Newest, vars, file, data

(* Whoever gets the database open finds the schema its statements are      *)
(* prepared for, and the resume point at the last frame of the old rows,   *)
(* whatever other openers did, and where they failed or were killed.       *)
THEOREM OpenedCorrect == Spec => []OpenedIsCurrent
<1>1. VersionInv /\ SchemaInv /\ [Next]_vars => SchemaInv'
  BY SchemaStep, SchemaStutter DEF Next, Finished
<1>2. SchemaInv => OpenedIsCurrent
  <2> SUFFICES ASSUME SchemaInv, NEW p \in Openers, pc[p] = "open"
               PROVE  /\ tables = {"metadata", "last_processed_frame", "text_entries"}
                      /\ version = CURRENT_DB_VERSION
                      /\ last_processed_frame = Max(Frames(entries))
    BY DEF OpenedIsCurrent
  <2>1. version = 4
    BY DEF SchemaInv, UpdateState
  <2>2. tables = Schema(4) /\ last_processed_frame = Newest
    BY <2>1 DEF SchemaInv, FileState
  <2> QED
    BY <2>1, <2>2 DEF Schema, Newest, CURRENT_DB_VERSION
<1> QED
  BY VersionInvCorrect, SchemaInit, <1>1, <1>2, PTL DEF Spec

-----------------------------------------------------------------------------
(* What Migrated computes, for any rows: the equations of its fold, and an *)
(* induction over the rows.                                                *)

(* Counting up: what 0 has and each number hands to the next, all have.    *)
LEMMA CountingUp ==
  ASSUME NEW S, 0 \in S, \A n \in Nat : n \in S => n + 1 \in S
  PROVE  Nat \subseteq S
<1> DEFINE less == {ss \in Nat \X Nat : ss[1] < ss[2]}
           rest == Nat \ S
<1> SUFFICES ASSUME rest # {} PROVE FALSE
  OBVIOUS
<1>1. IsWellFoundedOn(less, Nat)
  <2>1. OpToRel(<, Nat) = less
    BY Zenon DEF OpToRel
  <2> QED
    BY <2>1, NatLessThanWellFounded, Zenon
<1>2. PICK least \in rest : \A m \in rest : ~ (<<m, least>> \in less)
  <2>1. rest \subseteq Nat
    OBVIOUS
  <2> HIDE DEF rest, less
  <2> QED
    BY <1>1, <2>1, WFMin
<1>3. least # 0 /\ least - 1 \in Nat /\ least - 1 \in S
  <2>1. least # 0 /\ least \in Nat
    OBVIOUS
  <2>2. least - 1 \in Nat /\ least - 1 < least
    BY <2>1
  <2>3. least - 1 \notin rest
    BY <1>2, <2>2
  <2> QED
    BY <2>1, <2>2, <2>3
<1> QED
  BY <1>3

(* The maximum of the first numbers is the last of them.                    *)
LEMMA MaxOfRange == ASSUME NEW i \in Nat \ {0} PROVE Max(1 .. i) = i
<1>1. \A x \in 1 .. i : (\A y \in 1 .. i : x >= y) <=> x = i
  OBVIOUS
<1>2. i \in 1 .. i
  OBVIOUS
<1> QED
  BY <1>1, <1>2 DEF Max

(* A set of numbers up to n that is not empty has a maximum.                *)
LEMMA MaxIsIn ==
  ASSUME NEW n \in Nat, NEW s \in SUBSET (1 .. n), s # {}
  PROVE  Max(s) \in s
<1> DEFINE Good(k) == \A S \in SUBSET (1 .. k) : S # {} => \E x \in S : \A y \in S : x >= y
           good == {k \in Nat : Good(k)}
<1>1. 0 \in good
  <2>1. 1 .. 0 = {}
    OBVIOUS
  <2> QED
    BY <2>1
<1>2. ASSUME NEW k \in Nat, k \in good PROVE k + 1 \in good
  <2> SUFFICES ASSUME NEW S \in SUBSET (1 .. k + 1), S # {} PROVE \E x \in S : \A y \in S : x >= y
    OBVIOUS
  <2>1. CASE k + 1 \in S
    BY <2>1
  <2>2. CASE k + 1 \notin S
    <3>1. S \in SUBSET (1 .. k)
      BY <2>2
    <3> QED
      BY <1>2, <3>1
  <2> QED
    BY <2>1, <2>2
<1>3. n \in good
  <2> HIDE DEF good
  <2> QED
    BY <1>1, <1>2, CountingUp
<1> QED
  BY <1>3 DEF Max

NoRows == [texts |-> <<>>, instances |-> <<>>]

(* One step of the fold that Migrated is.                                  *)
FoldStep(rows, g, s) == IF s = {} THEN NoRows ELSE AddEntry(g[s \ {Max(s)}], rows[Max(s)])

(* There is a function that takes these steps, for any number of rows.      *)
LEMMA FoldIsDefined ==
  ASSUME NEW rows, NEW n \in Nat
  PROVE  \E g : g = [s \in SUBSET (1 .. n) |-> FoldStep(rows, g, s)]
<1> DEFINE Good(k) == \E g : g = [s \in SUBSET (1 .. k) |-> FoldStep(rows, g, s)]
           good == {k \in Nat : Good(k)}
<1>1. 0 \in good
  <2> DEFINE g == [s \in SUBSET (1 .. 0) |-> NoRows]
  <2>1. 1 .. 0 = {}
    OBVIOUS
  <2>2. g = [s \in SUBSET (1 .. 0) |-> FoldStep(rows, g, s)]
    BY <2>1 DEF FoldStep
  <2> QED
    BY <2>2
<1>2. ASSUME NEW k \in Nat, k \in good PROVE k + 1 \in good
  <2>1. PICK g : g = [s \in SUBSET (1 .. k) |-> FoldStep(rows, g, s)]
    BY <1>2
  <2> DEFINE last(s) == AddEntry(g[s \ {k + 1}], rows[k + 1])
             f == [s \in SUBSET (1 .. k + 1) |-> IF k + 1 \in s THEN last(s) ELSE g[s]]
  <2>2. ASSUME NEW s \in SUBSET (1 .. k + 1) PROVE f[s] = FoldStep(rows, f, s)
    <3>1. CASE s = {}
      <4>1. {} \in SUBSET (1 .. k) /\ g[{}] = NoRows
        BY <2>1 DEF FoldStep
      <4> QED
        BY <3>1, <4>1 DEF FoldStep
    <3>2. CASE k + 1 \in s
      <4>1. Max(s) = k + 1
        <5>1. k + 1 \in s /\ \A y \in s : k + 1 >= y
          BY <3>2
        <5>2. \A x \in s : (\A y \in s : x >= y) => x = k + 1
          BY <5>1
        <5> QED
          BY <5>1, <5>2 DEF Max
      <4>2. s \ {k + 1} \in SUBSET (1 .. k) /\ s \ {k + 1} \in SUBSET (1 .. k + 1) /\ k + 1 \notin s \ {k + 1}
        OBVIOUS
      <4>3. f[s \ {k + 1}] = g[s \ {k + 1}] /\ f[s] = last(s)
        BY <3>2, <4>2
      <4> QED
        BY <3>2, <4>1, <4>3 DEF FoldStep
    <3>3. CASE s # {} /\ k + 1 \notin s
      <4>1. s \in SUBSET (1 .. k)
        BY <3>3
      <4>2. s \ {Max(s)} \in SUBSET (1 .. k) /\ k + 1 \notin s \ {Max(s)}
        BY <3>3, <4>1
      <4>3. f[s \ {Max(s)}] = g[s \ {Max(s)}]
        BY <4>2
      <4>4. f[s] = g[s] /\ g[s] = FoldStep(rows, g, s)
        BY <2>1, <3>3, <4>1
      <4> QED
        BY <3>3, <4>3, <4>4 DEF FoldStep
    <3> QED
      BY <3>1, <3>2, <3>3
  <2>3. f = [s \in SUBSET (1 .. k + 1) |-> FoldStep(rows, f, s)]
    <3> HIDE DEF last
    <3>1. f = [s \in SUBSET (1 .. k + 1) |-> f[s]]
      BY Zenon
    <3> HIDE DEF f
    <3> QED
      BY <2>2, <3>1
  <2> HIDE DEF f
  <2> QED
    BY <2>3
<1>3. n \in good
  <2> HIDE DEF good
  <2> QED
    BY <1>1, <1>2, CountingUp
<1> QED
  BY <1>3

(* Migrated, row by row: h[i] is what the first i rows have become.         *)
LEMMA MigratedByRow ==
  ASSUME NEW rows, NEW n \in Nat, DOMAIN rows = 1 .. n
  PROVE  \E h : /\ h[0] = NoRows
                /\ \A i \in 1 .. n : h[i] = AddEntry(h[i - 1], rows[i])
                /\ Migrated(rows) = h[n]
<1> DEFINE solves(g) == g = [s \in SUBSET (1 .. n) |-> FoldStep(rows, g, s)]
           g == CHOOSE k : solves(k)
           h == [i \in 0 .. n |-> g[1 .. i]]
<1>1. solves(g)
  <2>1. \E k : solves(k)
    BY FoldIsDefined
  <2> HIDE DEF solves
  <2> QED
    BY <2>1
<1>2. Migrated(rows) = g[1 .. n]
  <2>1. Migrated(rows) = (CHOOSE k : k = [s \in SUBSET DOMAIN rows |-> FoldStep(rows, k, s)])[DOMAIN rows]
    BY DEF Migrated, FoldLeft, MapThenFoldSet, FoldStep, NoRows
  <2> QED
    BY <2>1
<1> HIDE DEF g
<1>3. h[0] = NoRows
  <2>1. 1 .. 0 = {} /\ {} \in SUBSET (1 .. n) /\ 0 \in 0 .. n
    OBVIOUS
  <2>2. g[{}] = FoldStep(rows, g, {})
    BY <1>1, <2>1
  <2> QED
    BY <2>1, <2>2 DEF FoldStep
<1>4. ASSUME NEW i \in 1 .. n PROVE h[i] = AddEntry(h[i - 1], rows[i])
  <2>1. 1 .. i \in SUBSET (1 .. n) /\ i \in 0 .. n /\ i - 1 \in 0 .. n
    OBVIOUS
  <2>5. i \in 1 .. i
    OBVIOUS
  <2>4. (1 .. i) \ {i} = 1 .. (i - 1)
    OBVIOUS
  <2>2. g[1 .. i] = FoldStep(rows, g, 1 .. i)
    BY <1>1, <2>1
  <2>3. Max(1 .. i) = i
    BY MaxOfRange
  <2> QED
    BY <2>1, <2>2, <2>3, <2>4, <2>5 DEF FoldStep
<1> HIDE DEF h
<1>5. h[n] = g[1 .. n]
  BY DEF h
<1> QED
  BY <1>2, <1>3, <1>4, <1>5
(* What the rows up to i have become.                                      *)
CopiedTo(rows, i, new) ==
  /\ new = [texts |-> new.texts, instances |-> new.instances]
  /\ new.texts \in Seq({rows[k].text : k \in DOMAIN rows})
  /\ new.instances \in Seq([text_entry_id : Nat, frame : Nat]) /\ Len(new.instances) = i
  /\ \A k \in 1 .. i :
       /\ new.instances[k].text_entry_id \in DOMAIN new.texts
       /\ new.texts[new.instances[k].text_entry_id] = rows[k].text
       /\ new.instances[k].frame = rows[k].frame

(* Another row is copied, and the rows before it stay as they were copied.  *)
LEMMA AddEntryCopies ==
  ASSUME NEW T, NEW rows \in Seq([frame : Nat, text : T]), NEW i \in 1 .. Len(rows), NEW new,
         CopiedTo(rows, i - 1, new)
  PROVE  CopiedTo(rows, i, AddEntry(new, rows[i]))
<1> DEFINE texts == IF Contains(new.texts, rows[i].text) THEN new.texts ELSE Append(new.texts, rows[i].text)
           id == CHOOSE j \in DOMAIN texts : texts[j] = rows[i].text
           T0 == {rows[k].text : k \in DOMAIN rows}
           instance == [text_entry_id |-> id, frame |-> rows[i].frame]
           after == AddEntry(new, rows[i])
<1>1. /\ rows[i].frame \in Nat /\ rows[i].text \in T0
      /\ new.texts \in Seq(T0)
      /\ new.instances \in Seq([text_entry_id : Nat, frame : Nat]) /\ Len(new.instances) = i - 1
  <2>1. i \in DOMAIN rows /\ rows[i] \in [frame : Nat, text : T]
    <3> DEFINE R == [frame : Nat, text : T]
    <3>1. rows \in Seq(R)
      OBVIOUS
    <3>2. rows[i] \in R /\ i \in DOMAIN rows
      <4> HIDE DEF R
      <4> QED
        BY <3>1
    <3> QED
      BY <3>2
  <2>2. rows[i].frame \in Nat /\ rows[i].text \in T0
    BY <2>1
  <2> QED
    BY <2>2 DEF CopiedTo
<1>2. after = [texts |-> texts, instances |-> Append(new.instances, instance)]
  BY DEF AddEntry
<1> HIDE DEF T0, after
<1>3. /\ texts \in Seq(T0) /\ \E j \in DOMAIN texts : texts[j] = rows[i].text
      /\ \A j \in DOMAIN new.texts : j \in DOMAIN texts /\ texts[j] = new.texts[j]
  <2>1. CASE Contains(new.texts, rows[i].text)
    BY <1>1, <2>1 DEF Contains
  <2>2. CASE ~ Contains(new.texts, rows[i].text)
    <3>1. texts = Append(new.texts, rows[i].text)
      BY <2>2
    <3> HIDE DEF texts
    <3>2. /\ texts \in Seq(T0) /\ Len(texts) = Len(new.texts) + 1
          /\ texts[Len(new.texts) + 1] = rows[i].text
      BY <1>1, <3>1
    <3>3. \A j \in DOMAIN new.texts : j \in DOMAIN texts /\ texts[j] = new.texts[j]
      BY <1>1, <3>1
    <3> QED
      BY <1>1, <3>2, <3>3
  <2> QED
    BY <2>1, <2>2
<1> HIDE DEF texts
<1>4. id \in DOMAIN texts /\ texts[id] = rows[i].text
  BY <1>3
<1> HIDE DEF id
<1>5. id \in Nat /\ instance \in [text_entry_id : Nat, frame : Nat]
  BY <1>1, <1>3, <1>4
<1> HIDE DEF instance
<1>6. /\ after.texts = texts /\ after.instances = Append(new.instances, instance)
      /\ after = [texts |-> after.texts, instances |-> after.instances]
  BY <1>2
<1>7. /\ after.instances \in Seq([text_entry_id : Nat, frame : Nat]) /\ Len(after.instances) = i
      /\ after.instances[i] = instance /\ \A k \in 1 .. i - 1 : after.instances[k] = new.instances[k]
  BY <1>1, <1>5, <1>6
<1>8. ASSUME NEW k \in 1 .. i
      PROVE  /\ after.instances[k].text_entry_id \in DOMAIN after.texts
             /\ after.texts[after.instances[k].text_entry_id] = rows[k].text
             /\ after.instances[k].frame = rows[k].frame
  <2>1. CASE k = i
    BY <1>4, <1>6, <1>7, <2>1 DEF instance
  <2>2. CASE k \in 1 .. i - 1
    BY <1>3, <1>6, <1>7, <2>2 DEF CopiedTo
  <2> QED
    BY <2>1, <2>2
<1> QED
  BY <1>3, <1>6, <1>7, <1>8 DEF CopiedTo, T0, after

(* All rows are copied, whatever texts they share.                          *)
LEMMA MigratedCopies ==
  ASSUME NEW T, NEW rows \in Seq([frame : Nat, text : T])
  PROVE  CopiedTo(rows, Len(rows), Migrated(rows))
<1> DEFINE n == Len(rows)
<1>1. n \in Nat /\ DOMAIN rows = 1 .. n
  OBVIOUS
<1>2. PICK h : /\ h[0] = NoRows
               /\ \A i \in 1 .. n : h[i] = AddEntry(h[i - 1], rows[i])
               /\ Migrated(rows) = h[n]
  BY <1>1, MigratedByRow
<1> HIDE DEF n
<1> DEFINE good == {i \in Nat : i <= n => CopiedTo(rows, i, h[i])}
<1>3. 0 \in good
  <2>1. \A S : <<>> \in Seq(S)
    OBVIOUS
  <2>2. Len(<<>>) = 0 /\ 1 .. 0 = {}
    OBVIOUS
  <2>3. h[0].texts = <<>> /\ h[0].instances = <<>> /\ h[0] = [texts |-> h[0].texts, instances |-> h[0].instances]
    BY <1>2 DEF NoRows
  <2> QED
    BY <2>1, <2>2, <2>3 DEF CopiedTo
<1>4. ASSUME NEW i \in Nat, i \in good PROVE i + 1 \in good
  <2> SUFFICES ASSUME i + 1 <= n PROVE CopiedTo(rows, i + 1, h[i + 1])
    OBVIOUS
  <2>1. i + 1 \in 1 .. n /\ (i + 1) - 1 = i /\ CopiedTo(rows, i, h[i])
    BY <1>1, <1>4
  <2>2. h[i + 1] = AddEntry(h[i], rows[i + 1])
    BY <1>2, <2>1
  <2> QED
    BY <2>1, <2>2, AddEntryCopies DEF n
<1>5. n \in good
  <2> HIDE DEF good
  <2> QED
    BY <1>1, <1>3, <1>4, CountingUp
<1> QED
  BY <1>1, <1>2, <1>5 DEF n

(* Joined again, the copy is the rows in their order.                       *)
LEMMA JoinedIsRows ==
  ASSUME entries \in Contents,
         text_entries = Migrated(entries).texts, text_instances = Migrated(entries).instances
  PROVE  Joined = entries
<1> DEFINE T == {entries[i].text : i \in DOMAIN entries}
<1>1. entries \in Seq([frame : Nat, text : T])
  BY MigrationAssumption
<1> HIDE DEF T
<1>2. CopiedTo(entries, Len(entries), Migrated(entries))
  BY <1>1, MigratedCopies
<1>3. DOMAIN text_instances = 1 .. Len(entries) /\ DOMAIN entries = 1 .. Len(entries)
  BY <1>1, <1>2 DEF CopiedTo
<1>4. ASSUME NEW i \in 1 .. Len(entries)
      PROVE  [frame |-> text_instances[i].frame,
              text |-> text_entries[text_instances[i].text_entry_id]] = entries[i]
  <2>1. entries[i] \in [frame : Nat, text : T]
    <3> DEFINE R == [frame : Nat, text : T]
    <3>1. entries \in Seq(R)
      BY <1>1
    <3>2. entries[i] \in R
      <4> HIDE DEF R
      <4> QED
        BY <3>1
    <3> QED
      BY <3>2
  <2>3. entries[i] = [frame |-> entries[i].frame, text |-> entries[i].text]
    BY <2>1
  <2> QED
    BY <1>2, <2>3 DEF CopiedTo
<1>5. entries = [i \in 1 .. Len(entries) |-> entries[i]]
  BY <1>1
<1> QED
  BY <1>3, <1>4, <1>5 DEF Joined

-----------------------------------------------------------------------------
(* The rows, from the old table to the new ones.                           *)

CopyState ==
  /\ entries \in Contents
  /\ "text_entries" \in tables =>
       /\ text_entries = Migrated(entries).texts
       /\ text_instances = Migrated(entries).instances

LEMMA CopyStep ==
  ASSUME SchemaInv, CopyState, NEW p \in Openers, Open(p) \/ Update(p) \/ Fail(p) \/ Kill(p)
  PROVE  CopyState'
<1> USE DEF file, data
<1>1. entries' = entries
  BY DEF Open, Update, Fail, Kill, ReadVersion, UpdateV0, UpdateV1, SelectMax, AlterTable, SetLast,
         CopyEntries, DropTable, Vacuum, SetVersion, Refuse
<1>2. CASE CopyEntries(p)
  <2>1. CASE "text_entries" \in tables \/ "ocr_entries" \notin tables
    BY <1>1, <1>2, <2>1 DEF CopyEntries, Refuse, CopyState
  <2>2. CASE ~ ("text_entries" \in tables \/ "ocr_entries" \notin tables)
    <3>1. ocr_entries = entries
      BY <2>2 DEF SchemaInv, FileState
    <3>2. /\ text_entries' = Migrated(ocr_entries).texts
          /\ text_instances' = Migrated(ocr_entries).instances
      BY <1>2, <2>2 DEF CopyEntries
    <3> QED
      BY <1>1, <3>1, <3>2 DEF CopyState
  <2> QED
    BY <2>1, <2>2
<1>3. CASE ~ CopyEntries(p)
  <2>1. UNCHANGED <<text_entries, text_instances>>
    BY <1>3 DEF Open, Update, Fail, Kill, ReadVersion, UpdateV0, UpdateV1, SelectMax, AlterTable,
                SetLast, DropTable, Vacuum, SetVersion, Refuse
  <2>2. "text_entries" \in tables' => "text_entries" \in tables
    BY <1>3 DEF Open, Update, Fail, Kill, ReadVersion, UpdateV0, UpdateV1, SelectMax, AlterTable,
                SetLast, DropTable, Vacuum, SetVersion, Refuse
  <2> QED
    BY <1>1, <2>1, <2>2 DEF CopyState
<1> QED
  BY <1>2, <1>3

(* No step loses a row, doubles one or gives it another text: at any time  *)
(* the old table or the new ones, or both, hold exactly the first rows,    *)
(* for any number of rows and whoever else opens the file.                 *)
THEOREM EntriesCorrect == Spec => []EntriesPreserved
<1>1. Init => CopyState
  <2>1. Init => entries \in Contents /\ "text_entries" \notin tables
    BY DEF Init
  <2> QED
    BY <2>1 DEF CopyState
<1>2. VersionInv /\ SchemaInv /\ [Next]_vars => SchemaInv'
  BY SchemaStep, SchemaStutter DEF Next, Finished
<1>3. SchemaInv /\ CopyState /\ [Next]_vars => CopyState'
  <2>1. CopyState /\ UNCHANGED vars => CopyState'
    BY DEF CopyState, vars, file, data
  <2> QED
    BY <2>1, CopyStep DEF Next, Finished
<1>4. SchemaInv /\ CopyState => EntriesPreserved
  <2> SUFFICES ASSUME SchemaInv, CopyState PROVE EntriesPreserved
    OBVIOUS
  <2>1. "ocr_entries" \in tables => ocr_entries = entries
    BY DEF SchemaInv, FileState
  <2>2. "text_entries" \in tables => Joined = entries
    BY JoinedIsRows DEF CopyState
  <2>3. version >= 1 => tables \cap {"ocr_entries", "text_entries"} # {}
    BY DEF SchemaInv, FileState, Schema, BothTables
  <2> QED
    BY <2>1, <2>2, <2>3 DEF EntriesPreserved
<1> QED
  BY VersionInvCorrect, SchemaInit, <1>1, <1>2, <1>3, <1>4, PTL DEF Spec
=============================================================================
