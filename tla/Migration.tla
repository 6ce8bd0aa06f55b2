----------------------------- MODULE Migration -----------------------------
(***************************************************************************)
(* The migration tool (packages/migrate/src): one of three adapters reads  *)
(* the collections of a source, page by page, converts their rows to       *)
(* documents, and migrate() writes all of them to one file.  The source is *)
(* in use meanwhile and may change between any two requests, and any       *)
(* request may fail.  Of the fields of a row the model has what makes its  *)
(* conversion fail, and nothing of what the document keeps of them.        *)
(***************************************************************************)
EXTENDS Integers, Sequences, SequencesExt, FiniteSets

CONSTANTS
  Collections,
  Ids,        \* of rows, from 1
  InitialRows,\* InitialRows[c]: the rows of c at first, in the order they are stored
  FieldsOf,   \* FieldsOf[i]: what the row i holds in each field
  Include, Exclude,  \* options, no option: {}
  BatchSize,  \* option
  RowCaps,    \* how many rows a Supabase server may answer at most
  MaxChanges, \* bound: changes of the source
  MaxFaults   \* bound: requests that fail

Names  == {"body", "createdAt", "updatedAt", "lastModified"}

(* A value is absent, converts, or is taken for a date and is none: a text *)
(* "2024-13-45 10:00:00", a number no Date holds.                          *)
Values == {"absent", "converts", "beyond"}

(* The batch size 0 is accepted too, and the loop over a tree then never   *)
(* ends (firebase-realtime.ts, "i += batchSize").                          *)
ASSUME MigrationAssumption ==
  /\ Ids \subseteq Nat \ {0} /\ IsFiniteSet(Ids)
  /\ InitialRows \in [Collections -> Seq(Ids)]
  /\ \A c \in Collections : IsInjective(InitialRows[c])
  /\ FieldsOf \in [Ids -> [Names -> Values]]
  /\ BatchSize \in Nat \ {0}
  /\ RowCaps \subseteq Nat \ {0}
  /\ MaxChanges \in Nat
  /\ MaxFaults \in Nat

VARIABLES
  kind,       \* of the adapter
  cap,        \* rows a Supabase server answers at most
  stored,     \* stored[c]: the rows of the source, in the order they are stored
  phase,      \* of migrate()
  progress,   \* progress[c]: how far the adapter is with c
  cursor,     \* of the collection under way: an offset, or the last row's id
  docs,       \* docs[c][i]: how many documents were made of i
  unconverted,\* unconverted[c]: rows of which a warning tells that they failed
  warned,     \* collections of which a warning tells that a request failed
  changes, faults,
  stayed,     \* history: rows of c from its first page on
  disturbed   \* history: collections that changed between their pages

source  == <<kind, cap>>
output  == <<docs, unconverted, warned>>
history == <<stayed, disturbed>>
vars    == <<source, stored, phase, progress, cursor, output, changes, faults, history>>

-----------------------------------------------------------------------------
Rows(c) == ToSet(stored[c])

(* filterTables, filterCollections.                                        *)
Wanted(names) == {c \in names : (Include = {} \/ c \in Include) /\ c \notin Exclude}

(* The field the update time of a Firebase document is taken from.         *)
UpdateField(i) == IF FieldsOf[i].updatedAt # "absent" THEN "updatedAt" ELSE "lastModified"

(* mapSupabaseType converts what looks like a timestamp, in all columns    *)
(* but the two the document's times are taken from; the number of a        *)
(* Firebase date is checked by nobody before toISOString.  No value of     *)
(* Firestore fails.                                                        *)
Throws(i) ==
  \/ /\ kind = "supabase"
     /\ \E f \in {"body", "lastModified"} : FieldsOf[i][f] = "beyond"
  \/ /\ kind = "firebase-realtime"
     /\ \E f \in {"createdAt", UpdateField(i)} : FieldsOf[i][f] = "beyond"

-----------------------------------------------------------------------------
Init ==
  /\ kind \in {"supabase", "firestore", "firebase-realtime"}
  /\ cap \in RowCaps
  /\ stored = InitialRows
  /\ phase = "listing"
  /\ progress = [c \in Collections |-> "unlisted"]
  /\ cursor = 0
  /\ docs = [c \in Collections |-> [i \in Ids |-> 0]]
  /\ unconverted = [c \in Collections |-> {}]
  /\ warned = {}
  /\ changes = 0 /\ faults = 0
  /\ stayed = [c \in Collections |-> {}]
  /\ disturbed = {}

(* Collections are taken one after the other.                              *)
Idle == \A c \in Collections : progress[c] # "paging"

(* The adapter throws: migrate() rejects, and no file is written.          *)
Throw ==
  /\ faults < MaxFaults
  /\ phase' = "failed"
  /\ faults' = faults + 1
  /\ UNCHANGED <<source, stored, progress, cursor, output, changes, history>>

(* A collection of Firestore or Firebase is there while it has rows.       *)
ListCollections ==
  LET names == IF kind = "supabase" THEN Collections
                                    ELSE {c \in Collections : stored[c] # <<>>}
  IN
  /\ phase = "listing"
  /\ phase' = "exporting"
  /\ progress' = [c \in Collections |-> IF c \in Wanted(names) THEN "todo" ELSE "left out"]
  /\ UNCHANGED <<source, stored, cursor, output, changes, faults, history>>

ListFails == phase = "listing" /\ Throw

(* Mutant: the collections are counted, and read, side by side.            *)
CountAllAtOnce(c) ==
  /\ phase = "exporting" /\ progress[c] = "todo"
  /\ kind # "firebase-realtime"
  /\ progress' = [progress EXCEPT ![c] = "paging"]
  /\ cursor' = 0
  /\ UNCHANGED <<source, stored, phase, output, changes, faults, history>>

(* The number of rows is for the progress shown; Supabase goes on without. *)
Count(c) ==
  /\ phase = "exporting" /\ Idle /\ progress[c] = "todo"
  /\ kind # "firebase-realtime"
  /\ progress' = [progress EXCEPT ![c] = "paging"]
  /\ cursor' = 0
  /\ UNCHANGED <<source, stored, phase, output, changes, faults, history>>

CountFails(c) ==
  /\ phase = "exporting" /\ Idle /\ progress[c] = "todo"
  /\ \/ kind = "firestore" /\ Throw
     \/ /\ kind = "supabase"
        /\ faults < MaxFaults
        /\ faults' = faults + 1
        /\ progress' = [progress EXCEPT ![c] = "paging"]
        /\ cursor' = 0
        /\ UNCHANGED <<source, stored, phase, output, changes, history>>

(* The body of the loop over the rows of a page.                           *)
Convert(c, page) ==
  /\ docs' = [docs EXCEPT ![c] = [i \in Ids |->
                IF i \in page /\ ~Throws(i) THEN @[i] + 1 ELSE @[i]]]
  /\ unconverted' = [unconverted EXCEPT ![c] = @ \union {i \in page : Throws(i)}]
  /\ stayed' = IF cursor = 0 THEN [stayed EXCEPT ![c] = Rows(c)] ELSE stayed
  /\ UNCHANGED <<source, stored, phase, warned, changes, faults, disturbed>>

Advance(c, more) ==
  progress' = [progress EXCEPT ![c] = IF more THEN "paging" ELSE "exported"]

(* range(offset, offset + batchSize - 1), of rows in the order they are    *)
(* stored: the request names no other.                                     *)
FetchRange(c) ==
  LET page == SubSeq(stored[c], cursor + 1,
                     Min({cursor + BatchSize, cursor + cap, Len(stored[c])}))
  IN
  /\ kind = "supabase" /\ progress[c] = "paging" /\ phase = "exporting"
  /\ Convert(c, ToSet(page))
  /\ cursor' = cursor + BatchSize
  /\ Advance(c, Len(page) >= BatchSize)

(* Mutant: a page that failed is taken for the last one.                   *)
FetchRangeEnds(c) ==
  /\ kind = "supabase" /\ progress[c] = "paging" /\ phase = "exporting"
  /\ faults < MaxFaults
  /\ faults' = faults + 1
  /\ progress' = [progress EXCEPT ![c] = "exported"]
  /\ UNCHANGED <<source, stored, phase, cursor, output, changes, history>>

(* What was read of the table is exported all the same.                    *)
FetchRangeFails(c) ==
  /\ kind = "supabase" /\ progress[c] = "paging" /\ phase = "exporting"
  /\ faults < MaxFaults
  /\ faults' = faults + 1
  /\ warned' = warned \union {c}
  /\ progress' = [progress EXCEPT ![c] = "exported"]
  /\ UNCHANGED <<source, stored, phase, cursor, docs, unconverted, changes, history>>

(* Mutant: a page starts at the last document of the one before it.        *)
FetchAt(c) ==
  LET from == {i \in Rows(c) : i >= cursor}
      page == {i \in from : Cardinality({j \in from : j < i}) < BatchSize}
  IN
  /\ kind = "firestore" /\ progress[c] = "paging" /\ phase = "exporting"
  /\ Convert(c, page)
  /\ cursor' = Max(page \union {cursor})
  /\ Advance(c, Cardinality(page) >= BatchSize)

(* limit(batchSize).startAfter(lastDoc), of documents in the order of ids. *)
FetchAfter(c) ==
  LET after == {i \in Rows(c) : i > cursor}
      page  == {i \in after : Cardinality({j \in after : j < i}) < BatchSize}
  IN
  /\ kind = "firestore" /\ progress[c] = "paging" /\ phase = "exporting"
  /\ Convert(c, page)
  /\ cursor' = Max(page \union {cursor})
  /\ Advance(c, Cardinality(page) >= BatchSize)

FetchAfterFails(c) ==
  /\ kind = "firestore" /\ progress[c] = "paging" /\ phase = "exporting"
  /\ Throw

(* A tree is read at once.  One that is gone since the root was read is    *)
(* skipped.                                                                *)
FetchTree(c) ==
  /\ kind = "firebase-realtime" /\ phase = "exporting" /\ progress[c] = "todo"
  /\ Convert(c, Rows(c))
  /\ progress' = [progress EXCEPT ![c] = IF stored[c] = <<>> THEN "left out" ELSE "exported"]
  /\ UNCHANGED cursor

FetchTreeFails(c) ==
  /\ kind = "firebase-realtime" /\ phase = "exporting" /\ progress[c] = "todo"
  /\ Throw

AllExported == \A c \in Collections : progress[c] \in {"exported", "left out"}

WriteOutput ==
  /\ phase = "exporting" /\ AllExported
  /\ phase' = "written"
  /\ UNCHANGED <<source, stored, progress, cursor, output, changes, faults, history>>

WriteFails == phase = "exporting" /\ AllExported /\ Throw

-----------------------------------------------------------------------------
(* The source's own users.  A row that is new, or is updated, is stored    *)
(* wherever there is room.                                                 *)
Change(c, rows) ==
  /\ phase \in {"listing", "exporting"} /\ changes < MaxChanges
  /\ stored' = [stored EXCEPT ![c] = rows]
  /\ changes' = changes + 1
  /\ stayed' = [stayed EXCEPT ![c] = @ \intersect ToSet(rows)]
  /\ disturbed' = IF progress[c] = "paging" /\ cursor > 0 THEN disturbed \union {c} ELSE disturbed
  /\ UNCHANGED <<source, phase, progress, cursor, output, faults>>

Insert(c, i) ==
  /\ i \notin Rows(c)
  /\ \E n \in 1 .. Len(stored[c]) + 1 : Change(c, InsertAt(stored[c], n, i))

Delete(c, i) ==
  \E n \in DOMAIN stored[c] : stored[c][n] = i /\ Change(c, RemoveAt(stored[c], n))

(* An update moves a row of Supabase only.                                 *)
Update(c, i) ==
  /\ kind = "supabase"
  /\ \E n, m \in DOMAIN stored[c] :
       stored[c][n] = i /\ Change(c, InsertAt(RemoveAt(stored[c], n), m, i))

-----------------------------------------------------------------------------
Adapter(c) ==
  \/ Count(c)
  \/ CountFails(c)
  \/ FetchRange(c)
  \/ FetchRangeFails(c)
  \/ FetchAfter(c)
  \/ FetchAfterFails(c)
  \/ FetchTree(c)
  \/ FetchTreeFails(c)

Users(c) == \E i \in Ids :
  \/ Insert(c, i)
  \/ Delete(c, i)
  \/ Update(c, i)

Next ==
  \/ ListCollections
  \/ ListFails
  \/ \E c \in Collections : Adapter(c) \/ Users(c)
  \/ WriteOutput
  \/ WriteFails

Spec == Init /\ [][Next]_vars

-----------------------------------------------------------------------------
(* Properties.                                                             *)

(* Everything stays within its type, and one collection at most is under   *)
(* way (the adapters' loops).                                              *)
TypeOK ==
  /\ kind \in {"supabase", "firestore", "firebase-realtime"}
  /\ cap \in RowCaps
  /\ stored \in [Collections -> Seq(Ids)]
  /\ phase \in {"listing", "exporting", "written", "failed"}
  /\ progress \in [Collections -> {"unlisted", "left out", "todo", "paging", "exported"}]
  /\ \A c, d \in Collections : progress[c] = "paging" /\ progress[d] = "paging" => c = d
  /\ cursor \in Nat
  /\ docs \in [Collections -> [Ids -> Nat]]
  /\ unconverted \in [Collections -> SUBSET Ids]
  /\ warned \subseteq Collections
  /\ changes \in Nat /\ faults \in Nat
  /\ stayed \in [Collections -> SUBSET Ids]
  /\ disturbed \subseteq Collections

(* A row that was there all the while its collection was read is exported, *)
(* or a warning tells of it.  Supabase's ranges promise that only of a     *)
(* table nobody changes between them and of a server that answers as many  *)
(* rows as it is asked for; Firestore's cursor and Firebase's tree do      *)
(* whatever happens (the adapters' loops).                                 *)
LossIsTold ==
  \A c \in Collections : progress[c] = "exported" =>
    \/ \A i \in stayed[c] : docs[c][i] > 0 \/ i \in unconverted[c]
    \/ c \in warned
    \/ kind = "supabase" /\ (c \in disturbed \/ cap < BatchSize)

(* No row becomes two documents, but one of a Supabase table that moved to *)
(* a later range while the table was read (the adapters' loops).           *)
ExportedOnce ==
  \A c \in Collections : \A i \in Ids :
    docs[c][i] > 1 => kind = "supabase" /\ c \in disturbed
=============================================================================
