--------------------------- MODULE AdminImport_proofs ---------------------------
(***************************************************************************)
(* What holds of imports for any files, importers and number of previews,  *)
(* commits and events.                                                     *)
(***************************************************************************)
EXTENDS AdminImport, SequenceTheorems, TLAPS

Id == Nat \X Nat
Marks == {row.mark : row \in RowsSent}
Tiers == Marks \cup {"notable", "critical"}
Key == Keys \cup (Id \X Keys) \cup {Nobody}
Codes == {"duplicate_creator", "handle_conflict", "critical_approval"}

Person == [id : Id, name : Names, tier : Tiers, born : Nat, since : Nat]
Own == [id : Id, name : Names, tier : Tiers]
Record ==
    [id : Id, type : {row.type : row \in RowsSent}, name : Names, key : Key, mark : Marks,
     owner : Id, ask : BOOLEAN, began : Nat]
Sum == (SUBSET Record) \X (SUBSET (Nat \X Codes))
Entry ==
    [by : Importers, sum : Sum, faults : BOOLEAN, records : SUBSET Record,
     status : {"previewed", "completed"}]

PreviewTask ==
    [step : {"rows", "find", "store"}, file : Sent \cup {Unreadable}, at : Nat, serial : Nat,
     began : Nat, found : SUBSET Person, own : SUBSET Own, records : SUBSET Record,
     warnings : SUBSET (Nat \X Codes), faulty : BOOLEAN]
BatchTask == [step : {"batch"}, batch : Nat, serial : Nat]

TripType == [files : {t.files : t \in Trips}, previews : Nat, commits : Nat, events : Nat]

RegistryTyped ==
    /\ people \subseteq Person
    /\ taken \subseteq [key : Key, since : Nat]
    /\ clock \in Nat

StoredTyped == stored \in Seq(Entry)

TasksTyped ==
    /\ task \in [Importers -> PreviewTask \cup BatchTask \cup {Nobody}]
    /\ \A a \in Importers :
          /\ OnStep(a, "rows") => task[a].file \in Sent /\ task[a].at \in 1 .. Len(task[a].file)
          /\ OnStep(a, "batch") => task[a].batch \in DOMAIN stored

ImportTyped == RegistryTyped /\ StoredTyped /\ TasksTyped /\ trip \in TripType

LEMMA TaskAt ==
    ASSUME ImportTyped, NEW a \in Importers
    PROVE  /\ OnStep(a, "rows") \/ OnStep(a, "find") \/ OnStep(a, "store") => task[a] \in PreviewTask
           /\ OnStep(a, "batch") => task[a] \in BatchTask
BY DEF ImportTyped, TasksTyped, OnStep, PreviewTask, BatchTask

LEMMA SentRows ==
    ASSUME ImportConstantsOK, NEW f \in Sent, NEW i \in 1 .. Len(f)
    PROVE  f[i] \in RowsSent /\ f[i].mark \in Marks /\ f[i].name \in Names
<1>1. f \in Seq(RowsSent)
  BY DEF ImportConstantsOK
<1>2. f[i] \in RowsSent
  BY <1>1
<1>3. QED
  BY <1>2 DEF Marks, ImportConstantsOK

(***************************************************************************)
(* A step of one importer.                                                 *)
(***************************************************************************)
LEMMA DoTyped ==
    ASSUME ImportTyped, NEW a \in Importers, NEW t \in PreviewTask \cup BatchTask \cup {Nobody}, Do(a, t),
           t # Nobody /\ t.step = "rows" => t.file \in Sent /\ t.at \in 1 .. Len(t.file),
           t # Nobody /\ t.step = "batch" => t.batch \in DOMAIN stored,
           DOMAIN stored \subseteq DOMAIN stored'
    PROVE  TasksTyped'
<1>1. \A b \in Importers : task'[b] = IF b = a THEN t ELSE task[b]
  BY DEF Do, ImportTyped, TasksTyped
<1>2. task' \in [Importers -> PreviewTask \cup BatchTask \cup {Nobody}]
  BY DEF Do, ImportTyped, TasksTyped
<1>3. ASSUME NEW b \in Importers
      PROVE  /\ OnStep(b, "rows")' => task'[b].file \in Sent /\ task'[b].at \in 1 .. Len(task'[b].file)
             /\ OnStep(b, "batch")' => task'[b].batch \in DOMAIN stored'
  <2>1. CASE b = a
    BY <1>1, <2>1 DEF OnStep
  <2>2. CASE b # a
    <3>1. task'[b] = task[b]
      BY <1>1, <2>2
    <3>2. QED
      BY <3>1 DEF ImportTyped, TasksTyped, OnStep
  <2>3. QED
    BY <2>1, <2>2
<1>4. QED
  BY <1>2, <1>3 DEF TasksTyped

LEMMA QuitTyped ==
    ASSUME ImportTyped, NEW a \in Importers, Do(a, Nobody), DOMAIN stored \subseteq DOMAIN stored'
    PROVE  TasksTyped'
BY DoTyped

(***************************************************************************)
(* What judging a row may do to a call.                                    *)
(***************************************************************************)
NewRecord(t, row, key, owner, ask) ==
    [id |-> <<t.serial, t.at>>, type |-> row.type, name |-> row.name, key |-> key,
     mark |-> row.mark, owner |-> owner, ask |-> ask, began |-> t.began]

LEMMA WarnedFields ==
    ASSUME NEW t \in PreviewTask, NEW codes \in SUBSET Codes
    PROVE  /\ Warned(t, codes) \in PreviewTask
           /\ Warned(t, codes) = [t EXCEPT !.warnings = Warned(t, codes).warnings]
<1>1. {t.at} \X codes \subseteq Nat \X Codes
  BY DEF PreviewTask
<1>2. t.warnings \cup ({t.at} \X codes) \in SUBSET (Nat \X Codes)
  BY <1>1 DEF PreviewTask
<1> DEFINE w == t.warnings \cup ({t.at} \X codes)
<1>3. Warned(t, codes) = [t EXCEPT !.warnings = w]
  BY DEF Warned
<1> HIDE DEF w
<1>4. QED
  BY <1>2, <1>3 DEF PreviewTask, w

LEMMA RecordedFields ==
    ASSUME NEW t \in PreviewTask, NEW row, NEW key, NEW owner, NEW ask \in BOOLEAN,
           NewRecord(t, row, key, owner, ask) \in Record
    PROVE  /\ Recorded(t, row, key, owner, ask) \in PreviewTask
           /\ Recorded(t, row, key, owner, ask) =
              [t EXCEPT !.records = t.records \cup {NewRecord(t, row, key, owner, ask)}]
<1> DEFINE r == NewRecord(t, row, key, owner, ask)
<1>1. t.records \cup {r} \in SUBSET Record
  BY DEF PreviewTask
<1> DEFINE rs == t.records \cup {r}
<1>2. Recorded(t, row, key, owner, ask) = [t EXCEPT !.records = rs]
  BY DEF Recorded, NewRecord
<1> HIDE DEF rs
<1>3. [t EXCEPT !.records = rs] \in PreviewTask
  BY <1>1 DEF PreviewTask, rs
<1>4. QED
  BY <1>2, <1>3 DEF rs

(* The call goes on with the same file and row.                            *)
Frame(t, u) ==
    /\ u \in PreviewTask
    /\ u.step = t.step /\ u.file = t.file /\ u.at = t.at /\ u.serial = t.serial /\ u.began = t.began

FoundWith(t, c) == IF c \in t.own THEN t.found ELSE t.found \cup {c}

OwnOf(t, row) == [id |-> <<t.serial, t.at>>, name |-> row.name, tier |-> row.mark]

(* The ways in which a row is judged.                                      *)
Ignored(t, u) == u.found = t.found /\ u.own = t.own /\ u.records = t.records

Recognised(t, row, u) ==
    /\ u.found = {d \in t.found : d.name # row.name} \cup Oldest(row.name)
    /\ u.own = t.own /\ u.records = t.records

Created(t, row, u) ==
    /\ Named(row.name) = {} /\ \A d \in t.own : d.name # row.name
    /\ u.found = t.found /\ u.own = t.own \cup {OwnOf(t, row)}
    /\ u.records = t.records \cup {NewRecord(t, row, Nobody, <<t.serial, t.at>>, FALSE)}
    /\ row.type = "creator"

Repeated(t, row, c, u) == u.found = FoundWith(t, c) /\ u.own = t.own /\ u.records = t.records

Related(t, row, c, u) ==
    /\ row.type \notin {"creator", "invalid"} /\ row.key \in Keys
    /\ ~Seen(t, row, c)
    /\ u.found = FoundWith(t, c) /\ u.own = t.own
    /\ u.records = t.records \cup {NewRecord(t, row, KeyOf(row, c), c.id, Critical(row, c))}

LEMMA OwnersKnown ==
    ASSUME NEW t, NEW n, NEW c \in OwnerOf(t, n)
    PROVE  c \in t.own \cup t.found \cup people /\ c.name = n
BY DEF OwnerOf, Named

LEMMA RowRecorded ==
    ASSUME NEW t \in PreviewTask, NEW row \in RowsSent, row.name \in Names,
           NEW key \in Key, NEW owner \in Id, NEW ask \in BOOLEAN
    PROVE  NewRecord(t, row, key, owner, ask) \in Record
<1>1. <<t.serial, t.at>> \in Id
  BY DEF PreviewTask, Id
<1>2. QED
  BY <1>1 DEF NewRecord, Record, PreviewTask, Marks

LEMMA CreatorJudged ==
    ASSUME ImportConstantsOK, RegistryTyped, NEW t \in PreviewTask, NEW row \in RowsSent,
           row.type = "creator"
    PROVE  /\ Frame(t, CreatorRow(t, row))
           /\ \/ Ignored(t, CreatorRow(t, row))
              \/ Recognised(t, row, CreatorRow(t, row))
              \/ Created(t, row, CreatorRow(t, row))
<1>1. row.name \in Names /\ row.mark \in Tiers
  BY DEF ImportConstantsOK, Tiers, Marks
<1>2. {"duplicate_creator"} \in SUBSET Codes
  BY DEF Codes
<1>3. PICK w : w = Warned(t, {"duplicate_creator"})
  OBVIOUS
<1>4. w \in PreviewTask /\ w = [t EXCEPT !.warnings = w.warnings]
  BY <1>2, <1>3, WarnedFields
<1>5. Frame(t, w) /\ Ignored(t, w)
  BY <1>4 DEF Frame, Ignored, PreviewTask
<1>6. CASE Named(row.name) # {}
  <2>1. CreatorRow(t, row) = [w EXCEPT !.found = {d \in w.found : d.name # row.name} \cup Oldest(row.name)]
    BY <1>3, <1>6 DEF CreatorRow
  <2>2. {d \in w.found : d.name # row.name} \cup Oldest(row.name) \in SUBSET Person
    BY <1>4 DEF RegistryTyped, Oldest, Named, PreviewTask
  <2> DEFINE f == {d \in w.found : d.name # row.name} \cup Oldest(row.name)
  <2>3. f = {d \in t.found : d.name # row.name} \cup Oldest(row.name)
    BY <1>5 DEF Ignored
  <2> HIDE DEF f
  <2>4. [w EXCEPT !.found = f] \in PreviewTask
    BY <1>4, <2>2 DEF PreviewTask, f
  <2>5. Frame(t, [w EXCEPT !.found = f]) /\ Recognised(t, row, [w EXCEPT !.found = f])
    BY <1>4, <1>5, <2>3, <2>4 DEF Frame, Ignored, Recognised, PreviewTask
  <2>6. QED
    BY <2>1, <2>5 DEF f
<1>7. CASE Named(row.name) = {} /\ \E d \in t.own : d.name = row.name
  BY <1>3, <1>5, <1>7 DEF CreatorRow
<1>8. CASE Named(row.name) = {} /\ ~\E d \in t.own : d.name = row.name
  <2> DEFINE c == OwnOf(t, row)
             v == [t EXCEPT !.own = t.own \cup {c}]
  <2>1. <<t.serial, t.at>> \in Id
    BY DEF PreviewTask, Id
  <2>2. c \in Own /\ c.id = <<t.serial, t.at>>
    BY <1>1, <2>1 DEF Own, OwnOf
  <2>3. t.own \cup {c} \in SUBSET Own
    BY <2>2 DEF PreviewTask
  <2>4. CreatorRow(t, row) = Recorded(v, row, Nobody, <<t.serial, t.at>>, FALSE)
    BY <1>8, <2>2 DEF CreatorRow, OwnOf
  <2> HIDE DEF c
  <2>5. v \in PreviewTask /\ Frame(t, v)
    BY <2>3 DEF PreviewTask, Frame
  <2>6. v.found = t.found /\ v.own = t.own \cup {c} /\ v.records = t.records
    BY DEF PreviewTask
  <2> HIDE DEF v
  <2>7. NewRecord(v, row, Nobody, <<t.serial, t.at>>, FALSE) \in Record
    BY <1>1, <2>1, <2>5, RowRecorded DEF Key
  <2>8. PICK u : u = Recorded(v, row, Nobody, <<t.serial, t.at>>, FALSE)
    OBVIOUS
  <2>9. u \in PreviewTask /\ u = [v EXCEPT !.records = v.records \cup {NewRecord(v, row, Nobody, <<t.serial, t.at>>, FALSE)}]
    BY <2>5, <2>7, <2>8, RecordedFields
  <2>10. NewRecord(v, row, Nobody, <<t.serial, t.at>>, FALSE) = NewRecord(t, row, Nobody, <<t.serial, t.at>>, FALSE)
    BY <2>5 DEF Frame, NewRecord
  <2> DEFINE r == NewRecord(t, row, Nobody, <<t.serial, t.at>>, FALSE)
  <2>11. u = [v EXCEPT !.records = t.records \cup {r}]
    BY <2>6, <2>9, <2>10
  <2> HIDE DEF r
  <2>12. Frame(v, u) /\ u.found = v.found /\ u.own = v.own /\ u.records = t.records \cup {r}
    BY <2>5, <2>9, <2>11 DEF Frame, PreviewTask
  <2>13. Frame(t, u)
    BY <2>5, <2>12 DEF Frame
  <2>14. Created(t, row, u)
    BY <1>8, <2>6, <2>12 DEF Created, c, r
  <2>15. QED
    BY <2>4, <2>8, <2>13, <2>14
<1>9. QED
  BY <1>6, <1>7, <1>8

LEMMA KeyTyped ==
    ASSUME ImportConstantsOK, NEW row \in RowsSent, row.type \notin {"creator", "invalid"},
           NEW c, c.id \in Id
    PROVE  /\ KeyOf(row, c) \in Key /\ KeyOf(row, c) # Nobody
           /\ row.key \in Keys
<1>1. row.key \in Keys
  BY DEF ImportConstantsOK
<1>2. CASE row.type = "alias"
  <2>1. <<c.id, row.key>> \in Id \X Keys
    BY <1>1
  <2>2. QED
    BY <1>1, <1>2, <2>1 DEF KeyOf, Key, ImportConstantsOK, Id
<1>3. CASE row.type # "alias"
  BY <1>1, <1>3 DEF KeyOf, Key, ImportConstantsOK
<1>4. QED
  BY <1>2, <1>3

LEMMA RelatedJudged ==
    ASSUME ImportConstantsOK, RegistryTyped, NEW t \in PreviewTask, NEW row \in RowsSent,
           row.type \notin {"creator", "invalid"}, NEW c \in OwnerOf(t, row.name)
    PROVE  /\ Frame(t, RelatedRow(t, row, c))
           /\ \/ Repeated(t, row, c, RelatedRow(t, row, c))
              \/ Related(t, row, c, RelatedRow(t, row, c))
<1>1. c \in Person \/ c \in t.own
  BY OwnersKnown DEF RegistryTyped, PreviewTask
<1>2. c.id \in Id
  BY <1>1 DEF Person, Own, PreviewTask
<1>3. PICK f : f = FoundWith(t, c)
  OBVIOUS
<1>4. f \in SUBSET Person
  BY <1>1, <1>3 DEF FoundWith, PreviewTask
<1>5. PICK v : v = [t EXCEPT !.found = f]
  OBVIOUS
<1>6. v \in PreviewTask /\ Frame(t, v) /\ v.found = f /\ v.own = t.own /\ v.records = t.records
  BY <1>4, <1>5 DEF PreviewTask, Frame
<1>7. PICK k : k = KeyOf(row, c)
  OBVIOUS
<1>8. k \in Key /\ row.key \in Keys
  BY <1>2, <1>7, KeyTyped
<1>9. PICK ask \in BOOLEAN : ask = Critical(row, c)
  BY DEF Critical
<1>10. CASE Seen(t, row, c)
  <2>1. PICK codes \in SUBSET Codes : codes = IF row.type = "handle" THEN {"handle_conflict"} ELSE {}
    BY DEF Codes
  <2>2. RelatedRow(t, row, c) = Warned(v, codes)
    BY <1>3, <1>5, <1>10, <2>1 DEF RelatedRow, FoundWith
  <2>3. PICK u : u = Warned(v, codes)
    OBVIOUS
  <2>4. u \in PreviewTask /\ u = [v EXCEPT !.warnings = u.warnings]
    BY <1>6, <2>1, <2>3, WarnedFields
  <2>5. Frame(v, u) /\ u.found = v.found /\ u.own = v.own /\ u.records = v.records
    BY <1>6, <2>4 DEF Frame, PreviewTask
  <2>6. Frame(t, u) /\ Repeated(t, row, c, u)
    BY <1>3, <1>6, <2>5 DEF Frame, Repeated
  <2>7. QED
    BY <2>2, <2>3, <2>6
<1>11. CASE ~Seen(t, row, c)
  <2>1. PICK codes \in SUBSET Codes : codes = IF Critical(row, c) THEN {"critical_approval"} ELSE {}
    BY DEF Codes
  <2>2. PICK x : x = Warned(v, codes)
    OBVIOUS
  <2>3. x \in PreviewTask /\ x = [v EXCEPT !.warnings = x.warnings]
    BY <1>6, <2>1, <2>2, WarnedFields
  <2>4. Frame(v, x) /\ x.found = v.found /\ x.own = v.own /\ x.records = v.records
    BY <1>6, <2>3 DEF Frame, PreviewTask
  <2>5. RelatedRow(t, row, c) = Recorded(x, row, k, c.id, ask)
    BY <1>3, <1>5, <1>7, <1>9, <1>11, <2>1, <2>2 DEF RelatedRow, FoundWith
  <2>6. row.name \in Names
    BY DEF ImportConstantsOK
  <2>7. PICK id \in Id : id = c.id
    BY <1>2
  <2>8. NewRecord(x, row, k, id, ask) \in Record
    BY <1>8, <1>9, <2>3, <2>6, <2>7, RowRecorded
  <2>9. NewRecord(x, row, k, id, ask) = NewRecord(t, row, k, id, ask)
    BY <1>6, <2>4 DEF Frame, NewRecord
  <2>10. PICK u : u = Recorded(x, row, k, id, ask)
    OBVIOUS
  <2>11. u \in PreviewTask /\ u = [x EXCEPT !.records = x.records \cup {NewRecord(x, row, k, id, ask)}]
    BY <2>3, <2>8, <2>10, RecordedFields
  <2>12. PICK r : r = NewRecord(t, row, k, id, ask)
    OBVIOUS
  <2>13. u = [x EXCEPT !.records = t.records \cup {r}]
    BY <1>6, <2>4, <2>9, <2>11, <2>12
  <2>14. Frame(x, u) /\ u.found = x.found /\ u.own = x.own /\ u.records = t.records \cup {r}
    BY <2>3, <2>11, <2>13 DEF Frame, PreviewTask
  <2>15. Frame(t, u) /\ u.found = f /\ u.own = t.own /\ u.records = t.records \cup {r}
    BY <1>6, <2>4, <2>14 DEF Frame
  <2>16. r = NewRecord(t, row, KeyOf(row, c), c.id, Critical(row, c))
    BY <1>7, <1>9, <2>7, <2>12
  <2>17. Related(t, row, c, u)
    BY <1>3, <1>8, <1>11, <2>15, <2>16 DEF Related
  <2>18. QED
    BY <2>5, <2>7, <2>10, <2>15, <2>17
<1>12. QED
  BY <1>10, <1>11

LEMMA Judging ==
    ASSUME ImportConstantsOK, ImportTyped, NEW a \in Importers, OnStep(a, "rows"),
           NEW t, t = task[a], NEW row, row = t.file[t.at], NEW u \in Judged(t, row)
    PROVE  /\ t \in PreviewTask /\ row \in RowsSent /\ row.mark \in Marks /\ row.name \in Names
           /\ t.at \in 1 .. Len(t.file) /\ t.file \in Sent
           /\ Frame(t, u)
           /\ \/ Ignored(t, u)
              \/ Recognised(t, row, u)
              \/ Created(t, row, u)
              \/ \E c \in OwnerOf(t, row.name) : Repeated(t, row, c, u) \/ Related(t, row, c, u)
<1>1. t \in PreviewTask /\ t.file \in Sent /\ t.at \in 1 .. Len(t.file)
  BY TaskAt DEF ImportTyped, TasksTyped
<1>2. row \in RowsSent /\ row.mark \in Marks /\ row.name \in Names
  BY <1>1, SentRows
<1>3. CASE u = Faulty(t)
  BY <1>1, <1>2, <1>3 DEF Faulty, Frame, Ignored, PreviewTask
<1>4. CASE row.type = "creator" /\ u = CreatorRow(t, row)
  BY <1>1, <1>2, <1>4, CreatorJudged DEF ImportTyped
<1>5. CASE row.type \notin {"creator", "invalid"} /\ \E c \in OwnerOf(t, row.name) : u = RelatedRow(t, row, c)
  BY <1>1, <1>2, <1>5, RelatedJudged DEF ImportTyped
<1>6. QED
  BY <1>3, <1>4, <1>5 DEF Judged

(* The call after a row that was judged.                                   *)
Onward(u) == IF u.at = Len(u.file) THEN [u EXCEPT !.step = "find"] ELSE [u EXCEPT !.at = @ + 1]

LEMMA OnwardFields ==
    ASSUME NEW u \in PreviewTask, u.file \in Sent, u.at \in 1 .. Len(u.file), u.step = "rows",
           Len(u.file) \in Nat
    PROVE  /\ Onward(u) \in PreviewTask
           /\ Onward(u).step \in {"rows", "find"}
           /\ Onward(u).step = "rows" => Onward(u).at = u.at + 1 /\ Onward(u).at \in 1 .. Len(u.file)
           /\ Onward(u).step = "find" => Onward(u).at = u.at
           /\ Onward(u).file = u.file /\ Onward(u).serial = u.serial /\ Onward(u).began = u.began
           /\ Onward(u).found = u.found /\ Onward(u).own = u.own /\ Onward(u).records = u.records
<1>1. CASE u.at = Len(u.file)
  BY <1>1 DEF Onward, PreviewTask
<1>2. CASE u.at # Len(u.file)
  <2>1. u.at + 1 \in Nat /\ u.at + 1 \in 1 .. Len(u.file)
    BY <1>2
  <2>2. PICK n : n = u.at + 1
    OBVIOUS
  <2>3. Onward(u) = [u EXCEPT !.at = n]
    BY <1>2, <2>2 DEF Onward
  <2>4. QED
    BY <2>1, <2>2, <2>3 DEF PreviewTask
<1>3. QED
  BY <1>1, <1>2

LEMMA SentLength == ASSUME ImportConstantsOK, NEW f \in Sent PROVE Len(f) \in Nat /\ Len(f) >= 1
<1>1. f \in Seq(RowsSent) /\ f # <<>>
  BY DEF ImportConstantsOK
<1>2. QED
  BY <1>1, EmptySeq

LEMMA ImportJudgeTyped ==
    ASSUME ImportConstantsOK, ImportTyped, NEW a \in Importers, JudgeRow(a)
    PROVE  /\ ImportTyped'
           /\ UNCHANGED <<registryVars, stored, trip, asked, surprises, answered>>
           /\ \E t, row, u :
                 /\ t = task[a] /\ row = t.file[t.at] /\ u \in Judged(t, row)
                 /\ OnStep(a, "rows") /\ Do(a, Onward(u))
                 /\ u.step = "rows" /\ u.at = t.at
<1>1. UNCHANGED <<registryVars, stored, trip, asked, surprises, answered>>
  BY DEF JudgeRow
<1>2. PICK t, row : t = task[a] /\ row = t.file[t.at]
  OBVIOUS
<1>3. OnStep(a, "rows") /\ t.step = "rows"
  BY <1>2 DEF JudgeRow, OnStep
<1>4. PICK u \in Judged(t, row) : Do(a, Onward(u))
  BY <1>2 DEF JudgeRow, Onward
<1>5. t \in PreviewTask /\ t.file \in Sent /\ t.at \in 1 .. Len(t.file) /\ Frame(t, u)
  BY <1>2, <1>3, <1>4, Judging
<1>6. u \in PreviewTask /\ u.file = t.file /\ u.at = t.at /\ u.step = "rows"
  BY <1>3, <1>5 DEF Frame
<1>7. /\ Onward(u) \in PreviewTask /\ Onward(u).step \in {"rows", "find"}
      /\ Onward(u).step = "rows" => Onward(u).at \in 1 .. Len(Onward(u).file)
      /\ Onward(u).file \in Sent
  BY <1>5, <1>6, OnwardFields, SentLength
<1>8. TasksTyped'
  BY <1>1, <1>4, <1>7, DoTyped
<1>9. ImportTyped'
  BY <1>1, <1>8 DEF ImportTyped, registryVars, RegistryTyped, StoredTyped
<1>10. QED
  BY <1>1, <1>2, <1>3, <1>4, <1>6, <1>9

LEMMA TripLess ==
    ASSUME ImportTyped, NEW what \in {"previews", "commits", "events"}, Less(what)
    PROVE  /\ trip' \in TripType /\ trip'[what] = trip[what] - 1 /\ trip[what] > 0
           /\ \A x \in {"previews", "commits", "events"} \ {what} : trip'[x] = trip[x]
           /\ trip'.files = trip.files
<1>1. trip[what] \in Nat /\ trip[what] > 0
  BY DEF ImportTyped, TripType, Less
<1>2. trip' = [trip EXCEPT ![what] = trip[what] - 1]
  BY DEF Less
<1>3. trip[what] - 1 \in Nat
  BY <1>1
<1>4. PICK n \in Nat : n = trip[what] - 1
  BY <1>3
<1>5. trip' = [trip EXCEPT ![what] = n]
  BY <1>2, <1>4
<1>6. trip' \in TripType /\ trip'[what] = n /\ trip'.files = trip.files
      /\ \A x \in {"previews", "commits", "events"} \ {what} : trip'[x] = trip[x]
  BY <1>5 DEF ImportTyped, TripType
<1>7. QED
  BY <1>1, <1>4, <1>6

Started(f) ==
    [step |-> IF f = Unreadable THEN "find" ELSE "rows", file |-> f, at |-> 1,
     serial |-> trip.previews, began |-> clock, found |-> {}, own |-> {},
     records |-> {}, warnings |-> {}, faulty |-> f = Unreadable]

LEMMA PreviewTyped ==
    ASSUME ImportConstantsOK, ImportTyped, NEW a \in Importers, NEW f \in trip.files, PreviewFile(a, f)
    PROVE  /\ ImportTyped'
           /\ UNCHANGED <<registryVars, stored, asked, surprises, answered>>
           /\ Less("previews") /\ Do(a, Started(f)) /\ task[a] = Nobody
           /\ Started(f) \in PreviewTask
<1>1. /\ UNCHANGED <<registryVars, stored, asked, surprises, answered>>
      /\ Less("previews") /\ Do(a, Started(f)) /\ task[a] = Nobody
  BY DEF PreviewFile, Started
<1>2. f \in Sent \cup {Unreadable}
  <2>1. trip.files \in {t.files : t \in Trips}
    BY DEF ImportTyped, TripType
  <2>2. PICK t \in Trips : trip.files = t.files
    BY <2>1
  <2>3. QED
    BY <2>2 DEF Sent
<1>3. trip.previews \in Nat /\ clock \in Nat
  BY DEF ImportTyped, TripType, RegistryTyped
<1>4. Started(f) \in PreviewTask
  BY <1>2, <1>3 DEF Started, PreviewTask
<1>5. Started(f).step = "rows" => Started(f).file \in Sent /\ Started(f).at \in 1 .. Len(Started(f).file)
  <2>1. SUFFICES ASSUME f # Unreadable PROVE f \in Sent /\ 1 \in 1 .. Len(f)
    BY DEF Started
  <2>2. f \in Sent
    BY <1>2, <2>1
  <2>3. QED
    BY <2>2, SentLength
<1>6. TasksTyped'
  BY <1>1, <1>4, <1>5, DoTyped DEF Started
<1>7. trip' \in TripType
  BY <1>1, TripLess
<1>8. QED
  BY <1>1, <1>4, <1>6, <1>7 DEF ImportTyped, registryVars, RegistryTyped, StoredTyped

LEMMA CommitTyped ==
    ASSUME ImportTyped, NEW a \in Importers, NEW i \in DOMAIN stored, Commit(a, i)
    PROVE  /\ ImportTyped'
           /\ UNCHANGED <<registryVars, stored, asked, surprises, answered>>
           /\ trip'.previews = trip.previews
           /\ \E t \in BatchTask : Do(a, t)
<1>1. /\ UNCHANGED <<registryVars, stored, asked, surprises, answered>>
      /\ Less("commits") /\ Do(a, [step |-> "batch", batch |-> i, serial |-> trip.commits])
  BY DEF Commit
<1>2. trip.commits \in Nat /\ i \in Nat
  BY DEF ImportTyped, TripType, StoredTyped
<1> DEFINE t == [step |-> "batch", batch |-> i, serial |-> trip.commits]
<1>3. t \in BatchTask /\ t.step = "batch" /\ t.batch = i
  BY <1>2 DEF BatchTask
<1> HIDE DEF t
<1>4. TasksTyped'
  BY <1>1, <1>3, DoTyped DEF t
<1>5. trip' \in TripType /\ trip'.previews = trip.previews
  BY <1>1, TripLess
<1>6. QED
  BY <1>1, <1>3, <1>4, <1>5 DEF ImportTyped, registryVars, RegistryTyped, StoredTyped, t

LEMMA FindTyped ==
    ASSUME ImportTyped, NEW a \in Importers, FindPreview(a)
    PROVE  /\ ImportTyped'
           /\ UNCHANGED <<registryVars, stored, trip, asked, surprises>>
           /\ \/ /\ Same(a) = {} /\ UNCHANGED answered
                 /\ task[a] \in PreviewTask /\ OnStep(a, "find") /\ Do(a, [task[a] EXCEPT !.step = "store"])
              \/ \E i \in Same(a) : Answer(a, stored[i].faults)
<1>1. UNCHANGED <<registryVars, stored, trip, asked, surprises>>
  BY DEF FindPreview
<1>2. task[a] \in PreviewTask /\ OnStep(a, "find")
  BY TaskAt DEF FindPreview
<1>3. CASE Same(a) = {}
  <2>1. Do(a, [task[a] EXCEPT !.step = "store"]) /\ UNCHANGED answered
    BY <1>3 DEF FindPreview
  <2>2. PICK t : t = [task[a] EXCEPT !.step = "store"]
    OBVIOUS
  <2>3. t \in PreviewTask /\ t.step = "store"
    BY <1>2, <2>2 DEF PreviewTask
  <2>4. TasksTyped'
    BY <1>1, <2>1, <2>2, <2>3, DoTyped
  <2>5. QED
    BY <1>1, <1>2, <1>3, <2>1, <2>4 DEF ImportTyped, registryVars, RegistryTyped, StoredTyped
<1>4. CASE Same(a) # {}
  <2>1. PICK i \in Same(a) : Answer(a, stored[i].faults)
    BY <1>4 DEF FindPreview
  <2>2. TasksTyped'
    BY <1>1, <2>1, QuitTyped DEF Answer
  <2>3. QED
    BY <1>1, <2>1, <2>2 DEF ImportTyped, registryVars, RegistryTyped, StoredTyped
<1>5. QED
  BY <1>3, <1>4

(* What is put on record for a preview.                                    *)
EntryOf(a) ==
    [by |-> a, sum |-> Checksum(task[a]), faults |-> task[a].faulty,
     records |-> task[a].records, status |-> "previewed"]

LEMMA ImportStoreTyped ==
    ASSUME ImportTyped, NEW a \in Importers, StorePreview(a)
    PROVE  /\ ImportTyped'
           /\ UNCHANGED <<registryVars, trip, asked, surprises>>
           /\ task[a] \in PreviewTask /\ EntryOf(a) \in Entry
           /\ stored' = Append(stored, EntryOf(a))
           /\ DOMAIN stored' = DOMAIN stored \cup {Len(stored) + 1} /\ Len(stored) + 1 \notin DOMAIN stored
           /\ stored'[Len(stored) + 1] = EntryOf(a)
           /\ \A i \in DOMAIN stored : stored'[i] = stored[i]
           /\ Answer(a, task[a].faulty)
<1>1. UNCHANGED <<registryVars, trip, asked, surprises>> /\ Answer(a, task[a].faulty)
  BY DEF StorePreview
<1>2. task[a] \in PreviewTask
  BY TaskAt DEF StorePreview
<1>3. EntryOf(a) \in Entry
  BY <1>2 DEF EntryOf, Entry, Sum, Checksum, PreviewTask
<1>4. PICK e \in Entry : e = EntryOf(a)
  BY <1>3
<1>5. stored' = Append(stored, e) /\ stored \in Seq(Entry)
  BY <1>4 DEF StorePreview, EntryOf, ImportTyped, StoredTyped
<1>6. /\ stored' \in Seq(Entry)
      /\ DOMAIN stored' = DOMAIN stored \cup {Len(stored) + 1} /\ Len(stored) + 1 \notin DOMAIN stored
      /\ stored'[Len(stored) + 1] = e
      /\ \A i \in DOMAIN stored : stored'[i] = stored[i]
  BY <1>5, AppendProperties
<1>7. TasksTyped'
  BY <1>1, <1>6, QuitTyped DEF Answer
<1>8. QED
  BY <1>1, <1>2, <1>3, <1>4, <1>5, <1>6, <1>7 DEF ImportTyped, registryVars, RegistryTyped, StoredTyped

Live(i) == {r \in stored[i].records : ~r.ask}

LEMMA BatchTyped ==
    ASSUME ImportTyped, NEW a \in Importers, CommitPreview(a)
    PROVE  /\ ImportTyped'
           /\ UNCHANGED <<trip, answered>>
           /\ \E i \in DOMAIN stored :
                 /\ i = task[a].batch /\ stored[i].status = "previewed" /\ stored[i] \in Entry
                 /\ clock' = clock + 1
                 /\ people' = people \cup Born(Live(i))
                 /\ taken' = taken \cup Inserted(Live(i))
                 /\ DOMAIN stored' = DOMAIN stored
                 /\ stored'[i] = [stored[i] EXCEPT !.status = "completed"]
                 /\ \A j \in DOMAIN stored \ {i} : stored'[j] = stored[j]
                 /\ asked' = asked \cup {<<r.id, task[a].serial>> : r \in stored[i].records \ Live(i)}
                 /\ surprises' = surprises \cup UNION {{r.began} \X Met(Live(i), r) : r \in Live(i)}
                 /\ Do(a, Nobody)
<1>1. PICK i : i = task[a].batch
  OBVIOUS
<1>2. i \in DOMAIN stored
  BY <1>1 DEF CommitPreview, ImportTyped, TasksTyped
<1>3. i \in 1 .. Len(stored) /\ stored[i] \in Entry
  BY <1>2 DEF ImportTyped, StoredTyped
<1>4. /\ clock' = clock + 1 /\ Do(a, Nobody) /\ UNCHANGED <<trip, answered>>
      /\ stored[i].status = "previewed"
      /\ stored' = Completed(i)
  BY <1>1 DEF CommitPreview, Fresh
<1>5. people' = people \cup Born(Live(i)) /\ taken' = taken \cup Inserted(Live(i))
  BY <1>1 DEF CommitPreview, Live
<1>6. /\ asked' = asked \cup {<<r.id, task[a].serial>> : r \in stored[i].records \ Live(i)}
      /\ surprises' = surprises \cup UNION {{r.began} \X Met(Live(i), r) : r \in Live(i)}
  BY <1>1 DEF CommitPreview, Live
<1>7. PICK e : e = [stored[i] EXCEPT !.status = "completed"]
  OBVIOUS
<1>8. e \in Entry
  BY <1>3, <1>7 DEF Entry
<1>9. stored' = [stored EXCEPT ![i] = e]
  BY <1>4, <1>7 DEF Completed
<1>10. /\ stored' \in Seq(Entry) /\ DOMAIN stored' = DOMAIN stored
       /\ stored'[i] = e /\ \A j \in DOMAIN stored \ {i} : stored'[j] = stored[j]
  BY <1>3, <1>8, <1>9, ExceptSeq DEF ImportTyped, StoredTyped
<1>11. clock' \in Nat
  BY <1>4 DEF ImportTyped, RegistryTyped
<1>12. \A r \in Live(i) : r \in Record
  BY <1>3 DEF Live, Entry
<1>13. Born(Live(i)) \subseteq Person
  BY <1>11, <1>12 DEF Born, Person, Record, Tiers
<1>14. Inserted(Live(i)) \subseteq [key : Key, since : Nat]
  BY <1>11, <1>12 DEF Inserted, Record
<1>15. RegistryTyped'
  BY <1>5, <1>11, <1>13, <1>14 DEF ImportTyped, RegistryTyped
<1>16. TasksTyped'
  BY <1>4, <1>10, QuitTyped
<1>17. ImportTyped'
  BY <1>4, <1>10, <1>15, <1>16 DEF ImportTyped, StoredTyped
<1>18. QED
  BY <1>1, <1>2, <1>3, <1>4, <1>5, <1>6, <1>7, <1>10, <1>17

(* What else writes to the Registry.                                       *)
Meanwhile ==
    \/ \E n \in Names : NewCreator(n)
    \/ \E c \in people : Promote(c)
    \/ \E k \in Keys : NewHandle(k)

LEMMA MeanwhileTyped ==
    ASSUME ImportTyped, Meanwhile
    PROVE  /\ ImportTyped'
           /\ UNCHANGED <<stored, task, asked, surprises, answered>>
           /\ trip'.previews = trip.previews
           /\ clock' = clock + 1
<1>1. /\ UNCHANGED <<stored, task, asked, surprises, answered>>
      /\ Less("events") /\ clock' = clock + 1
  BY DEF Meanwhile, NewCreator, Promote, NewHandle
<1>2. trip' \in TripType /\ trip'.previews = trip.previews
  BY <1>1, TripLess
<1>3. clock \in Nat /\ clock' \in Nat
  BY <1>1 DEF ImportTyped, RegistryTyped
<1>4. ASSUME NEW n \in Names, NewCreator(n) PROVE RegistryTyped'
  <2>1. [id |-> <<0, clock'>>, name |-> n, tier |-> "notable", born |-> clock', since |-> clock'] \in Person
    BY <1>3 DEF Person, Id, Tiers
  <2>2. QED
    BY <1>3, <1>4, <2>1 DEF NewCreator, ImportTyped, RegistryTyped
<1>5. ASSUME NEW c \in people, Promote(c) PROVE RegistryTyped'
  <2>1. PICK d : d = [c EXCEPT !.tier = "critical", !.since = clock']
    OBVIOUS
  <2>2. d \in Person
    BY <1>3, <2>1 DEF ImportTyped, RegistryTyped, Person, Tiers
  <2>3. people' = (people \ {c}) \cup {d}
    BY <1>5, <2>1 DEF Promote
  <2>4. QED
    BY <1>3, <1>5, <2>2, <2>3 DEF Promote, ImportTyped, RegistryTyped
<1>6. ASSUME NEW k \in Keys, NewHandle(k) PROVE RegistryTyped'
  BY <1>3, <1>6 DEF NewHandle, ImportTyped, RegistryTyped, Key
<1>7. RegistryTyped'
  BY <1>4, <1>5, <1>6 DEF Meanwhile
<1>8. ImportTyped'
  BY <1>1, <1>2, <1>7, Zenon DEF ImportTyped, StoredTyped, TasksTyped, OnStep
<1>9. QED
  BY <1>1, <1>2, <1>8

(***************************************************************************)
(* The Registry only grows: what a step adds bears a later stamp.          *)
(***************************************************************************)
Grows ==
    /\ clock <= clock'
    /\ \A p \in people' \ people :
          /\ clock < p.since
          /\ clock < p.born \/ \E q \in people : q.name = p.name /\ q.born = p.born
    /\ \A x \in taken' \ taken : clock < x.since

(* What was so when a record was made, and what came later.                *)
RecordHolds(r) ==
    /\ r.began <= clock
    /\ r.type = "creator" => \A c \in people : c.name = r.name => r.began < c.born
    /\ r.type # "creator" => \A x \in taken : x.key = r.key => r.began < x.since
    /\ r.type # "creator" /\ r.mark = "hard_reserved" /\ ~r.ask =>
          \A p \in people : p.id = r.owner /\ p.tier = "critical" => r.began < p.since

FoundHolds(c, began) == \A p \in people : p.id = c.id => p = c \/ began < p.since

LEMMA RecordLasts ==
    ASSUME RegistryTyped, RegistryTyped', Grows, NEW r \in Record, RecordHolds(r)
    PROVE  RecordHolds(r)'
<1>1. r.began \in Nat /\ clock \in Nat /\ clock' \in Nat /\ r.began <= clock /\ clock <= clock'
  BY DEF RegistryTyped, Record, RecordHolds, Grows
<1>2. /\ \A p \in people \cup people' : p.born \in Nat /\ p.since \in Nat
      /\ \A x \in taken \cup taken' : x.since \in Nat
  BY DEF RegistryTyped, Person
<1>3. ASSUME r.type = "creator", NEW c \in people', c.name = r.name PROVE r.began < c.born
  <2>1. CASE c \in people
    BY <1>3, <2>1 DEF RecordHolds
  <2>2. CASE c \notin people
    <3>1. clock < c.born \/ \E q \in people : q.name = c.name /\ q.born = c.born
      BY <1>3, <2>2 DEF Grows
    <3>2. CASE clock < c.born
      BY <1>1, <1>2, <1>3, <3>2
    <3>3. CASE \E q \in people : q.name = c.name /\ q.born = c.born
      BY <1>3, <3>3 DEF RecordHolds
    <3>4. QED
      BY <3>1, <3>2, <3>3
  <2>3. QED
    BY <2>1, <2>2
<1>4. ASSUME r.type # "creator", NEW x \in taken', x.key = r.key PROVE r.began < x.since
  <2>1. CASE x \in taken
    BY <1>4, <2>1 DEF RecordHolds
  <2>2. CASE x \notin taken
    <3>1. clock < x.since
      BY <1>4, <2>2 DEF Grows
    <3>2. QED
      BY <1>1, <1>2, <1>4, <3>1
  <2>3. QED
    BY <2>1, <2>2
<1>5. ASSUME r.type # "creator", r.mark = "hard_reserved", ~r.ask,
             NEW p \in people', p.id = r.owner, p.tier = "critical"
      PROVE  r.began < p.since
  <2>1. CASE p \in people
    BY <1>5, <2>1 DEF RecordHolds
  <2>2. CASE p \notin people
    <3>1. clock < p.since
      BY <1>5, <2>2 DEF Grows
    <3>2. QED
      BY <1>1, <1>2, <1>5, <3>1
  <2>3. QED
    BY <2>1, <2>2
<1>6. r.began <= clock'
  BY <1>1
<1>7. QED
  BY <1>3, <1>4, <1>5, <1>6 DEF RecordHolds

LEMMA FoundLasts ==
    ASSUME RegistryTyped, RegistryTyped', Grows, NEW c, NEW began \in Nat, began <= clock,
           FoundHolds(c, began)
    PROVE  FoundHolds(c, began)'
<1>1. ASSUME NEW p \in people', p.id = c.id, p # c PROVE began < p.since
  <2>1. CASE p \in people
    BY <1>1, <2>1 DEF FoundHolds
  <2>2. CASE p \notin people
    <3>1. clock < p.since
      BY <1>1, <2>2 DEF Grows
    <3>2. p.since \in Nat /\ clock \in Nat
      BY <1>1 DEF RegistryTyped, Person
    <3>3. QED
      BY <3>1, <3>2
  <2>3. QED
    BY <2>1, <2>2
<1>2. QED
  BY <1>1 DEF FoundHolds

(* No two creators have one identifier, no two rows one key; identifiers   *)
(* that no preview made up bear a stamp that was given.                    *)
Identified ==
    /\ \A c, d \in people : c.id = d.id => c = d
    /\ \A x, y \in taken : x.key = y.key => x = y
    /\ \A c \in people : c.id[1] = 0 => c.id[2] <= clock

LEMMA MeanwhileGrows ==
    ASSUME ImportTyped, Identified, Meanwhile
    PROVE  /\ Grows /\ Identified'
           /\ \A p \in people' : p.id[1] = 0 \/ \E q \in people : q.id = p.id
<1>1. clock \in Nat /\ clock' = clock + 1 /\ clock < clock' /\ clock <= clock'
  BY MeanwhileTyped DEF ImportTyped, RegistryTyped
<1>2. \A p \in people : p.id \in Id
  BY DEF ImportTyped, RegistryTyped, Person
<1>3. ASSUME NEW n \in Names, NewCreator(n)
      PROVE  /\ Grows /\ Identified'
             /\ \A p \in people' : p.id[1] = 0 \/ \E q \in people : q.id = p.id
  <2>1. PICK d : d = [id |-> <<0, clock'>>, name |-> n, tier |-> "notable", born |-> clock', since |-> clock']
    OBVIOUS
  <2>2. people' = people \cup {d} /\ taken' = taken
    BY <1>3, <2>1 DEF NewCreator
  <2>3. d.id = <<0, clock'>> /\ d.born = clock' /\ d.since = clock' /\ d.id[1] = 0 /\ d.id[2] = clock'
    BY <2>1
  <2>4. \A p \in people : p.id # d.id
    <3>1. SUFFICES ASSUME NEW p \in people, p.id = d.id PROVE FALSE
      OBVIOUS
    <3>2. p.id[1] = 0 /\ p.id[2] = clock'
      BY <2>3, <3>1
    <3>3. QED
      BY <1>1, <3>1, <3>2 DEF Identified
  <2>5. Grows
    BY <1>1, <2>2, <2>3 DEF Grows
  <2>6. \A c \in people : c.id[1] = 0 => c.id[2] <= clock'
    <3>1. SUFFICES ASSUME NEW c \in people, c.id[1] = 0 PROVE c.id[2] <= clock'
      OBVIOUS
    <3>2. c.id[2] <= clock /\ c.id[2] \in Nat
      BY <1>2, <3>1 DEF Identified, Id
    <3>3. QED
      BY <1>1, <3>2
  <2>7. Identified'
    BY <1>1, <2>2, <2>3, <2>4, <2>6 DEF Identified
  <2>8. QED
    BY <2>2, <2>3, <2>5, <2>7
<1>4. ASSUME NEW c \in people, Promote(c)
      PROVE  /\ Grows /\ Identified'
             /\ \A p \in people' : p.id[1] = 0 \/ \E q \in people : q.id = p.id
  <2>1. PICK d : d = [c EXCEPT !.tier = "critical", !.since = clock']
    OBVIOUS
  <2>2. people' = (people \ {c}) \cup {d} /\ taken' = taken
    BY <1>4, <2>1 DEF Promote
  <2>3. d.id = c.id /\ d.name = c.name /\ d.born = c.born /\ d.since = clock'
    BY <2>1 DEF ImportTyped, RegistryTyped, Person
  <2>4. Grows
    BY <1>1, <2>2, <2>3 DEF Grows
  <2>5. \A p \in people' : \E q \in people : q.id = p.id
    BY <2>2, <2>3
  <2>6. \A p, q \in people' : p.id = q.id => p = q
    BY <2>2, <2>3 DEF Identified
  <2>7. \A p \in people : p.id[1] = 0 => p.id[2] <= clock'
    <3>1. SUFFICES ASSUME NEW p \in people, p.id[1] = 0 PROVE p.id[2] <= clock'
      OBVIOUS
    <3>2. p.id[2] <= clock /\ p.id[2] \in Nat
      BY <1>2, <3>1 DEF Identified, Id
    <3>3. QED
      BY <1>1, <3>2
  <2>8. \A p \in people' : p.id[1] = 0 => p.id[2] <= clock'
    BY <2>5, <2>7
  <2>9. Identified'
    BY <2>2, <2>6, <2>8 DEF Identified
  <2>10. QED
    BY <2>4, <2>5, <2>9
<1>5. ASSUME NEW k \in Keys, NewHandle(k)
      PROVE  /\ Grows /\ Identified'
             /\ \A p \in people' : p.id[1] = 0 \/ \E q \in people : q.id = p.id
  <2>1. people' = people /\ taken' = taken \cup {[key |-> k, since |-> clock']} /\ ~OnRecord(k)
    BY <1>5 DEF NewHandle
  <2>2. Grows
    BY <1>1, <2>1 DEF Grows
  <2>3. \A x, y \in taken' : x.key = y.key => x = y
    BY <2>1 DEF OnRecord, Identified
  <2>4. \A c \in people : c.id[1] = 0 => c.id[2] <= clock'
    <3>1. SUFFICES ASSUME NEW c \in people, c.id[1] = 0 PROVE c.id[2] <= clock'
      OBVIOUS
    <3>2. c.id[2] <= clock /\ c.id[2] \in Nat
      BY <1>2, <3>1 DEF Identified, Id
    <3>3. QED
      BY <1>1, <3>2
  <2>5. Identified'
    BY <2>1, <2>3, <2>4 DEF Identified
  <2>6. QED
    BY <2>1, <2>2, <2>5
<1>6. QED
  BY <1>3, <1>4, <1>5 DEF Meanwhile

(***************************************************************************)
(* Identifiers: each preview makes up its own.                             *)
(***************************************************************************)
Previewing(a) == task[a] \in PreviewTask \ {Nobody}

Serials ==
    /\ \A a \in Importers : Previewing(a) => trip.previews < task[a].serial
    /\ \A a, b \in Importers :
          Previewing(a) /\ Previewing(b) /\ task[a].serial = task[b].serial => a = b
    /\ \A i \in DOMAIN stored : \A r \in stored[i].records : trip.previews < r.id[1]
    /\ \A i \in DOMAIN stored, a \in Importers : \A r \in stored[i].records :
          Previewing(a) => r.id[1] # task[a].serial
    /\ \A i, j \in DOMAIN stored : \A r \in stored[i].records, q \in stored[j].records :
          r.id[1] = q.id[1] => i = j
    /\ \A p \in people : p.id[1] = 0 \/ trip.previews < p.id[1]
    /\ \A p \in people, a \in Importers : Previewing(a) => p.id[1] # task[a].serial

(* The records of one preview go together.                                 *)
Agree(rs) ==
    /\ \A r, x \in rs : r.id = x.id => r = x
    /\ \A r, x \in rs : r.type = "creator" /\ x.type = "creator" /\ r.name = x.name => r = x
    /\ \A r, x \in rs : r.type # "creator" /\ x.key = r.key => r = x
    /\ \A r, x \in rs :
          /\ r.type # "creator" /\ r.mark = "hard_reserved" /\ ~r.ask
          /\ x.type = "creator" /\ x.id = r.owner
          => x.mark # "critical"

Storing ==
    \A i \in DOMAIN stored :
        /\ Agree(stored[i].records)
        /\ \A r \in stored[i].records : RecordHolds(r)
        /\ stored[i].sum[1] = stored[i].records

LEMMA EntryTyped ==
    ASSUME ImportTyped, NEW i \in DOMAIN stored
    PROVE  stored[i] \in Entry /\ stored[i].records \subseteq Record
<1>1. i \in 1 .. Len(stored) /\ stored[i] \in Entry
  BY DEF ImportTyped, StoredTyped
<1>2. stored[i].records \in SUBSET Record
  BY <1>1 DEF Entry
<1>3. QED
  BY <1>1, <1>2

LEMMA BatchGrows ==
    ASSUME ImportTyped, Identified, Storing, Serials, NEW a \in Importers, CommitPreview(a)
    PROVE  /\ Grows /\ Identified'
           /\ \A p \in people' :
                 p \in people \/ \E i \in DOMAIN stored : \E r \in stored[i].records : p.id = r.id
<1>1. PICK i \in DOMAIN stored :
          /\ clock' = clock + 1
          /\ people' = people \cup Born(Live(i))
          /\ taken' = taken \cup Inserted(Live(i))
  BY BatchTyped
<1>2. clock \in Nat /\ clock' = clock + 1 /\ clock < clock' /\ clock <= clock' /\ trip.previews \in Nat
  BY <1>1 DEF ImportTyped, RegistryTyped, TripType
<1>3. stored[i].records \subseteq Record /\ Live(i) \subseteq stored[i].records
  BY EntryTyped DEF Live
<1>4. ASSUME NEW p \in Born(Live(i))
      PROVE  /\ p.born = clock' /\ p.since = clock'
             /\ \A c \in people : c.id # p.id
             /\ \E r \in Live(i) : p.id = r.id /\ p = [id |-> r.id, name |-> r.name, tier |-> r.mark,
                                                      born |-> clock', since |-> clock']
  BY DEF Born
<1>5. \A p, q \in Born(Live(i)) : p.id = q.id => p = q
  <2>1. SUFFICES ASSUME NEW p \in Born(Live(i)), NEW q \in Born(Live(i)), p.id = q.id PROVE p = q
    OBVIOUS
  <2>2. PICK r \in Live(i) : p.id = r.id /\ p = [id |-> r.id, name |-> r.name, tier |-> r.mark,
                                                 born |-> clock', since |-> clock']
    BY <1>4
  <2>3. PICK x \in Live(i) : q.id = x.id /\ q = [id |-> x.id, name |-> x.name, tier |-> x.mark,
                                                 born |-> clock', since |-> clock']
    BY <1>4
  <2>4. r = x
    BY <1>3, <2>1, <2>2, <2>3 DEF Storing, Agree
  <2>5. QED
    BY <2>2, <2>3, <2>4
<1>6. ASSUME NEW x \in Inserted(Live(i))
      PROVE  x.since = clock' /\ x = [key |-> x.key, since |-> clock'] /\ ~OnRecord(x.key)
  BY DEF Inserted
<1>7. Grows
  BY <1>1, <1>2, <1>4, <1>6 DEF Grows
<1>8. \A c, d \in people' : c.id = d.id => c = d
  BY <1>1, <1>4, <1>5 DEF Identified
<1>9. \A x, y \in taken' : x.key = y.key => x = y
  BY <1>1, <1>6 DEF Identified, OnRecord
<1>10. ASSUME NEW c \in people', c.id[1] = 0 PROVE c.id[2] <= clock'
  <2>1. CASE c \in people
    <3>1. c.id[2] <= clock /\ c.id[2] \in Nat
      BY <1>10, <2>1 DEF Identified, ImportTyped, RegistryTyped, Person, Id
    <3>2. QED
      BY <1>2, <3>1
  <2>2. CASE c \in Born(Live(i))
    <3>1. PICK r \in Live(i) : c.id = r.id
      BY <1>4, <2>2
    <3>2. trip.previews < r.id[1] /\ r.id[1] \in Nat
      BY <1>3, <3>1 DEF Serials, Record, Id
    <3>3. QED
      BY <1>2, <1>10, <3>1, <3>2
  <2>3. QED
    BY <1>1, <2>1, <2>2
<1>11. Identified'
  BY <1>8, <1>9, <1>10 DEF Identified
<1>12. ASSUME NEW p \in people', p \notin people
       PROVE  \E j \in DOMAIN stored : \E r \in stored[j].records : p.id = r.id
  <2>1. p \in Born(Live(i))
    BY <1>1, <1>12
  <2>2. PICK r \in Live(i) : p.id = r.id
    BY <1>4, <2>1
  <2>3. QED
    BY <1>3, <2>2
<1>13. QED
  BY <1>7, <1>11, <1>12

(***************************************************************************)
(* What a call has found and drawn up before row n of its file.            *)
(***************************************************************************)
Drawn(t, n) ==
    /\ Agree(t.records)
    /\ \A r \in t.records :
          /\ r.id[1] = t.serial /\ r.id[2] < n /\ r.began = t.began
          /\ r.owner[1] = t.serial => r.owner[2] < n
    /\ \A o \in t.own : o.id[1] = t.serial /\ o.id[2] < n
    /\ \A r \in t.records : IF r.type = "creator" THEN \E o \in t.own : o.name = r.name ELSE r.key # Nobody
    /\ \A r \in t.records, o \in t.own : r.type = "creator" /\ r.id = o.id => r.mark = o.tier
    /\ \A c \in t.found : c.id[1] # t.serial

Holds(t) ==
    /\ t.began <= clock
    /\ \A r \in t.records : RecordHolds(r)
    /\ \A c \in t.found : FoundHolds(c, t.began)

Bound(t) == IF t.step = "rows" THEN t.at ELSE t.at + 1

Drawing ==
    \A a \in Importers : Previewing(a) => Drawn(task[a], Bound(task[a])) /\ Holds(task[a])

(* The same facts one row further on.                                      *)
LEMMA DrawnOn ==
    ASSUME NEW t \in PreviewTask, NEW n \in Nat, Drawn(t, n)
    PROVE  Drawn(t, n + 1)
<1>1. \A r \in t.records : r.id \in Id /\ r.owner \in Id
  BY DEF PreviewTask, Record
<1>2. \A o \in t.own : o.id \in Id
  BY DEF PreviewTask, Own
<1>3. \A m \in Nat : m < n => m < n + 1
  OBVIOUS
<1>4. ASSUME NEW r \in t.records
      PROVE  r.id[2] < n + 1 /\ (r.owner[1] = t.serial => r.owner[2] < n + 1)
  <2>1. r.id[2] \in Nat /\ r.owner[2] \in Nat
    BY <1>1, <1>4 DEF Id
  <2>2. r.id[2] < n /\ (r.owner[1] = t.serial => r.owner[2] < n)
    BY <1>4 DEF Drawn
  <2>3. QED
    BY <2>1, <2>2, <1>3
<1>5. ASSUME NEW o \in t.own PROVE o.id[2] < n + 1
  <2>1. o.id[2] \in Nat /\ o.id[2] < n
    BY <1>2, <1>5 DEF Drawn, Id
  <2>2. QED
    BY <2>1, <1>3
<1>6. QED
  BY <1>4, <1>5 DEF Drawn

(* A record joins others that it goes with.                                *)
LEMMA AgreeWith ==
    ASSUME NEW rs, NEW r, Agree(rs),
           \A x \in rs : x.id # r.id,
           \A x \in rs : r.type = "creator" /\ x.type = "creator" => x.name # r.name,
           \A x \in rs : r.type # "creator" \/ x.type # "creator" => x.key # r.key,
           \A x \in rs : x.type # "creator" => x.owner # r.id,
           \A x \in rs :
               /\ r.type # "creator" /\ r.mark = "hard_reserved" /\ ~r.ask
               /\ x.type = "creator" /\ x.id = r.owner
               => x.mark # "critical"
    PROVE  Agree(rs \cup {r})
<1> DEFINE all == rs \cup {r}
<1>1. \A x, y \in all : x.id = y.id => x = y
  BY DEF Agree
<1>2. \A x, y \in all : x.type = "creator" /\ y.type = "creator" /\ x.name = y.name => x = y
  BY DEF Agree
<1>3. \A x, y \in all : x.type # "creator" /\ y.key = x.key => x = y
  BY DEF Agree
<1>4. ASSUME NEW x \in all, NEW y \in all,
             x.type # "creator", x.mark = "hard_reserved", ~x.ask, y.type = "creator", y.id = x.owner
      PROVE  y.mark # "critical"
  BY <1>4 DEF Agree
<1>5. QED
  BY <1>1, <1>2, <1>3, <1>4 DEF Agree

(* What a row finds of creators is what there is, or later.                *)
LEMMA PersonFound ==
    ASSUME Identified, NEW c \in people, NEW began
    PROVE  FoundHolds(c, began)
BY DEF Identified, FoundHolds

LEMMA IgnoredDrawn ==
    ASSUME NEW t \in PreviewTask, NEW u \in PreviewTask, NEW n \in Nat,
           Drawn(t, n), Holds(t), u.serial = t.serial, u.began = t.began,
           u.own = t.own, u.records = t.records,
           \A c \in u.found : c \in t.found \/ (c.id[1] # t.serial /\ FoundHolds(c, t.began))
    PROVE  Drawn(u, n + 1) /\ Holds(u)
<1>1. Drawn(t, n + 1)
  BY DrawnOn
<1>2. \A c \in u.found : c.id[1] # t.serial /\ FoundHolds(c, t.began)
  BY DEF Drawn, Holds
<1>3. Drawn(u, n + 1)
  BY <1>1, <1>2 DEF Drawn
<1>4. Holds(u)
  BY <1>2 DEF Holds
<1>5. QED
  BY <1>3, <1>4

(* One record more.                                                        *)
LEMMA RecordDrawn ==
    ASSUME NEW t \in PreviewTask, NEW u \in PreviewTask, NEW r, Drawn(t, t.at), Holds(t),
           u.serial = t.serial, u.began = t.began, u.records = t.records \cup {r},
           r.id = <<t.serial, t.at>>, r.began = t.began, r.owner \in Id,
           r.owner[1] = t.serial => r.owner[2] < t.at + 1,
           Agree(u.records), RecordHolds(r),
           \A o \in u.own : o \in t.own \/ (o.id = r.id /\ o.name = r.name /\ o.tier = r.mark),
           t.own \subseteq u.own,
           IF r.type = "creator" THEN \E o \in u.own : o.name = r.name ELSE r.key # Nobody,
           \A c \in u.found : c \in t.found \/ (c.id[1] # t.serial /\ FoundHolds(c, t.began))
    PROVE  Drawn(u, t.at + 1) /\ Holds(u)
<1>1. t.at \in Nat /\ t.serial \in Nat /\ Drawn(t, t.at + 1)
  BY DrawnOn DEF PreviewTask
<1>2. r.id[1] = t.serial /\ r.id[2] < t.at + 1 /\ r.id[2] = t.at
  BY <1>1
<1>3. \A c \in u.found : c.id[1] # t.serial /\ FoundHolds(c, t.began)
  BY DEF Drawn, Holds
<1>4. \A x \in t.records : x.id # r.id
  <2>1. SUFFICES ASSUME NEW x \in t.records, x.id = r.id PROVE FALSE
    OBVIOUS
  <2>2. x.id[2] < t.at /\ x.id[2] = t.at
    BY <1>2, <2>1 DEF Drawn
  <2>3. QED
    BY <1>1, <2>2
<1>5. \A o \in t.own : o.id # r.id
  <2>1. SUFFICES ASSUME NEW o \in t.own, o.id = r.id PROVE FALSE
    OBVIOUS
  <2>2. o.id[2] < t.at /\ o.id[2] = t.at
    BY <1>2, <2>1 DEF Drawn
  <2>3. QED
    BY <1>1, <2>2
<1>6. \A x \in u.records :
          /\ x.id[1] = u.serial /\ x.id[2] < t.at + 1 /\ x.began = u.began
          /\ x.owner[1] = u.serial => x.owner[2] < t.at + 1
  BY <1>1, <1>2 DEF Drawn
<1>7. \A o \in u.own : o.id[1] = u.serial /\ o.id[2] < t.at + 1
  BY <1>1, <1>2 DEF Drawn
<1>8. \A x \in u.records : IF x.type = "creator" THEN \E o \in u.own : o.name = x.name ELSE x.key # Nobody
  BY DEF Drawn
<1>9. \A x \in u.records, o \in u.own : x.type = "creator" /\ x.id = o.id => x.mark = o.tier
  BY <1>4, <1>5 DEF Drawn
<1>10. Drawn(u, t.at + 1)
  BY <1>3, <1>6, <1>7, <1>8, <1>9 DEF Drawn
<1>11. Holds(u)
  BY <1>3 DEF Holds
<1>12. QED
  BY <1>10, <1>11

LEMMA NothingAhead ==
    ASSUME NEW t \in PreviewTask, Drawn(t, t.at), NEW id, id = <<t.serial, t.at>>
    PROVE  \A x \in t.records : x.id # id /\ x.owner # id
<1>1. SUFFICES ASSUME NEW x \in t.records, x.id = id \/ x.owner = id PROVE FALSE
  OBVIOUS
<1>2. t.at \in Nat /\ id[1] = t.serial /\ id[2] = t.at
  BY DEF PreviewTask
<1>3. CASE x.id = id
  <2>1. x.id[2] < t.at
    BY DEF Drawn
  <2>2. QED
    BY <1>2, <1>3, <2>1
<1>4. CASE x.owner = id
  <2>1. x.owner[2] < t.at
    BY <1>2, <1>4 DEF Drawn
  <2>2. QED
    BY <1>2, <1>4, <2>1
<1>5. QED
  BY <1>1, <1>3, <1>4

LEMMA CreatedDrawn ==
    ASSUME NEW t \in PreviewTask, NEW u \in PreviewTask, NEW row, Drawn(t, t.at), Holds(t),
           u.serial = t.serial, u.began = t.began, Created(t, row, u)
    PROVE  Drawn(u, t.at + 1) /\ Holds(u)
<1>1. PICK id : id = <<t.serial, t.at>>
  OBVIOUS
<1>2. id \in Id /\ id[1] = t.serial /\ id[2] = t.at /\ t.at \in Nat
  BY <1>1 DEF PreviewTask, Id
<1>3. PICK r : r = NewRecord(t, row, Nobody, id, FALSE)
  OBVIOUS
<1>4. /\ r.id = id /\ r.owner = id /\ r.name = row.name /\ r.key = Nobody /\ r.mark = row.mark
      /\ r.began = t.began /\ r.type = "creator"
  BY <1>1, <1>3 DEF NewRecord, Created
<1>5. u.records = t.records \cup {r} /\ u.found = t.found /\ u.own = t.own \cup {OwnOf(t, row)}
  BY <1>1, <1>3 DEF Created
<1>6. PICK o : o = OwnOf(t, row)
  OBVIOUS
<1>7. o.id = id /\ o.name = row.name /\ o.tier = row.mark
  BY <1>1, <1>6 DEF OwnOf
<1>8. \A x \in t.records : x.id # r.id /\ x.owner # r.id
  BY <1>1, <1>4, NothingAhead
<1>9. \A x \in t.records : x.type = "creator" => x.name # r.name
  <2>1. SUFFICES ASSUME NEW x \in t.records, x.type = "creator", x.name = r.name PROVE FALSE
    OBVIOUS
  <2>2. PICK d \in t.own : d.name = x.name
    BY <2>1 DEF Drawn
  <2>3. QED
    BY <1>4, <2>1, <2>2 DEF Created
<1>10. \A x \in t.records : x.type # "creator" => x.key # r.key
  BY <1>4 DEF Drawn
<1>11. Agree(t.records)
  BY DEF Drawn
<1>12. Agree(u.records)
  BY <1>4, <1>5, <1>8, <1>9, <1>10, <1>11, AgreeWith
<1>13. RecordHolds(r)
  <2>1. \A c \in people : c.name # r.name
    BY <1>4 DEF Created, Named
  <2>2. QED
    BY <1>4, <2>1 DEF RecordHolds, Holds
<1>14. id[2] < t.at + 1
  BY <1>2
<1>15. QED
  BY <1>1, <1>2, <1>4, <1>5, <1>6, <1>7, <1>12, <1>13, <1>14, RecordDrawn

LEMMA RelatedDrawn ==
    ASSUME ImportConstantsOK, RegistryTyped, Identified,
           NEW t \in PreviewTask, NEW u \in PreviewTask, NEW row \in RowsSent, Drawn(t, t.at), Holds(t),
           \A p \in people : p.id[1] # t.serial,
           u.serial = t.serial, u.began = t.began,
           NEW c \in t.own \cup t.found \cup people, Related(t, row, c, u)
    PROVE  Drawn(u, t.at + 1) /\ Holds(u)
<1>1. PICK id : id = <<t.serial, t.at>>
  OBVIOUS
<1>2. id \in Id /\ id[1] = t.serial /\ id[2] = t.at /\ t.at \in Nat
  BY <1>1 DEF PreviewTask, Id
<1>3. c.id \in Id
  BY DEF PreviewTask, Own, Person, RegistryTyped
<1>4. PICK ask \in BOOLEAN : ask = Critical(row, c)
  BY DEF Critical
<1>5. PICK k : k = KeyOf(row, c)
  OBVIOUS
<1>6. k # Nobody /\ row.type # "creator"
  BY <1>3, <1>5, KeyTyped DEF Related
<1>7. PICK r : r = NewRecord(t, row, k, c.id, ask)
  OBVIOUS
<1>8. /\ r.id = id /\ r.owner = c.id /\ r.key = k /\ r.mark = row.mark /\ r.ask = ask
      /\ r.began = t.began /\ r.type = row.type
  BY <1>1, <1>7 DEF NewRecord
<1>9. u.records = t.records \cup {r} /\ u.found = FoundWith(t, c) /\ u.own = t.own
  BY <1>4, <1>5, <1>7 DEF Related
<1>10. \A x \in t.records : x.id # r.id /\ x.owner # r.id /\ x.key # r.key
  BY <1>1, <1>5, <1>8, NothingAhead DEF Related, Seen
<1>11. r.mark = "hard_reserved" /\ ~r.ask => c.tier # "critical"
  BY <1>4, <1>8 DEF ImportConstantsOK, Critical
<1>12. c \in t.own \/ (c.id[1] # t.serial /\ FoundHolds(c, t.began))
  BY PersonFound DEF Drawn, Holds
<1>13. ASSUME r.mark = "hard_reserved", ~r.ask, NEW x \in t.records, x.type = "creator", x.id = r.owner
       PROVE  x.mark # "critical"
  <2>1. x.id[1] = t.serial
    BY <1>13 DEF Drawn
  <2>2. c \in t.own
    BY <1>8, <1>12, <1>13, <2>1
  <2>3. x.mark = c.tier
    BY <1>8, <1>13, <2>2 DEF Drawn
  <2>4. QED
    BY <1>11, <1>13, <2>3
<1>14. Agree(t.records)
  BY DEF Drawn
<1>15. Agree(u.records)
  BY <1>6, <1>8, <1>9, <1>10, <1>13, <1>14, AgreeWith
<1>16. ASSUME r.mark = "hard_reserved", ~r.ask, NEW p \in people, p.id = r.owner, p.tier = "critical"
       PROVE  r.began < p.since
  <2>1. p # c
    BY <1>11, <1>16
  <2>2. c \notin t.own
    <3>1. SUFFICES ASSUME c \in t.own PROVE FALSE
      OBVIOUS
    <3>2. c.id[1] = t.serial
      BY <3>1 DEF Drawn
    <3>3. QED
      BY <1>8, <1>16, <3>2
  <2>3. QED
    BY <1>8, <1>12, <1>16, <2>1, <2>2 DEF FoundHolds
<1>17. \A x \in taken : x.key # r.key
  BY <1>5, <1>8 DEF Related, Seen, OnRecord
<1>18. RecordHolds(r)
  BY <1>6, <1>8, <1>16, <1>17 DEF RecordHolds, Holds
<1>19. r.owner[1] = t.serial => r.owner[2] < t.at + 1
  <2>1. SUFFICES ASSUME c.id[1] = t.serial PROVE c.id[2] < t.at + 1
    BY <1>8
  <2>2. c \in t.own
    BY <1>12, <2>1
  <2>3. c.id[2] < t.at /\ c.id[2] \in Nat
    BY <1>3, <2>2 DEF Drawn, Id
  <2>4. QED
    BY <1>2, <2>3
<1>20. \A d \in u.found : d \in t.found \/ (d.id[1] # t.serial /\ FoundHolds(d, t.began))
  BY <1>9, <1>12 DEF FoundWith
<1>21. QED
  BY <1>1, <1>3, <1>6, <1>8, <1>9, <1>15, <1>18, <1>19, <1>20, RecordDrawn

(***************************************************************************)
(* Steps that make up no new identifier.                                   *)
(***************************************************************************)
LEMMA StayGrows ==
    ASSUME ImportTyped, UNCHANGED registryVars PROVE Grows
BY DEF ImportTyped, RegistryTyped, registryVars, Grows

LEMMA PreviewingTyped ==
    ASSUME ImportTyped, NEW a \in Importers, Previewing(a)
    PROVE  task[a] \in PreviewTask /\ task[a].serial \in Nat /\ trip.previews \in Nat
BY DEF ImportTyped, Previewing, PreviewTask, TripType

LEMMA SerialsKept ==
    ASSUME ImportTyped, Serials,
           \A b \in Importers : Previewing(b)' => Previewing(b) /\ task'[b].serial = task[b].serial,
           trip'.previews = trip.previews,
           DOMAIN stored' = DOMAIN stored, \A i \in DOMAIN stored : stored'[i].records = stored[i].records,
           \A p \in people' :
               \/ p.id[1] = 0 \/ \E q \in people : q.id = p.id
               \/ \E i \in DOMAIN stored : \E r \in stored[i].records : p.id = r.id
    PROVE  Serials'
<1>1. \A a \in Importers : Previewing(a)' => trip'.previews < task'[a].serial
  BY DEF Serials
<1>2. \A a, b \in Importers :
          Previewing(a)' /\ Previewing(b)' /\ task'[a].serial = task'[b].serial => a = b
  BY DEF Serials
<1>3. \A i \in DOMAIN stored' : \A r \in stored'[i].records : trip'.previews < r.id[1]
  BY DEF Serials
<1>4. \A i \in DOMAIN stored', a \in Importers : \A r \in stored'[i].records :
          Previewing(a)' => r.id[1] # task'[a].serial
  BY DEF Serials
<1>5. \A i, j \in DOMAIN stored' : \A r \in stored'[i].records, q \in stored'[j].records :
          r.id[1] = q.id[1] => i = j
  BY DEF Serials
<1>6. \A p \in people' : p.id[1] = 0 \/ trip'.previews < p.id[1]
  BY DEF Serials
<1>7. ASSUME NEW p \in people', NEW a \in Importers, Previewing(a)'
      PROVE  p.id[1] # task'[a].serial
  <2>1. Previewing(a) /\ task'[a].serial = task[a].serial
    BY <1>7
  <2>2. 0 # task[a].serial
    <3>1. trip.previews < task[a].serial
      BY <2>1 DEF Serials
    <3>2. QED
      BY <2>1, <3>1, PreviewingTyped
  <2>3. QED
    BY <1>7, <2>1, <2>2 DEF Serials
<1>8. QED
  BY <1>1, <1>2, <1>3, <1>4, <1>5, <1>6, <1>7 DEF Serials

LEMMA HoldsLasts ==
    ASSUME ImportTyped, ImportTyped', Grows, NEW t \in PreviewTask, Holds(t)
    PROVE  Holds(t)'
<1>1. t.began \in Nat /\ t.records \subseteq Record
  BY DEF PreviewTask
<1>2. t.began <= clock'
  BY <1>1 DEF Holds, Grows, ImportTyped, RegistryTyped
<1>3. \A r \in t.records : RecordHolds(r)'
  BY <1>1, RecordLasts DEF Holds, ImportTyped
<1>4. \A c \in t.found : FoundHolds(c, t.began)'
  BY <1>1, FoundLasts DEF Holds, ImportTyped
<1>5. QED
  BY <1>2, <1>3, <1>4 DEF Holds

LEMMA DrawingKept ==
    ASSUME ImportTyped, ImportTyped', Grows, Drawing, NEW b \in Importers, task'[b] = task[b], Previewing(b)'
    PROVE  Drawn(task[b], Bound(task[b]))' /\ Holds(task[b])'
<1>1. PICK t : t = task[b]
  OBVIOUS
<1>2. t \in PreviewTask /\ Drawn(t, Bound(t)) /\ Holds(t)
  BY <1>1 DEF Previewing, Drawing
<1>3. Holds(t)'
  BY <1>2, HoldsLasts
<1>4. task'[b] = t
  BY <1>1
<1>5. QED
  BY <1>2, <1>3, <1>4

LEMMA DrawingDo ==
    ASSUME ImportTyped, ImportTyped', Grows, Drawing, NEW a \in Importers, NEW t, Do(a, t),
           t \in PreviewTask \ {Nobody} => Drawn(t, Bound(t)) /\ Holds(t)'
    PROVE  Drawing'
<1>1. \A b \in Importers : task'[b] = IF b = a THEN t ELSE task[b]
  BY DEF Do, ImportTyped, TasksTyped
<1>2. ASSUME NEW b \in Importers, Previewing(b)'
      PROVE  Drawn(task[b], Bound(task[b]))' /\ Holds(task[b])'
  <2>1. CASE b = a
    <3>1. task'[b] = t
      BY <1>1, <2>1
    <3>2. t \in PreviewTask \ {Nobody}
      BY <1>2, <3>1 DEF Previewing
    <3>3. Drawn(t, Bound(t)) /\ Holds(t)'
      BY <3>2
    <3>4. QED
      BY <3>1, <3>3
  <2>2. CASE b # a
    BY <1>1, <1>2, <2>2, DrawingKept
  <2>3. QED
    BY <2>1, <2>2
<1>3. QED
  BY <1>2 DEF Drawing

LEMMA DrawingSame ==
    ASSUME ImportTyped, ImportTyped', Grows, Drawing, UNCHANGED task
    PROVE  Drawing'
<1>1. \A b \in Importers : Previewing(b)' => Drawn(task[b], Bound(task[b]))' /\ Holds(task[b])'
  BY DrawingKept
<1>2. QED
  BY <1>1 DEF Drawing

LEMMA StoringKept ==
    ASSUME ImportTyped, ImportTyped', Grows, Storing,
           DOMAIN stored' = DOMAIN stored,
           \A i \in DOMAIN stored : stored'[i].records = stored[i].records /\ stored'[i].sum = stored[i].sum
    PROVE  Storing'
<1>1. ASSUME NEW i \in DOMAIN stored
      PROVE  /\ Agree(stored[i].records)'
             /\ \A r \in stored'[i].records : RecordHolds(r)'
             /\ stored'[i].sum[1] = stored'[i].records
  <2>1. PICK rs : rs = stored[i].records
    OBVIOUS
  <2>2. rs \subseteq Record /\ Agree(rs) /\ (\A r \in rs : RecordHolds(r)) /\ stored[i].sum[1] = rs
    BY <2>1, EntryTyped DEF Storing
  <2>3. \A r \in rs : RecordHolds(r)'
    BY <2>2, RecordLasts DEF ImportTyped
  <2>4. stored'[i].records = rs /\ stored'[i].sum[1] = rs
    BY <2>1, <2>2
  <2>5. QED
    BY <2>2, <2>3, <2>4
<1>2. QED
  BY <1>1 DEF Storing

(***************************************************************************)
(* The requests raised so far are of previews that are completed.          *)
(***************************************************************************)
Raising ==
    /\ AskedOnce
    /\ \A x \in asked : \E i \in DOMAIN stored :
          stored[i].status = "completed" /\ \E r \in stored[i].records : x[1] = r.id

ImportInv == ImportTyped /\ Identified /\ Serials /\ Storing /\ Drawing /\ PreviewHolds /\ Raising /\ ErrorsTold

LEMMA RaisingKept ==
    ASSUME Raising, UNCHANGED asked, DOMAIN stored \subseteq DOMAIN stored',
           \A i \in DOMAIN stored : stored'[i] = stored[i]
    PROVE  Raising'
<1>1. AskedOnce'
  BY DEF Raising, AskedOnce
<1>2. ASSUME NEW x \in asked
      PROVE  \E i \in DOMAIN stored' :
                 stored'[i].status = "completed" /\ \E r \in stored'[i].records : x[1] = r.id
  <2>1. PICK i \in DOMAIN stored : stored[i].status = "completed" /\ \E r \in stored[i].records : x[1] = r.id
    BY DEF Raising
  <2>2. QED
    BY <2>1
<1>3. QED
  BY <1>1, <1>2 DEF Raising

LEMMA IdentifiedSame == ASSUME Identified, UNCHANGED registryVars PROVE Identified'
BY DEF Identified, registryVars

LEMMA MeanwhileStep == ASSUME ImportInv, Meanwhile PROVE ImportInv'
<1>1. ImportTyped' /\ UNCHANGED <<stored, task, asked, surprises, answered>> /\ trip'.previews = trip.previews
  BY MeanwhileTyped DEF ImportInv
<1>2. Grows /\ Identified' /\ \A p \in people' : p.id[1] = 0 \/ \E q \in people : q.id = p.id
  BY MeanwhileGrows DEF ImportInv
<1>3. Serials'
  BY <1>1, <1>2, SerialsKept DEF ImportInv, Previewing
<1>4. Storing'
  BY <1>1, <1>2, StoringKept DEF ImportInv
<1>5. Drawing'
  BY <1>1, <1>2, DrawingSame DEF ImportInv
<1>6. PreviewHolds' /\ ErrorsTold'
  BY <1>1 DEF ImportInv, PreviewHolds, ErrorsTold
<1>7. Raising'
  BY <1>1, RaisingKept DEF ImportInv
<1>8. QED
  BY <1>1, <1>2, <1>3, <1>4, <1>5, <1>6, <1>7 DEF ImportInv

(* A step that writes nothing but one call and counts down what is left.   *)
LEMMA ImportCallStep ==
    ASSUME ImportInv, ImportTyped', UNCHANGED <<registryVars, stored, asked, surprises>>, ErrorsTold',
           trip'.previews = trip.previews,
           NEW a \in Importers, NEW t, Do(a, t),
           t \in PreviewTask \ {Nobody} =>
               /\ Previewing(a) /\ t.serial = task[a].serial
               /\ Drawn(t, Bound(t)) /\ Holds(t)
    PROVE  ImportInv'
<1>1. ImportTyped /\ Grows /\ Identified'
  BY StayGrows, IdentifiedSame DEF ImportInv
<1>2. \A b \in Importers : task'[b] = IF b = a THEN t ELSE task[b]
  BY <1>1 DEF Do, ImportTyped, TasksTyped
<1>3. \A b \in Importers : Previewing(b)' => Previewing(b) /\ task'[b].serial = task[b].serial
  BY <1>2 DEF Previewing
<1>4. Serials'
  BY <1>1, <1>3, SerialsKept DEF ImportInv, registryVars
<1>5. Storing'
  BY <1>1, StoringKept DEF ImportInv
<1>6. t \in PreviewTask \ {Nobody} => Drawn(t, Bound(t)) /\ Holds(t)'
  BY <1>1, HoldsLasts
<1>7. Drawing'
  BY <1>1, <1>6, DrawingDo DEF ImportInv
<1>8. PreviewHolds' /\ Raising'
  BY RaisingKept DEF ImportInv, PreviewHolds
<1>9. QED
  BY <1>1, <1>4, <1>5, <1>7, <1>8 DEF ImportInv

LEMMA QuitStep == ASSUME ImportInv, NEW a \in Importers, Quit(a) PROVE ImportInv'
<1>1. Do(a, Nobody) /\ UNCHANGED <<registryVars, stored, trip, asked, surprises, answered>>
  BY DEF Quit
<1>2. ImportTyped'
  BY <1>1, QuitTyped DEF ImportInv, ImportTyped, registryVars, RegistryTyped, StoredTyped
<1>3. ErrorsTold'
  BY <1>1 DEF ImportInv, ErrorsTold
<1>4. QED
  BY <1>1, <1>2, <1>3, ImportCallStep

LEMMA JudgeStep == ASSUME ImportConstantsOK, ImportInv, NEW a \in Importers, JudgeRow(a) PROVE ImportInv'
<1>1. ImportTyped' /\ UNCHANGED <<registryVars, stored, trip, asked, surprises, answered>>
  BY ImportJudgeTyped DEF ImportInv
<1>2. PICK t, row, u :
          /\ t = task[a] /\ row = t.file[t.at] /\ u \in Judged(t, row)
          /\ OnStep(a, "rows") /\ Do(a, Onward(u))
          /\ u.step = "rows" /\ u.at = t.at
  BY ImportJudgeTyped DEF ImportInv
<1>3. /\ t \in PreviewTask /\ row \in RowsSent /\ row.name \in Names
      /\ t.at \in 1 .. Len(t.file) /\ t.file \in Sent
      /\ Frame(t, u)
      /\ \/ Ignored(t, u) \/ Recognised(t, row, u) \/ Created(t, row, u)
         \/ \E c \in OwnerOf(t, row.name) : Repeated(t, row, c, u) \/ Related(t, row, c, u)
  BY <1>2, Judging DEF ImportInv
<1>4. Previewing(a) /\ t.step = "rows"
  BY <1>2, <1>3 DEF Previewing, OnStep
<1>5. Drawn(t, t.at) /\ Holds(t) /\ t.at \in Nat
  BY <1>2, <1>3, <1>4 DEF ImportInv, Drawing, Bound
<1>6. \A p \in people : p.id[1] # t.serial
  BY <1>2, <1>4 DEF ImportInv, Serials
<1>7. u \in PreviewTask /\ u.serial = t.serial /\ u.began = t.began
  BY <1>3 DEF Frame
<1>8. RegistryTyped /\ Identified
  BY DEF ImportInv, ImportTyped
<1>9. ASSUME NEW c \in t.own \cup t.found \cup people
      PROVE  \A d \in FoundWith(t, c) : d \in t.found \/ (d.id[1] # t.serial /\ FoundHolds(d, t.began))
  BY <1>5, <1>6, <1>8, PersonFound DEF FoundWith
<1>10. Drawn(u, t.at + 1) /\ Holds(u)
  <2>1. CASE Ignored(t, u)
    BY <2>1, <1>3, <1>5, <1>7, IgnoredDrawn DEF Ignored
  <2>2. CASE Recognised(t, row, u)
    <3>1. \A c \in u.found : c \in t.found \/ (c.id[1] # t.serial /\ FoundHolds(c, t.began))
      BY <2>2, <1>6, <1>8, PersonFound DEF Recognised, Oldest, Named
    <3>2. QED
      BY <2>2, <3>1, <1>3, <1>5, <1>7, IgnoredDrawn DEF Recognised
  <2>3. CASE Created(t, row, u)
    BY <2>3, <1>3, <1>5, <1>7, CreatedDrawn
  <2>4. ASSUME NEW c \in OwnerOf(t, row.name), Repeated(t, row, c, u) PROVE Drawn(u, t.at + 1) /\ Holds(u)
    BY <2>4, <1>3, <1>5, <1>7, <1>9, OwnersKnown, IgnoredDrawn DEF Repeated
  <2>5. ASSUME NEW c \in OwnerOf(t, row.name), Related(t, row, c, u) PROVE Drawn(u, t.at + 1) /\ Holds(u)
    BY <2>5, <1>3, <1>5, <1>6, <1>7, <1>8, OwnersKnown, RelatedDrawn
  <2>6. QED
    BY <2>1, <2>2, <2>3, <2>4, <2>5, <1>3
<1>11. PICK v : v = Onward(u)
  OBVIOUS
<1>12. /\ v \in PreviewTask /\ v.step \in {"rows", "find"}
       /\ v.step = "rows" => v.at = u.at + 1
       /\ v.step = "find" => v.at = u.at
       /\ v.serial = u.serial /\ v.began = u.began
       /\ v.found = u.found /\ v.own = u.own /\ v.records = u.records
  <2>1. u.file \in Sent /\ u.at \in 1 .. Len(u.file) /\ Len(u.file) \in Nat
    BY <1>2, <1>3, SentLength DEF Frame
  <2>2. QED
    BY <1>2, <1>7, <1>11, <2>1, OnwardFields
<1>13. Bound(v) = t.at + 1
  BY <1>2, <1>12 DEF Bound
<1>14. Drawn(v, Bound(v)) /\ Holds(v)
  BY <1>10, <1>12, <1>13 DEF Drawn, Holds
<1>15. v.serial = task[a].serial
  BY <1>2, <1>7, <1>12
<1>16. ErrorsTold'
  BY <1>1 DEF ImportInv, ErrorsTold
<1>17. QED
  BY <1>1, <1>2, <1>4, <1>11, <1>14, <1>15, <1>16, ImportCallStep

LEMMA ImportCommitStep == ASSUME ImportInv, NEW a \in Importers, NEW i \in DOMAIN stored, Commit(a, i) PROVE ImportInv'
<1>1. /\ ImportTyped' /\ UNCHANGED <<registryVars, stored, asked, surprises, answered>>
      /\ trip'.previews = trip.previews
  BY CommitTyped DEF ImportInv
<1>2. PICK t \in BatchTask : Do(a, t)
  BY CommitTyped DEF ImportInv
<1>3. t \notin PreviewTask
  BY <1>2 DEF BatchTask, PreviewTask
<1>4. ErrorsTold'
  BY <1>1 DEF ImportInv, ErrorsTold
<1>5. QED
  BY <1>1, <1>2, <1>3, <1>4, ImportCallStep

LEMMA ImportFindStep == ASSUME ImportInv, NEW a \in Importers, FindPreview(a) PROVE ImportInv'
<1>1. ImportTyped' /\ UNCHANGED <<registryVars, stored, trip, asked, surprises>>
  BY FindTyped DEF ImportInv
<1>2. CASE /\ UNCHANGED answered /\ task[a] \in PreviewTask /\ OnStep(a, "find")
           /\ Do(a, [task[a] EXCEPT !.step = "store"])
  <2>1. PICK t, v : t = task[a] /\ v = [t EXCEPT !.step = "store"]
    OBVIOUS
  <2>2. Previewing(a) /\ t \in PreviewTask /\ t.step = "find"
    BY <1>2, <2>1 DEF Previewing, OnStep
  <2>3. Drawn(t, t.at + 1) /\ Holds(t)
    BY <2>1, <2>2 DEF ImportInv, Drawing, Bound
  <2>4. /\ v.step = "store" /\ v.at = t.at /\ v.serial = t.serial /\ v.began = t.began
        /\ v.found = t.found /\ v.own = t.own /\ v.records = t.records
    BY <2>1, <2>2 DEF PreviewTask
  <2>5. Bound(v) = t.at + 1
    BY <2>4 DEF Bound
  <2>6. Drawn(v, Bound(v)) /\ Holds(v)
    BY <2>3, <2>4, <2>5 DEF Drawn, Holds
  <2>7. ErrorsTold'
    BY <1>2 DEF ImportInv, ErrorsTold
  <2>8. QED
    BY <1>1, <1>2, <2>1, <2>2, <2>4, <2>6, <2>7, ImportCallStep
<1>3. ASSUME NEW i \in Same(a), Answer(a, stored[i].faults) PROVE ImportInv'
  <2>1. OnStep(a, "find") /\ task[a] \in PreviewTask /\ Previewing(a)
    BY TaskAt DEF ImportInv, FindPreview, Previewing, OnStep
  <2>2. i \in DOMAIN stored /\ stored[i].sum = <<task[a].records, task[a].warnings>>
    BY <1>3 DEF Same, Checksum
  <2>3. stored[i].records = task[a].records
    BY <2>2 DEF ImportInv, Storing
  <2>4. task[a].records = {}
    <3>1. SUFFICES ASSUME NEW r \in task[a].records PROVE FALSE
      OBVIOUS
    <3>2. r.id[1] = task[a].serial
      BY <2>1, <3>1 DEF ImportInv, Drawing, Drawn
    <3>3. r.id[1] # task[a].serial
      BY <2>1, <2>2, <2>3, <3>1 DEF ImportInv, Serials
    <3>4. QED
      BY <3>2, <3>3
  <2>5. PICK x : x = [empty |-> task[a].records = {}, faulty |-> task[a].faulty, errors |-> stored[i].faults]
    OBVIOUS
  <2>6. x.empty
    BY <2>4, <2>5
  <2>7. answered' = answered \cup {x}
    BY <1>3, <2>5 DEF Answer
  <2>8. ErrorsTold'
    BY <2>6, <2>7 DEF ImportInv, ErrorsTold
  <2>9. Do(a, Nobody)
    BY <1>3 DEF Answer
  <2>10. QED
    BY <1>1, <2>8, <2>9, ImportCallStep
<1>4. QED
  BY <1>2, <1>3, FindTyped DEF ImportInv

(* A new preview draws the next serial.                                    *)
LEMMA SerialsDrawn ==
    ASSUME ImportTyped, Serials, NEW a \in Importers, UNCHANGED <<people, stored>>,
           trip.previews > 0, trip'.previews = trip.previews - 1,
           \A b \in Importers \ {a} : task'[b] = task[b],
           task'[a].serial = trip.previews
    PROVE  Serials'
<1>1. PICK s \in Nat : s = trip.previews
  BY DEF ImportTyped, TripType
<1>2. PICK n \in Nat : n = s - 1
  BY <1>1
<1>3. trip'.previews = n /\ n < s /\ s # 0 /\ \A m \in Nat : s < m => n < m /\ m # s
  BY <1>1, <1>2
<1>4. \A b \in Importers \ {a} : Previewing(b)' =>
          Previewing(b) /\ task'[b] = task[b] /\ task[b].serial \in Nat /\ s < task[b].serial
  BY <1>1, PreviewingTyped DEF Previewing, Serials
<1>5. \A i \in DOMAIN stored : \A r \in stored[i].records : r.id[1] \in Nat /\ s < r.id[1]
  BY <1>1, EntryTyped DEF Serials, Record, Id
<1>6. \A p \in people : p.id[1] \in Nat /\ (p.id[1] = 0 \/ s < p.id[1])
  BY <1>1 DEF Serials, ImportTyped, RegistryTyped, Person, Id
<1>7. \A b \in Importers : Previewing(b)' => trip'.previews < task'[b].serial
  BY <1>1, <1>3, <1>4
<1>8. \A b, c \in Importers :
          Previewing(b)' /\ Previewing(c)' /\ task'[b].serial = task'[c].serial => b = c
  BY <1>1, <1>3, <1>4 DEF Serials
<1>9. \A i \in DOMAIN stored' : \A r \in stored'[i].records : trip'.previews < r.id[1]
  BY <1>3, <1>5
<1>10. \A i \in DOMAIN stored', b \in Importers : \A r \in stored'[i].records :
          Previewing(b)' => r.id[1] # task'[b].serial
  BY <1>1, <1>3, <1>4, <1>5 DEF Serials
<1>11. \A p \in people' : p.id[1] = 0 \/ trip'.previews < p.id[1]
  BY <1>3, <1>6
<1>12. \A p \in people', b \in Importers : Previewing(b)' => p.id[1] # task'[b].serial
  BY <1>1, <1>3, <1>4, <1>6 DEF Serials
<1>13. QED
  BY <1>7, <1>8, <1>9, <1>10, <1>11, <1>12 DEF Serials

LEMMA ImportPreviewStep ==
    ASSUME ImportConstantsOK, ImportInv, NEW a \in Importers, NEW f \in trip.files, PreviewFile(a, f)
    PROVE  ImportInv'
<1>1. /\ ImportTyped' /\ UNCHANGED <<registryVars, stored, asked, surprises, answered>>
      /\ Less("previews") /\ Do(a, Started(f)) /\ Started(f) \in PreviewTask
  BY PreviewTyped DEF ImportInv
<1>2. PICK t \in PreviewTask : t = Started(f)
  BY <1>1
<1>3. /\ t.serial = trip.previews /\ t.began = clock /\ t.found = {} /\ t.own = {} /\ t.records = {}
  BY <1>2 DEF Started
<1>4. Grows /\ Identified'
  BY <1>1, StayGrows, IdentifiedSame DEF ImportInv
<1>5. \A b \in Importers : task'[b] = IF b = a THEN t ELSE task[b]
  BY <1>1, <1>2 DEF Do, ImportInv, ImportTyped, TasksTyped
<1>6. trip.previews > 0 /\ trip'.previews = trip.previews - 1
  BY <1>1, TripLess DEF ImportInv
<1>7. Serials'
  BY <1>1, <1>3, <1>5, <1>6, SerialsDrawn DEF ImportInv, registryVars
<1>8. Storing'
  BY <1>1, <1>4, StoringKept DEF ImportInv
<1>9. Agree({})
  BY DEF Agree
<1>10. Drawn(t, Bound(t)) /\ Holds(t)
  BY <1>3, <1>9 DEF Drawn, Holds, ImportInv, ImportTyped, RegistryTyped
<1>11. Holds(t)'
  BY <1>1, <1>4, <1>10, HoldsLasts DEF ImportInv
<1>12. Drawing'
  BY <1>1, <1>2, <1>4, <1>10, <1>11, DrawingDo DEF ImportInv
<1>13. PreviewHolds' /\ ErrorsTold'
  BY <1>1 DEF ImportInv, PreviewHolds, ErrorsTold
<1>14. Raising'
  BY <1>1, RaisingKept DEF ImportInv
<1>15. QED
  BY <1>1, <1>4, <1>7, <1>8, <1>12, <1>13, <1>14 DEF ImportInv

LEMMA StoreStep == ASSUME ImportInv, NEW a \in Importers, StorePreview(a) PROVE ImportInv'
<1>1. /\ ImportTyped' /\ UNCHANGED <<registryVars, trip, asked, surprises>>
      /\ task[a] \in PreviewTask /\ Answer(a, task[a].faulty) /\ OnStep(a, "store")
      /\ DOMAIN stored' = DOMAIN stored \cup {Len(stored) + 1} /\ Len(stored) + 1 \notin DOMAIN stored
      /\ stored'[Len(stored) + 1] = EntryOf(a)
      /\ \A i \in DOMAIN stored : stored'[i] = stored[i]
  BY ImportStoreTyped DEF ImportInv, StorePreview
<1>2. PICK t \in PreviewTask : t = task[a]
  BY <1>1
<1>3. PICK n : n = Len(stored) + 1
  OBVIOUS
<1>4. PICK e : e = EntryOf(a)
  OBVIOUS
<1>5. e.records = t.records /\ e.sum[1] = t.records
  BY <1>2, <1>4 DEF EntryOf, Checksum
<1>6. /\ DOMAIN stored' = DOMAIN stored \cup {n} /\ n \notin DOMAIN stored /\ stored'[n] = e
      /\ \A i \in DOMAIN stored : stored'[i] = stored[i]
  BY <1>1, <1>3, <1>4
<1>7. Previewing(a) /\ Drawn(t, Bound(t)) /\ Holds(t)
  BY <1>1, <1>2 DEF Previewing, OnStep, ImportInv, Drawing
<1>8. Grows /\ Identified'
  BY <1>1, StayGrows, IdentifiedSame DEF ImportInv
<1>9. Do(a, Nobody)
  BY <1>1 DEF Answer
<1>10. \A b \in Importers : task'[b] = IF b = a THEN Nobody ELSE task[b]
  BY <1>9 DEF Do, ImportInv, ImportTyped, TasksTyped
<1>11. \A b \in Importers : Previewing(b)' => b # a /\ Previewing(b) /\ task'[b] = task[b]
  BY <1>10 DEF Previewing
<1>12. \A r \in t.records : r.id[1] = t.serial
  BY <1>7 DEF Drawn
<1>13. \A i \in DOMAIN stored : \A r \in stored[i].records : r.id[1] # t.serial
  BY <1>2, <1>7 DEF ImportInv, Serials
<1>14. \A b \in Importers : Previewing(b)' => task'[b].serial # t.serial
  BY <1>2, <1>7, <1>11 DEF ImportInv, Serials
<1>15. trip.previews < t.serial /\ trip' = trip /\ people' = people
  BY <1>1, <1>2, <1>7 DEF ImportInv, Serials, registryVars
<1>16. Serials'
  <2>1. \A b \in Importers : Previewing(b)' => trip'.previews < task'[b].serial
    BY <1>11, <1>15 DEF ImportInv, Serials
  <2>2. \A b, c \in Importers :
            Previewing(b)' /\ Previewing(c)' /\ task'[b].serial = task'[c].serial => b = c
    BY <1>11 DEF ImportInv, Serials
  <2>3. \A i \in DOMAIN stored' : \A r \in stored'[i].records : trip'.previews < r.id[1]
    BY <1>5, <1>6, <1>12, <1>15 DEF ImportInv, Serials
  <2>4. \A i \in DOMAIN stored', b \in Importers : \A r \in stored'[i].records :
            Previewing(b)' => r.id[1] # task'[b].serial
    BY <1>5, <1>6, <1>11, <1>12, <1>14 DEF ImportInv, Serials
  <2>5. \A i, j \in DOMAIN stored' : \A r \in stored'[i].records, q \in stored'[j].records :
            r.id[1] = q.id[1] => i = j
    BY <1>5, <1>6, <1>12, <1>13 DEF ImportInv, Serials
  <2>6. \A p \in people' : p.id[1] = 0 \/ trip'.previews < p.id[1]
    BY <1>15 DEF ImportInv, Serials
  <2>7. \A p \in people', b \in Importers : Previewing(b)' => p.id[1] # task'[b].serial
    BY <1>11, <1>15 DEF ImportInv, Serials
  <2>8. QED
    BY <2>1, <2>2, <2>3, <2>4, <2>5, <2>6, <2>7 DEF Serials
<1>17. Storing'
  <2>1. ASSUME NEW i \in DOMAIN stored'
        PROVE  /\ Agree(stored[i].records)'
               /\ \A r \in stored'[i].records : RecordHolds(r)'
               /\ stored'[i].sum[1] = stored'[i].records
    <3>1. PICK rs : rs = stored'[i].records
      OBVIOUS
    <3>2. CASE i = n
      <4>1. rs = t.records /\ stored'[i].sum[1] = rs
        BY <1>5, <1>6, <3>1, <3>2
      <4>2. Agree(rs)
        BY <1>7, <4>1 DEF Drawn
      <4>3. \A r \in rs : RecordHolds(r)'
        BY <1>1, <1>7, <1>8, <4>1, HoldsLasts DEF ImportInv, Holds
      <4>4. QED
        BY <3>1, <4>1, <4>2, <4>3
    <3>3. CASE i \in DOMAIN stored
      <4>1. rs = stored[i].records /\ stored'[i].sum[1] = rs
        BY <1>6, <3>1, <3>3 DEF ImportInv, Storing
      <4>2. Agree(rs) /\ rs \subseteq Record /\ \A r \in rs : RecordHolds(r)
        BY <3>3, <4>1, EntryTyped DEF ImportInv, Storing
      <4>3. \A r \in rs : RecordHolds(r)'
        BY <1>1, <1>8, <4>2, RecordLasts DEF ImportInv, ImportTyped
      <4>4. QED
        BY <3>1, <4>1, <4>2, <4>3
    <3>4. QED
      BY <1>6, <3>2, <3>3
  <2>2. QED
    BY <2>1 DEF Storing
<1>18. Drawing'
  BY <1>1, <1>8, <1>9, DrawingDo DEF ImportInv
<1>19. PreviewHolds'
  BY <1>1 DEF ImportInv, PreviewHolds
<1>20. ErrorsTold'
  <2>1. PICK x : x = [empty |-> task[a].records = {}, faulty |-> task[a].faulty, errors |-> task[a].faulty]
    OBVIOUS
  <2>2. answered' = answered \cup {x}
    BY <1>1, <2>1 DEF Answer
  <2>3. x.errors = x.faulty
    BY <2>1
  <2>4. QED
    BY <2>2, <2>3 DEF ImportInv, ErrorsTold
<1>21. Raising'
  BY <1>1, <1>6, RaisingKept DEF ImportInv
<1>22. QED
  BY <1>1, <1>8, <1>16, <1>17, <1>18, <1>19, <1>20, <1>21 DEF ImportInv

(***************************************************************************)
(* A batch.                                                                *)
(***************************************************************************)

(* What a record meets in its batch is later than its preview.             *)
LEMMA MetLater ==
    ASSUME NEW rs, NEW r \in rs, Agree(rs), RecordHolds(r), ~r.ask, NEW m \in Met(rs, r)
    PROVE  r.began < m
<1>1. CASE r.type = "creator"
  <2>1. m \in {c.born : c \in Named(r.name)} \cup
              {0 : q \in {x \in rs \ {r} : x.type = "creator" /\ x.name = r.name}}
    BY <1>1 DEF Met
  <2>2. {x \in rs \ {r} : x.type = "creator" /\ x.name = r.name} = {}
    BY <1>1 DEF Agree
  <2>3. PICK c \in Named(r.name) : m = c.born
    BY <2>1, <2>2
  <2>4. QED
    BY <1>1, <2>3 DEF RecordHolds, Named
<1>2. CASE r.type # "creator"
  <2>1. {x \in rs \ {r} : x.key = r.key} = {}
    BY <1>2 DEF Agree
  <2>2. r.mark = "hard_reserved" =>
            {x \in rs : x.type = "creator" /\ x.id = r.owner /\ x.mark = "critical"} = {}
    BY <1>2 DEF Agree
  <2>3. \/ \E x \in taken : x.key = r.key /\ m = x.since
        \/ \E q \in {x \in rs \ {r} : x.key = r.key} : m = 0
        \/ /\ r.mark = "hard_reserved"
           /\ \/ \E p \in people : p.id = r.owner /\ p.tier = "critical" /\ m = p.since
              \/ \E q \in {x \in rs : x.type = "creator" /\ x.id = r.owner /\ x.mark = "critical"} : m = 0
    BY <1>2 DEF Met
  <2>4. \/ \E x \in taken : x.key = r.key /\ m = x.since
        \/ r.mark = "hard_reserved" /\ \E p \in people : p.id = r.owner /\ p.tier = "critical" /\ m = p.since
    BY <2>1, <2>2, <2>3
  <2>5. QED
    BY <1>2, <2>4 DEF RecordHolds
<1>3. QED
  BY <1>1, <1>2

LEMMA BatchStep == ASSUME ImportInv, NEW a \in Importers, CommitPreview(a) PROVE ImportInv'
<1>1. PICK i \in DOMAIN stored :
          /\ ImportTyped' /\ UNCHANGED <<trip, answered>>
          /\ i = task[a].batch /\ stored[i].status = "previewed" /\ stored[i] \in Entry
          /\ DOMAIN stored' = DOMAIN stored
          /\ stored'[i] = [stored[i] EXCEPT !.status = "completed"]
          /\ \A j \in DOMAIN stored \ {i} : stored'[j] = stored[j]
          /\ asked' = asked \cup {<<r.id, task[a].serial>> : r \in stored[i].records \ Live(i)}
          /\ surprises' = surprises \cup UNION {{r.began} \X Met(Live(i), r) : r \in Live(i)}
          /\ Do(a, Nobody)
  BY BatchTyped DEF ImportInv
<1>2. PICK rs : rs = stored[i].records
  OBVIOUS
<1>3. stored'[i].records = rs /\ stored'[i].sum = stored[i].sum /\ stored'[i].status = "completed"
  BY <1>1, <1>2 DEF Entry
<1>4. \A j \in DOMAIN stored : stored'[j].records = stored[j].records /\ stored'[j].sum = stored[j].sum
  BY <1>1, <1>2, <1>3
<1>5. Grows /\ Identified' /\ \A p \in people' :
          p \in people \/ \E j \in DOMAIN stored : \E r \in stored[j].records : p.id = r.id
  BY BatchGrows DEF ImportInv
<1>6. \A b \in Importers : task'[b] = IF b = a THEN Nobody ELSE task[b]
  BY <1>1 DEF Do, ImportInv, ImportTyped, TasksTyped
<1>7. \A b \in Importers : Previewing(b)' => Previewing(b) /\ task'[b].serial = task[b].serial
  BY <1>6 DEF Previewing
<1>8. Serials'
  BY <1>1, <1>4, <1>5, <1>7, SerialsKept DEF ImportInv
<1>9. Storing'
  BY <1>1, <1>4, <1>5, StoringKept DEF ImportInv
<1>10. Drawing'
  BY <1>1, <1>5, DrawingDo DEF ImportInv
<1>11. ErrorsTold'
  BY <1>1 DEF ImportInv, ErrorsTold
<1>12. PreviewHolds'
  <2>1. Agree(Live(i)) /\ \A r \in Live(i) : RecordHolds(r) /\ ~r.ask
    BY DEF ImportInv, Storing, Live, Agree
  <2>2. ASSUME NEW x \in surprises', x \notin surprises PROVE x[1] < x[2]
    <3>1. PICK r \in Live(i) : x \in {r.began} \X Met(Live(i), r)
      BY <1>1, <2>2
    <3>2. x[1] = r.began /\ x[2] \in Met(Live(i), r)
      BY <3>1
    <3>3. PICK m \in Met(Live(i), r) : m = x[2]
      BY <3>2
    <3>4. r.began < m
      BY <2>1, MetLater
    <3>5. QED
      BY <3>2, <3>3, <3>4
  <2>3. QED
    BY <2>2 DEF ImportInv, PreviewHolds
<1>13. ASSUME NEW x \in asked', x \notin asked
       PROVE  x[2] = task[a].serial /\ x = <<x[1], x[2]>> /\ \E r \in rs : x[1] = r.id
  BY <1>1, <1>2, <1>13
<1>14. ASSUME NEW x \in asked
       PROVE  \E j \in DOMAIN stored \ {i} :
                  stored[j].status = "completed" /\ \E r \in stored[j].records : x[1] = r.id
  BY <1>1 DEF ImportInv, Raising
<1>15. ASSUME NEW x \in asked, NEW y \in asked', y \notin asked PROVE x[1] # y[1]
  <2>1. PICK j \in DOMAIN stored \ {i} : \E r \in stored[j].records : x[1] = r.id
    BY <1>14
  <2>2. PICK r \in stored[j].records : x[1] = r.id
    BY <2>1
  <2>3. PICK q \in stored[i].records : y[1] = q.id
    BY <1>2, <1>13, <1>15
  <2>4. r.id[1] # q.id[1]
    BY <2>1 DEF ImportInv, Serials
  <2>5. QED
    BY <2>2, <2>3, <2>4
<1>16. AskedOnce'
  <2>1. ASSUME NEW x \in asked', NEW y \in asked', x[1] = y[1] PROVE x = y
    <3>1. CASE x \in asked /\ y \in asked
      BY <2>1, <3>1 DEF ImportInv, Raising, AskedOnce
    <3>2. CASE x \notin asked /\ y \notin asked
      BY <2>1, <3>2, <1>13
    <3>3. CASE x \in asked /\ y \notin asked
      BY <2>1, <3>3, <1>15
    <3>4. CASE x \notin asked /\ y \in asked
      BY <2>1, <3>4, <1>15
    <3>5. QED
      BY <3>1, <3>2, <3>3, <3>4
  <2>2. QED
    BY <2>1 DEF AskedOnce
<1>17. \A x \in asked' : \E j \in DOMAIN stored' :
          stored'[j].status = "completed" /\ \E r \in stored'[j].records : x[1] = r.id
  <2>1. ASSUME NEW x \in asked' PROVE \E j \in DOMAIN stored' :
            stored'[j].status = "completed" /\ \E r \in stored'[j].records : x[1] = r.id
    <3>1. CASE x \in asked
      BY <1>1, <1>14, <3>1
    <3>2. CASE x \notin asked
      BY <1>1, <1>3, <1>13, <3>2
    <3>3. QED
      BY <3>1, <3>2
  <2>2. QED
    BY <2>1
<1>18. Raising'
  BY <1>16, <1>17 DEF Raising
<1>19. QED
  BY <1>1, <1>5, <1>8, <1>9, <1>10, <1>11, <1>12, <1>18 DEF ImportInv

(***************************************************************************)
(* The invariant, and what follows.                                        *)
(***************************************************************************)
LEMMA ImportInvInit == ASSUME ImportConstantsOK, ImportInit PROVE ImportInv
<1>1. trip \in TripType
  BY DEF ImportInit, ImportConstantsOK, TripType
<1>2. stored = <<>> /\ stored \in Seq(Entry) /\ DOMAIN stored = {}
  BY EmptySeq DEF ImportInit
<1>3. \A a \in Importers : task[a] = Nobody
  BY DEF ImportInit
<1>4. RegistryTyped
  BY DEF ImportInit, RegistryTyped
<1>5. TasksTyped
  BY <1>3 DEF ImportInit, TasksTyped, OnStep
<1>6. ImportTyped
  BY <1>1, <1>2, <1>4, <1>5 DEF ImportTyped, StoredTyped
<1>7. Serials /\ Drawing
  BY <1>2, <1>3 DEF ImportInit, Serials, Drawing, Previewing
<1>8. Identified /\ Storing /\ PreviewHolds /\ Raising /\ ErrorsTold
  BY <1>2 DEF ImportInit, Identified, Storing, PreviewHolds, Raising, AskedOnce, ErrorsTold
<1>9. QED
  BY <1>6, <1>7, <1>8 DEF ImportInv

LEMMA InvStuttering == ASSUME ImportInv, UNCHANGED importVars PROVE ImportInv'
<1>1. UNCHANGED <<registryVars, stored, task, trip, asked, surprises, answered>>
  BY DEF importVars
<1>2. ImportTyped'
  BY <1>1, Zenon DEF ImportInv, ImportTyped, RegistryTyped, StoredTyped, TasksTyped, OnStep, registryVars
<1>3. Grows /\ Identified'
  BY <1>1, StayGrows, IdentifiedSame DEF ImportInv
<1>4. Serials'
  BY <1>1, SerialsKept DEF ImportInv, Previewing, registryVars
<1>5. Storing'
  BY <1>1, <1>2, <1>3, StoringKept DEF ImportInv
<1>6. Drawing'
  BY <1>1, <1>2, <1>3, DrawingSame DEF ImportInv
<1>7. PreviewHolds' /\ ErrorsTold'
  BY <1>1 DEF ImportInv, PreviewHolds, ErrorsTold
<1>8. Raising'
  BY <1>1, RaisingKept DEF ImportInv
<1>9. QED
  BY <1>2, <1>3, <1>4, <1>5, <1>6, <1>7, <1>8 DEF ImportInv

LEMMA ImportInvStep == ASSUME ImportConstantsOK, ImportInv, [ImportNext]_importVars PROVE ImportInv'
<1>1. CASE Meanwhile
  BY <1>1, MeanwhileStep
<1>2. ASSUME NEW a \in Importers, NEW f \in trip.files, PreviewFile(a, f) PROVE ImportInv'
  BY <1>2, ImportPreviewStep
<1>3. ASSUME NEW a \in Importers, JudgeRow(a) PROVE ImportInv'
  BY <1>3, JudgeStep
<1>4. ASSUME NEW a \in Importers, FindPreview(a) PROVE ImportInv'
  BY <1>4, ImportFindStep
<1>5. ASSUME NEW a \in Importers, StorePreview(a) PROVE ImportInv'
  BY <1>5, StoreStep
<1>6. ASSUME NEW a \in Importers, NEW i \in DOMAIN stored, Commit(a, i) PROVE ImportInv'
  BY <1>6, ImportCommitStep
<1>7. ASSUME NEW a \in Importers, CommitPreview(a) PROVE ImportInv'
  BY <1>7, BatchStep
<1>8. ASSUME NEW a \in Importers, Quit(a) PROVE ImportInv'
  BY <1>8, QuitStep
<1>9. CASE UNCHANGED importVars
  BY <1>9, InvStuttering
<1>10. QED
  BY <1>1, <1>2, <1>3, <1>4, <1>5, <1>6, <1>7, <1>8, <1>9 DEF ImportNext, Meanwhile

LEMMA ImportInvariance == ASSUME ImportConstantsOK PROVE ImportSpec => []ImportInv
<1>1. ImportInit => ImportInv
  BY ImportInvInit
<1>2. ImportInv /\ [ImportNext]_importVars => ImportInv'
  BY ImportInvStep
<1>3. QED
  BY <1>1, <1>2, PTL DEF ImportSpec

(* Identifiers of creators and keys of rows on record are unique, previews *)
(* on record have an owner and a status, and calls are at one of their     *)
(* steps: the unique indexes of the tables and the steps of the handlers.  *)
THEOREM ImportTypeCorrect == ASSUME ImportConstantsOK PROVE ImportSpec => []ImportTypeOK
<1>1. ASSUME ImportInv PROVE ImportTypeOK
  <2>1. \A i \in DOMAIN stored : stored[i].by \in Importers /\ stored[i].status \in {"previewed", "completed"}
    BY <1>1, EntryTyped DEF ImportInv, Entry
  <2>2. ASSUME NEW a \in Importers
        PROVE  task[a] = Nobody \/ task[a].step \in {"rows", "find", "store", "batch"}
    <3>1. task[a] \in PreviewTask \cup BatchTask \cup {Nobody}
      BY <1>1 DEF ImportInv, ImportTyped, TasksTyped
    <3>2. QED
      BY <3>1 DEF PreviewTask, BatchTask
  <2>3. QED
    BY <1>1, <2>1, <2>2 DEF ImportInv, Identified, ImportTypeOK
<1>2. QED
  BY <1>1, ImportInvariance, PTL

(* A commit comes out as its preview said but for what was written to the  *)
(* Registry after the preview began: it ignores no record, makes no second *)
(* creator of one name and reserves nothing hard for a critical creator    *)
(* without approval because of anything the preview could have seen, its   *)
(* own file included.                                                      *)
THEOREM SurprisesAreLater == ASSUME ImportConstantsOK PROVE ImportSpec => []PreviewHolds
<1>1. ImportInv => PreviewHolds
  BY DEF ImportInv
<1>2. QED
  BY <1>1, ImportInvariance, PTL

(* However many commits of one preview race, and of how many previews, a   *)
(* record that needs approval raises one request: the guard row of the     *)
(* batch lets one commit through.                                          *)
THEOREM RequestsRaisedOnce == ASSUME ImportConstantsOK PROVE ImportSpec => []AskedOnce
<1>1. ImportInv => AskedOnce
  BY DEF ImportInv, Raising
<1>2. QED
  BY <1>1, ImportInvariance, PTL

(* A preview that answers what is on record for the same checksum tells    *)
(* the errors of another file only if it would write nothing: identifiers  *)
(* are made up anew for each preview, so no other payload repeats.         *)
THEOREM ErrorsAreOfTheFile == ASSUME ImportConstantsOK PROVE ImportSpec => []ErrorsTold
<1>1. ImportInv => ErrorsTold
  BY DEF ImportInv
<1>2. QED
  BY <1>1, ImportInvariance, PTL
=============================================================================
