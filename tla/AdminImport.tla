----------------------------- MODULE AdminImport -----------------------------
(***************************************************************************)
(* Imports by administrators: a preview judges the rows of a file one by   *)
(* one and stores what is to be written; a commit, maybe much later,       *)
(* writes it in one batch, as rows or as requests for approval.            *)
(*                                                                         *)
(* A row is [type, name, key, mark]: the creator it is about, what is      *)
(* unique of it (of an alias, together with its creator) and the tier of   *)
(* the creator or the class of the handle.  The rest of a row is data; an  *)
(* alias kept as a handle has the same key as one that is not, since a     *)
(* handle that is valid has one normal form in both ways.                  *)
(***************************************************************************)
EXTENDS Naturals, Sequences, FiniteSets

CONSTANTS
    Unreadable,  \* a file that does not parse; other files are rows
    MaxRows,     \* the longest file that is taken
    Importers,   \* administrators, each with one call at a time
    Names, Keys, \* of creators, and of the rest
    Trips,       \* what a behaviour does: [files, previews, commits, events]
    Nobody

Sent == (UNION {t.files : t \in Trips}) \ {Unreadable}

RowsSent == UNION {{f[i] : i \in DOMAIN f} : f \in Sent}

(* Files have rows; what is unique of a row is a key, and only handles are *)
(* reserved.  Nobody is no key.                                            *)
ImportConstantsOK ==
    /\ Trips \subseteq [files : {t.files : t \in Trips}, previews : Nat, commits : Nat, events : Nat]
    /\ \A f \in Sent : f \in Seq(RowsSent) /\ f # <<>>
    /\ \A row \in RowsSent :
          /\ row.name \in Names
          /\ row.type \notin {"creator", "invalid"} => row.key \in Keys
          /\ row.mark = "hard_reserved" => row.type = "handle"
    /\ Nobody \notin Keys \cup ((Nat \X Nat) \X Keys)

VARIABLES
    people,   \* creators: [id, name, tier, born, since]
    taken,    \* rows of the rest: [key, since]
    stored,   \* previews on record, in order: [by, sum, faults, records, status]
    task,     \* per importer, Nobody or the call with what it has found
    trip,     \* what is left to do
    clock,    \* the number of writes to people and taken
    asked,    \* requests for approval: <<record, the commit that raised it>>
    surprises,\* <<when a preview began, when what its commit met was written>>
    answered  \* previews as they were answered: [empty, faulty, errors]

registryVars == <<people, taken, clock>>
importVars == <<registryVars, stored, task, trip, asked, surprises, answered>>

ImportInit ==
    /\ people = {} /\ taken = {} /\ clock = 0
    /\ stored = <<>>
    /\ task = [a \in Importers |-> Nobody]
    /\ trip \in Trips
    /\ asked = {} /\ surprises = {} /\ answered = {}

Less(what) == trip[what] > 0 /\ trip' = [trip EXCEPT ![what] = @ - 1]

Named(n) == {c \in people : c.name = n}

OnRecord(k) == \E x \in taken : x.key = k

OnStep(a, step) == task[a] # Nobody /\ task[a].step = step

Do(a, t) == task' = [task EXCEPT ![a] = t]

Quit(a) ==
    /\ task[a] # Nobody
    /\ Do(a, Nobody)
    /\ UNCHANGED <<registryVars, stored, trip, asked, surprises, answered>>

(***************************************************************************)
(* What else happens to the Registry meanwhile.  The first part of an      *)
(* identifier is the preview that made it up, or 0.                        *)
(***************************************************************************)
NewCreator(n) ==
    /\ Less("events")
    /\ clock' = clock + 1
    /\ people' = people \cup {[id |-> <<0, clock'>>, name |-> n, tier |-> "notable",
                               born |-> clock', since |-> clock']}
    /\ UNCHANGED <<taken, stored, task, asked, surprises, answered>>

Promote(c) ==
    /\ c.tier # "critical" /\ Less("events")
    /\ clock' = clock + 1
    /\ people' = (people \ {c}) \cup {[c EXCEPT !.tier = "critical", !.since = clock']}
    /\ UNCHANGED <<taken, stored, task, asked, surprises, answered>>

NewHandle(k) ==
    /\ ~OnRecord(k) /\ Less("events")
    /\ clock' = clock + 1
    /\ taken' = taken \cup {[key |-> k, since |-> clock']}
    /\ UNCHANGED <<people, stored, task, asked, surprises, answered>>

(***************************************************************************)
(* POST /imports/preview.                                                  *)
(***************************************************************************)
PreviewFile(a, f) ==
    /\ task[a] = Nobody /\ Less("previews")
    /\ f # Unreadable => Len(f) <= MaxRows
    /\ Do(a, [step |-> IF f = Unreadable THEN "find" ELSE "rows", file |-> f, at |-> 1,
              serial |-> trip.previews, began |-> clock, found |-> {}, own |-> {},
              records |-> {}, warnings |-> {}, faulty |-> f = Unreadable])
    /\ UNCHANGED <<registryVars, stored, asked, surprises, answered>>

(* The creator of a row: one of this file, one that a row before found, or *)
(* the only one of the name.                                               *)
OwnerOf(t, n) ==
    LET own == {c \in t.own : c.name = n}
        found == {c \in t.found : c.name = n}
    IN  IF own # {} THEN own
        ELSE IF found # {} THEN found
        ELSE IF Cardinality(Named(n)) = 1 THEN Named(n) ELSE {}

(* An alias is unique with its creator.                                    *)
KeyOf(row, c) == IF row.type = "alias" THEN <<c.id, row.key>> ELSE row.key

(* Mutant of Seen: only what is on record counts.                          *)
SeenOnRecord(t, row, c) == OnRecord(KeyOf(row, c))

(* A row of the file itself, or one on record, has the key already.        *)
Seen(t, row, c) ==
    \/ \E r \in t.records : r.key = KeyOf(row, c)
    \/ OnRecord(KeyOf(row, c))

Critical(row, c) == row.type = "handle" /\ row.mark = "hard_reserved" /\ c.tier = "critical"

Warned(t, codes) == [t EXCEPT !.warnings = @ \cup ({t.at} \X codes)]

Recorded(t, row, key, owner, ask) ==
    [t EXCEPT !.records = @ \cup
        {[id |-> <<t.serial, t.at>>, type |-> row.type, name |-> row.name, key |-> key,
          mark |-> row.mark, owner |-> owner, ask |-> ask, began |-> t.began]}]

Oldest(n) == {c \in Named(n) : \A d \in Named(n) : c.born <= d.born}

CreatorRow(t, row) ==
    LET c == [id |-> <<t.serial, t.at>>, name |-> row.name, tier |-> row.mark]
    IN  IF Named(row.name) # {} THEN
            [Warned(t, {"duplicate_creator"}) EXCEPT
                !.found = {d \in @ : d.name # row.name} \cup Oldest(row.name)]
        ELSE IF \E d \in t.own : d.name = row.name THEN Warned(t, {"duplicate_creator"})
        ELSE Recorded([t EXCEPT !.own = @ \cup {c}], row, Nobody, c.id, FALSE)

RelatedRow(t, row, c) ==
    LET u == [t EXCEPT !.found = IF c \in t.own THEN @ ELSE @ \cup {c}]
    IN  IF Seen(t, row, c) THEN Warned(u, IF row.type = "handle" THEN {"handle_conflict"} ELSE {})
        ELSE Recorded(Warned(u, IF Critical(row, c) THEN {"critical_approval"} ELSE {}),
                      row, KeyOf(row, c), c.id, Critical(row, c))

Faulty(t) == [t EXCEPT !.faulty = TRUE]

Judged(t, row) ==
    IF row.type = "creator" THEN {CreatorRow(t, row)}
    ELSE IF row.type = "invalid" \/ OwnerOf(t, row.name) = {} THEN {Faulty(t)}
    ELSE {RelatedRow(t, row, c) : c \in OwnerOf(t, row.name)}

JudgeRow(a) ==
    /\ OnStep(a, "rows")
    /\ \E t \in Judged(task[a], task[a].file[task[a].at]) :
          Do(a, IF t.at = Len(t.file) THEN [t EXCEPT !.step = "find"] ELSE [t EXCEPT !.at = @ + 1])
    /\ UNCHANGED <<registryVars, stored, trip, asked, surprises, answered>>

(* Mutant of Checksum: it is of the rows and not of what is to be written. *)
ChecksumOfRows(t) == {r.key : r \in t.records}

(* The identifiers of the records are new, so only empty payloads repeat.  *)
Checksum(t) == <<t.records, t.warnings>>

Same(a) == {i \in DOMAIN stored : stored[i].by = a /\ stored[i].sum = Checksum(task[a])}

Answer(a, errors) ==
    /\ answered' = answered \cup {[empty |-> task[a].records = {}, faulty |-> task[a].faulty,
                                   errors |-> errors]}
    /\ Do(a, Nobody)

(* What was previewed before is answered, with the errors stored for it.   *)
FindPreview(a) ==
    /\ OnStep(a, "find")
    /\ IF Same(a) = {}
       THEN Do(a, [task[a] EXCEPT !.step = "store"]) /\ UNCHANGED answered
       ELSE \E i \in Same(a) : Answer(a, stored[i].faults)
    /\ UNCHANGED <<registryVars, stored, trip, asked, surprises>>

StorePreview(a) ==
    /\ OnStep(a, "store")
    /\ Same(a) = {}
    /\ stored' = Append(stored, [by |-> a, sum |-> Checksum(task[a]), faults |-> task[a].faulty,
                                 records |-> task[a].records, status |-> "previewed"])
    /\ Answer(a, task[a].faulty)
    /\ UNCHANGED <<registryVars, trip, asked, surprises>>

(***************************************************************************)
(* POST /imports/commit, of anybody's preview.  A completed one is         *)
(* answered as it is.                                                      *)
(***************************************************************************)
Commit(a, i) ==
    /\ task[a] = Nobody /\ Less("commits")
    /\ stored[i].status = "previewed" /\ ~stored[i].faults
    /\ Do(a, [step |-> "batch", batch |-> i, serial |-> trip.commits])
    /\ UNCHANGED <<registryVars, stored, asked, surprises, answered>>

(* Mutant of Fresh: the guard row is left out of the batch.                *)
FreshAnyway(i) == TRUE

Fresh(i) == stored[i].status = "previewed"

(* What makes a record come out otherwise than its preview says, by when   *)
(* it was written, 0 for the file itself: a second creator of one name, a  *)
(* row that is ignored, a hard reservation of a critical creator that      *)
(* nobody approves.                                                        *)
Met(rs, r) ==
    IF r.type = "creator" THEN {c.born : c \in Named(r.name)} \cup
                               {0 : q \in {x \in rs \ {r} : x.type = "creator" /\ x.name = r.name}}
    ELSE {x.since : x \in {y \in taken : y.key = r.key}} \cup {0 : q \in {x \in rs \ {r} : x.key = r.key}}
         \cup IF r.mark # "hard_reserved" THEN {}
              ELSE {c.since : c \in {p \in people : p.id = r.owner /\ p.tier = "critical"}} \cup
                   {0 : q \in {x \in rs : x.type = "creator" /\ x.id = r.owner /\ x.mark = "critical"}}

Born(rs) ==
    {[id |-> r.id, name |-> r.name, tier |-> r.mark, born |-> clock', since |-> clock'] :
        r \in {x \in rs : x.type = "creator" /\ \A c \in people : c.id # x.id}}

(* Rows of the rest are inserted or, where there is one already, ignored.  *)
Inserted(rs) ==
    LET keys == {r.key : r \in {x \in rs : x.type # "creator"}}
    IN  {[key |-> k, since |-> clock'] : k \in {x \in keys : ~OnRecord(x)}}

Completed(i) == [stored EXCEPT ![i].status = "completed"]

CommitPreview(a) ==
    LET i == task[a].batch
        live == {r \in stored[i].records : ~r.ask}
    IN  /\ OnStep(a, "batch")
        /\ Fresh(i)
        /\ clock' = clock + 1
        /\ people' = people \cup Born(live)
        /\ taken' = taken \cup Inserted(live)
        /\ stored' = Completed(i)
        /\ asked' = asked \cup {<<r.id, task[a].serial>> : r \in stored[i].records \ live}
        /\ surprises' = surprises \cup
              UNION {{r.began} \X Met(live, r) : r \in live}
        /\ Do(a, Nobody)
        /\ UNCHANGED <<trip, answered>>

ImportNext ==
    \/ \E n \in Names : NewCreator(n)
    \/ \E c \in people : Promote(c)
    \/ \E k \in Keys : NewHandle(k)
    \/ \E a \in Importers :
          \/ \E f \in trip.files : PreviewFile(a, f)
          \/ JudgeRow(a) \/ FindPreview(a) \/ StorePreview(a)
          \/ \E i \in DOMAIN stored : Commit(a, i)
          \/ CommitPreview(a) \/ Quit(a)

ImportSpec == ImportInit /\ [][ImportNext]_importVars

(***************************************************************************)
(* Properties.                                                             *)
(***************************************************************************)
ImportTypeOK ==
    /\ \A c, d \in people : c.id = d.id => c = d
    /\ \A x, y \in taken : x.key = y.key => x = y
    /\ \A i \in DOMAIN stored : stored[i].by \in Importers /\ stored[i].status \in {"previewed", "completed"}
    /\ \A a \in Importers : task[a] = Nobody \/ task[a].step \in {"rows", "find", "store", "batch"}

(***************************************************************************)
(* A commit that comes out otherwise than its preview said, with a record  *)
(* ignored, two creators of one name or a critical hard reservation that   *)
(* nobody approves, met what was written after the preview began.          *)
(***************************************************************************)
PreviewHolds == \A x \in surprises : x[1] < x[2]

(***************************************************************************)
(* However commits of one preview race, each record raises one request.    *)
(***************************************************************************)
AskedOnce == \A x, y \in asked : x[1] = y[1] => x = y

(***************************************************************************)
(* A preview tells the errors of the file that was sent, unless nothing of *)
(* the file would be written: then the answer may be another file's.       *)
(***************************************************************************)
ErrorsTold == \A x \in answered : x.errors = x.faulty \/ x.empty
=============================================================================
