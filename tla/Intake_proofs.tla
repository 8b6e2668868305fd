----------------------------- MODULE Intake_proofs -----------------------------
(***************************************************************************)
(* What holds of suggestions from the public for any files, submissions    *)
(* and number of calls.                                                    *)
(***************************************************************************)
EXTENDS Intake, FiniteSetTheorems, TLAPS

RowCall == [row : Rows]
IdCall == [id : Ids]
Carried == RowCall \cup IdCall \cup CommitCalls \cup {None}

IdPoints == {"candidate", "reopen", "match", "draft", "verdict"}

StoreTyped ==
    /\ submissions \in [Ids -> SubmissionRows \cup {None}]
    /\ batches \in [Commits -> BatchRows \cup {None}]
    /\ candidates \in [Ids -> {"pending", "approved", "rejected", "merged"} \cup {None}]
    /\ drafts \in [{r.name : r \in Rows} -> Nat]
    /\ known \subseteq Evidence

CallsTyped ==
    /\ pc \in [Calls -> Points]
    /\ call \in [Calls -> Carried]
    /\ standing \in [Calls -> SUBSET Ids]

Typed == StoreTyped /\ CallsTyped

LEMMA FileRows ==
    ASSUME ConstantsOK, NEW f \in Files, NEW i \in DOMAIN f
    PROVE  f[i] \in Rows /\ DOMAIN f = 1 .. Len(f) /\ i \in Nat
<1>1. f \in Seq(Rows)
  BY DEF ConstantsOK
<1>2. QED
  BY <1>1

LEMMA TripleIds ==
    ASSUME ConstantsOK, NEW k \in Commits, NEW f \in Files, NEW i \in DOMAIN f
    PROVE  /\ <<k, i, f[i]>> \in RowIds /\ <<k, i, f[i]>> \in Ids
           /\ <<k, i, f[i]>> \notin Singles /\ <<k, i, f[i]>> \notin DOMAIN Legacy
<1>1. <<k, i, f[i]>> \in RowIds
  BY DEF RowIds
<1>2. QED
  BY <1>1 DEF Ids, ConstantsOK

(***************************************************************************)
(* Old submissions that were active ever since.  A call that enters a row  *)
(* has looked: none of these has its content.                              *)
(***************************************************************************)
Original(old) == IsActive(old) /\ old \notin reopened

Unoriginal(row) ==
    \A old \in DOMAIN Legacy : Original(old) => Fingerprint[Legacy[old]] # Fingerprint[row]

SubmissionsKnown ==
    /\ \A id \in Ids : submissions[id] # None =>
          /\ Valid(submissions[id].row)
          /\ submissions[id].printed = (id \notin DOMAIN Legacy)
          /\ id \notin DOMAIN Legacy => Unoriginal(submissions[id].row)
    /\ \A old \in DOMAIN Legacy : submissions[old] # None /\ submissions[old].row = Legacy[old]

PrintedOnce ==
    \A a, b \in ActiveIds :
        /\ submissions[a].printed /\ submissions[b].printed
        /\ Fingerprint[submissions[a].row] = Fingerprint[submissions[b].row]
        => a = b

CandidatesKnown == \A id \in Ids : candidates[id] # None => submissions[id] # None

(* A batch is on record with its submissions.                              *)
BatchesKnown ==
    /\ \A k \in Commits : batches[k] = None =>
          \A f \in Files : \A i \in DOMAIN f : submissions[<<k, i, f[i]>>] = None
    /\ \A k \in Commits : batches[k] # None =>
          /\ batches[k].file \in Files
          /\ batches[k].result \in [DOMAIN batches[k].file -> Verdicts]
          /\ \A i \in DOMAIN batches[k].file :
                batches[k].result[i] = "submitted" <=>
                submissions[<<k, i, batches[k].file[i]>>] # None

(***************************************************************************)
(* What a call carries and what it has seen, by where it is; st is what    *)
(* was active ever since its attempt began.                                *)
(***************************************************************************)
Carries(p, c) ==
    /\ p = "idle" => c = None
    /\ p \in {"list", "insert"} => c \in RowCall /\ Valid(c.row)
    /\ p \in {"find", "preview", "batch", "refind"} => c \in CommitCalls
    /\ p \in IdPoints => c \in IdCall /\ submissions[c.id] # None

(* The outcomes of a preview, as far as they outlive it.                   *)
Foreseen(c, st) ==
    /\ c.outcomes \in [DOMAIN c.file -> Outcomes]
    /\ \A i \in DOMAIN c.file :
          /\ c.outcomes[i] # "invalid" => Valid(c.file[i])
          /\ c.outcomes[i] \notin {"invalid", "within_file"} => ~RepeatsEarlier(c.file, i)
          /\ c.outcomes[i] \in {"possible", "ready"} => Unoriginal(c.file[i])
          /\ i \in c.selected \ c.confirmed => c.outcomes[i] # "possible"
          /\ c.outcomes[i] = "ready" => \A old \in st : ~Overlap(c.file[i], submissions[old].row)

Seeing(p, c, st) ==
    /\ Carries(p, c)
    /\ st \subseteq ActiveIds
    /\ p = "insert" => Unoriginal(c.row)
    /\ p = "batch" => Foreseen(c, st)

CallsSeeing == \A w \in Calls : Seeing(pc[w], call[w], standing[w])

(* Drafts, and calls about to leave one.                                   *)
Drafting(n) == {w \in Calls : pc[w] = "draft" /\ NameOf(call[w].id) = n}

DraftsLeft == \A n \in DOMAIN drafts : drafts[n] + Cardinality(Drafting(n)) <= Cardinality(Calls)

Inv ==
    /\ Typed
    /\ SubmissionsKnown /\ PrintedOnce /\ CandidatesKnown /\ BatchesKnown
    /\ CallsSeeing
    /\ NoneBlind
    /\ DraftsLeft

(***************************************************************************)
(* Calls move one at a time.                                               *)
(***************************************************************************)
LEMMA Going ==
    ASSUME Typed, NEW w \in Calls, NEW p \in Points, NEW c \in Carried, Goto(w, p, c)
    PROVE  /\ pc' \in [Calls -> Points] /\ call' \in [Calls -> Carried]
           /\ pc'[w] = p /\ call'[w] = c
           /\ \A v \in Calls \ {w} : pc'[v] = pc[v] /\ call'[v] = call[v]
BY DEF Typed, CallsTyped, Goto

(* Old submissions stay, and the only original ones are those that were.   *)
Lasting ==
    /\ \A id \in Ids : submissions[id] # None =>
          /\ submissions'[id] # None
          /\ submissions'[id].row = submissions[id].row
          /\ submissions'[id].printed = submissions[id].printed
    /\ \A old \in DOMAIN Legacy : Original(old)' => Original(old)

LEMMA UnoriginalLasts ==
    ASSUME Lasting, NEW row, Unoriginal(row)
    PROVE  Unoriginal(row)'
BY DEF Lasting, Unoriginal

LEMMA SeeingLasts ==
    ASSUME ConstantsOK, Lasting, NEW p, NEW c, NEW st, NEW rest,
           Seeing(p, c, st), rest \subseteq st, rest \subseteq ActiveIds'
    PROVE  Seeing(p, c, rest)'
<1>1. Carries(p, c)'
  BY DEF Seeing, Carries, Lasting, IdCall
<1>2. ASSUME p = "insert" PROVE Unoriginal(c.row)'
  BY <1>2, UnoriginalLasts DEF Seeing
<1>3. ASSUME p = "batch" PROVE Foreseen(c, rest)'
  <2>1. Foreseen(c, st) /\ c \in CommitCalls
    BY <1>3 DEF Seeing, Carries
  <2>2. ASSUME NEW i \in DOMAIN c.file
        PROVE  /\ c.outcomes[i] \in {"possible", "ready"} => Unoriginal(c.file[i])'
               /\ c.outcomes[i] = "ready" => \A old \in rest : ~Overlap(c.file[i], submissions'[old].row)
    <3>1. PICK row : row = c.file[i]
      OBVIOUS
    <3>2. c.outcomes[i] \in {"possible", "ready"} => Unoriginal(row)'
      BY <2>1, <3>1, UnoriginalLasts DEF Foreseen
    <3>3. \A old \in st : submissions'[old].row = submissions[old].row
      BY DEF Seeing, ActiveIds, IsActive, Lasting
    <3>4. c.outcomes[i] = "ready" => \A old \in rest : ~Overlap(c.file[i], submissions'[old].row)
      BY <2>1, <3>3 DEF Foreseen
    <3>5. QED
      BY <3>1, <3>2, <3>4
  <2>3. QED
    BY <2>1, <2>2 DEF Foreseen
<1>4. QED
  BY <1>1, <1>2, <1>3 DEF Seeing

(* One call moves; the store lasts.                                        *)
LEMMA CallsMove ==
    ASSUME ConstantsOK, Inv, Lasting, NEW w \in Calls, NEW p \in Points, NEW c \in Carried,
           Goto(w, p, c),
           \A v \in Calls \ {w} : standing'[v] \subseteq standing[v] /\ standing'[v] \subseteq ActiveIds',
           NEW st, standing'[w] = st, Seeing(p, c, st)'
    PROVE  CallsSeeing'
<1>1. ASSUME NEW v \in Calls PROVE Seeing(pc[v], call[v], standing[v])'
  <2>1. CASE v = w
    <3>1. pc'[v] = p /\ call'[v] = c /\ standing'[v] = st
      BY <2>1, Going DEF Inv
    <3>2. QED
      BY <3>1
  <2>2. CASE v # w
    <3>1. PICK q, d, s, rest : q = pc[v] /\ d = call[v] /\ s = standing[v] /\ rest = standing'[v]
      OBVIOUS
    <3>2. Seeing(q, d, s)
      BY <3>1 DEF Inv, CallsSeeing
    <3>3. Seeing(q, d, rest)'
      BY <2>2, <3>1, <3>2, SeeingLasts
    <3>4. pc'[v] = q /\ call'[v] = d /\ standing'[v] = rest
      BY <2>2, <3>1, Going DEF Inv
    <3>5. QED
      BY <3>3, <3>4
  <2>3. QED
    BY <2>1, <2>2
<1>2. QED
  BY <1>1 DEF CallsSeeing

(* No call moves.                                                          *)
LEMMA CallsStay ==
    ASSUME ConstantsOK, Inv, Lasting, UNCHANGED <<pc, call>>,
           \A v \in Calls : standing'[v] \subseteq standing[v] /\ standing'[v] \subseteq ActiveIds'
    PROVE  CallsSeeing'
<1>1. ASSUME NEW v \in Calls PROVE Seeing(pc[v], call[v], standing[v])'
  <2>1. PICK q, d, s, rest : q = pc[v] /\ d = call[v] /\ s = standing[v] /\ rest = standing'[v]
    OBVIOUS
  <2>2. Seeing(q, d, s)
    BY <2>1 DEF Inv, CallsSeeing
  <2>3. Seeing(q, d, rest)'
    BY <2>1, <2>2, SeeingLasts
  <2>4. pc'[v] = q /\ call'[v] = d /\ standing'[v] = rest
    BY <2>1
  <2>5. QED
    BY <2>3, <2>4
<1>2. QED
  BY <1>1 DEF CallsSeeing

(***************************************************************************)
(* What a step leaves alone.                                               *)
(***************************************************************************)
LEMMA StoreStays ==
    ASSUME UNCHANGED <<submissions, reopened>>
    PROVE  Lasting /\ ActiveIds' = ActiveIds /\ \A id \in Ids : IsActive(id)' = IsActive(id)
BY DEF Lasting, Original, IsActive, ActiveIds

LEMMA SubmissionsStay ==
    ASSUME UNCHANGED <<submissions, reopened>>, SubmissionsKnown, PrintedOnce
    PROVE  SubmissionsKnown' /\ PrintedOnce'
<1>1. Lasting
  BY StoreStays
<1>2. ASSUME NEW id \in Ids, submissions[id] # None, id \notin DOMAIN Legacy
      PROVE  Unoriginal(submissions[id].row)'
  <2>1. PICK row : row = submissions[id].row
    OBVIOUS
  <2>2. Unoriginal(row)
    BY <1>2, <2>1 DEF SubmissionsKnown
  <2>3. Unoriginal(row)'
    BY <1>1, <2>2, UnoriginalLasts
  <2>4. submissions'[id].row = row
    BY <2>1
  <2>5. QED
    BY <2>3, <2>4
<1>3. SubmissionsKnown'
  BY <1>2 DEF SubmissionsKnown
<1>4. PrintedOnce'
  BY DEF PrintedOnce, ActiveIds, IsActive
<1>5. QED
  BY <1>3, <1>4

LEMMA BatchesStay ==
    ASSUME UNCHANGED <<submissions, batches>>, BatchesKnown PROVE BatchesKnown'
BY DEF BatchesKnown

LEMMA FewerDrafting ==
    ASSUME ConstantsOK, Inv, NEW n \in DOMAIN drafts, drafts'[n] = drafts[n],
           Drafting(n)' \subseteq Drafting(n)
    PROVE  drafts'[n] + Cardinality(Drafting(n)') <= Cardinality(Calls)
<1>1. PICK old, new : old = Drafting(n) /\ new = Drafting(n)'
  OBVIOUS
<1>2. old \in SUBSET Calls /\ new \in SUBSET old
  BY <1>1 DEF Drafting
<1>3. IsFiniteSet(Calls) /\ IsFiniteSet(old)
  BY <1>2, FS_Subset DEF ConstantsOK
<1>4. Cardinality(new) <= Cardinality(old) /\ IsFiniteSet(new)
  BY <1>2, <1>3, FS_Subset
<1>5. Cardinality(new) \in Nat /\ Cardinality(old) \in Nat /\ Cardinality(Calls) \in Nat
  BY <1>3, <1>4, FS_CardinalityType
<1>6. drafts[n] + Cardinality(old) <= Cardinality(Calls) /\ drafts[n] \in Nat
  BY <1>1 DEF Inv, DraftsLeft, Typed, StoreTyped
<1>7. drafts'[n] + Cardinality(new) <= Cardinality(Calls)
  BY <1>4, <1>5, <1>6
<1>8. QED
  BY <1>1, <1>7

(* A call that was about to leave a draft of a name is so still.           *)
LEMMA NameStays ==
    ASSUME Inv, Lasting, NEW v \in Calls, pc[v] \in IdPoints, call'[v] = call[v]
    PROVE  NameOf(call[v].id)' = NameOf(call[v].id)
<1>1. call[v] \in IdCall /\ submissions[call[v].id] # None
  BY DEF Inv, CallsSeeing, Seeing, Carries
<1>2. submissions'[call[v].id].row = submissions[call[v].id].row
  BY <1>1 DEF Lasting, IdCall
<1>3. QED
  BY <1>2 DEF NameOf

LEMMA DraftsStay ==
    ASSUME ConstantsOK, Inv, Lasting, UNCHANGED drafts,
           \A v \in Calls : pc'[v] = "draft" => pc[v] = "draft" /\ call'[v] = call[v]
    PROVE  DraftsLeft'
<1>1. ASSUME NEW n \in DOMAIN drafts PROVE Drafting(n)' \subseteq Drafting(n)
  BY NameStays DEF Drafting, IdPoints
<1>2. QED
  BY <1>1, FewerDrafting DEF DraftsLeft

(* A step of one call that writes nothing but, perhaps, what it saw.       *)
LEMMA CallStep ==
    ASSUME ConstantsOK, Inv, NEW w \in Calls, NEW p \in Points, NEW c \in Carried, Goto(w, p, c),
           UNCHANGED <<submissions, batches, candidates, drafts, known, blind, reopened>>,
           NEW st \in SUBSET Ids, standing' = [standing EXCEPT ![w] = st],
           p # "draft", Seeing(p, c, st)
    PROVE  Inv'
<1>1. Lasting /\ ActiveIds' = ActiveIds
  BY StoreStays
<1>2. /\ standing' \in [Calls -> SUBSET Ids] /\ standing'[w] = st
      /\ \A v \in Calls \ {w} : standing'[v] = standing[v]
  BY DEF Inv, Typed, CallsTyped
<1>3. Typed'
  BY <1>2, Going DEF Inv, Typed, StoreTyped, CallsTyped
<1>4. SubmissionsKnown' /\ PrintedOnce' /\ CandidatesKnown' /\ BatchesKnown'
  BY SubmissionsStay, BatchesStay DEF Inv, CandidatesKnown
<1>5. \A v \in Calls : standing[v] \subseteq ActiveIds
  BY DEF Inv, CallsSeeing, Seeing
<1>6. Seeing(p, c, st)'
  BY <1>1, SeeingLasts DEF Seeing
<1>7. CallsSeeing'
  BY <1>1, <1>2, <1>5, <1>6, CallsMove
<1>8. DraftsLeft'
  BY <1>1, DraftsStay, Going DEF Inv
<1>9. NoneBlind'
  BY DEF Inv, NoneBlind
<1>10. QED
  BY <1>3, <1>4, <1>7, <1>8, <1>9 DEF Inv

LEMMA StandingSame ==
    ASSUME Inv, NEW w \in Calls, UNCHANGED standing
    PROVE  standing[w] \in SUBSET Ids /\ standing' = [standing EXCEPT ![w] = standing[w]]
           /\ standing[w] \subseteq ActiveIds
BY DEF Inv, Typed, CallsTyped, CallsSeeing, Seeing

LEMMA FinishStep ==
    ASSUME ConstantsOK, Inv, NEW w \in Calls, Finish(w),
           UNCHANGED <<submissions, batches, candidates, drafts, known, blind, reopened, standing>>
    PROVE  Inv'
<1>1. PICK st : st = standing[w]
  OBVIOUS
<1>2. st \in SUBSET Ids /\ standing' = [standing EXCEPT ![w] = st] /\ st \subseteq ActiveIds
  BY <1>1, StandingSame
<1>3. "idle" \in Points /\ None \in Carried /\ Goto(w, "idle", None)
  BY DEF Points, Carried, Finish
<1>4. Seeing("idle", None, st)
  BY <1>2 DEF Seeing, Carries, IdPoints
<1>5. QED
  BY <1>2, <1>3, <1>4, CallStep

LEMMA MoveStep ==
    ASSUME ConstantsOK, Inv, NEW w \in Calls, NEW p \in Points \ {"draft", "insert", "batch"},
           NEW c \in Carried, Goto(w, p, c), Carries(p, c),
           UNCHANGED <<submissions, batches, candidates, drafts, known, blind, reopened, standing>>
    PROVE  Inv'
<1>1. PICK st : st = standing[w]
  OBVIOUS
<1>2. st \in SUBSET Ids /\ standing' = [standing EXCEPT ![w] = st] /\ st \subseteq ActiveIds
  BY <1>1, StandingSame
<1>3. Seeing(p, c, st)
  BY <1>2 DEF Seeing
<1>4. QED
  BY <1>2, <1>3, CallStep

LEMMA CallAt ==
    ASSUME Inv, NEW w \in Calls
    PROVE  /\ call[w] \in Carried /\ Seeing(pc[w], call[w], standing[w])
           /\ pc[w] \in {"list", "insert"} => call[w] \in RowCall /\ Valid(call[w].row)
           /\ pc[w] \in {"find", "preview", "batch", "refind"} => call[w] \in CommitCalls
           /\ pc[w] \in IdPoints => call[w] \in IdCall /\ submissions[call[w].id] # None
BY DEF Inv, Typed, CallsTyped, CallsSeeing, Seeing, Carries

LEMMA StartStep ==
    ASSUME ConstantsOK, Inv, NEW w \in Calls, NEW op, NEW p \in Points \ {"draft", "insert", "batch"},
           NEW c \in Carried, Start(w, op, p, c), Carries(p, c)
    PROVE  Inv'
<1>1. Goto(w, p, c) /\ UNCHANGED <<submissions, batches, candidates, drafts, known, blind, reopened, standing>>
  BY DEF Start, storeVars, historyVars
<1>2. QED
  BY <1>1, MoveStep

LEMMA StartsStep ==
    ASSUME ConstantsOK, Inv, NEW w \in Calls,
           StartCreate(w) \/ StartCommit(w) \/ StartConvert(w) \/ StartApprove(w)
    PROVE  Inv'
<1>1. CASE StartCreate(w)
  <2>1. PICK r \in Forms : Valid(r) /\ Start(w, "create", "list", [row |-> r])
    BY <1>1 DEF StartCreate
  <2>2. [row |-> r] \in RowCall /\ [row |-> r].row = r
    BY DEF RowCall, Rows
  <2>3. Carries("list", [row |-> r]) /\ [row |-> r] \in Carried
    BY <2>1, <2>2 DEF Carries, IdPoints, Carried
  <2>4. QED
    BY <2>1, <2>3, StartStep DEF Points
<1>2. CASE StartCommit(w)
  <2>1. PICK k \in Commits, f \in Files, s \in Selections :
            Start(w, "commit", "find",
                  [commit |-> k, file |-> f, selected |-> s.selected, confirmed |-> s.confirmed,
                   attempt |-> 0, outcomes |-> <<>>])
    BY <1>2 DEF StartCommit
  <2>2. PICK c : c = [commit |-> k, file |-> f, selected |-> s.selected, confirmed |-> s.confirmed,
                      attempt |-> 0, outcomes |-> <<>>]
    OBVIOUS
  <2>3. c \in CommitCalls
    BY <2>2 DEF CommitCalls
  <2>4. Carries("find", c) /\ c \in Carried
    BY <2>3 DEF Carries, IdPoints, Carried
  <2>5. QED
    BY <2>1, <2>2, <2>4, StartStep DEF Points
<1>3. CASE StartConvert(w)
  <2>1. PICK id \in Ids : submissions[id] # None /\ Start(w, "convert", "candidate", [id |-> id])
    BY <1>3 DEF StartConvert
  <2>2. [id |-> id] \in IdCall /\ [id |-> id].id = id
    BY DEF IdCall
  <2>3. Carries("candidate", [id |-> id]) /\ [id |-> id] \in Carried
    BY <2>1, <2>2 DEF Carries, IdPoints, Carried
  <2>4. QED
    BY <2>1, <2>3, StartStep DEF Points
<1>4. CASE StartApprove(w)
  <2>1. PICK id \in Ids, p \in {"match", "verdict"} :
            candidates[id] # None /\ Start(w, "approve_candidate", p, [id |-> id])
    BY <1>4 DEF StartApprove
  <2>2. [id |-> id] \in IdCall /\ [id |-> id].id = id /\ submissions[id] # None
    BY <2>1 DEF IdCall, Inv, CandidatesKnown
  <2>3. Carries(p, [id |-> id]) /\ [id |-> id] \in Carried
    BY <2>1, <2>2 DEF Carries, IdPoints, Carried
  <2>4. QED
    BY <2>1, <2>3, StartStep DEF Points
<1>5. QED
  BY <1>1, <1>2, <1>3, <1>4

(***************************************************************************)
(* Steps that read.                                                        *)
(***************************************************************************)
LEMMA FailStep == ASSUME ConstantsOK, Inv, NEW w \in Calls, Fail(w) PROVE Inv'
BY FinishStep DEF Fail, storeVars, historyVars

LEMMA UnseenUnoriginal ==
    ASSUME Inv, NEW row, Fingerprint[row] \notin ActivePrints
    PROVE  Unoriginal(row)
<1>1. SUFFICES ASSUME NEW old \in DOMAIN Legacy, Original(old)
               PROVE  Fingerprint[Legacy[old]] # Fingerprint[row]
  BY DEF Unoriginal
<1>2. old \in ActiveIds /\ submissions[old].row = Legacy[old]
  BY <1>1 DEF Original, ActiveIds, Ids, Inv, SubmissionsKnown
<1>3. Fingerprint[Legacy[old]] \in ActivePrints
  BY <1>2 DEF ActivePrints, ActiveRows
<1>4. QED
  BY <1>3

LEMMA ListStep == ASSUME ConstantsOK, Inv, NEW w \in Calls, ListActive(w) PROVE Inv'
<1>1. pc[w] = "list" /\ UNCHANGED <<submissions, batches, candidates, drafts, known, blind, reopened, standing>>
  BY DEF ListActive, At, storeVars, historyVars
<1>2. PICK c, st : c = call[w] /\ st = standing[w]
  OBVIOUS
<1>3. CASE Fingerprint[c.row] \in ActivePrints
  BY <1>1, <1>2, <1>3, FinishStep DEF ListActive
<1>4. CASE Fingerprint[c.row] \notin ActivePrints
  <2>1. Goto(w, "insert", c)
    BY <1>2, <1>4 DEF ListActive
  <2>2. c \in RowCall /\ Valid(c.row) /\ c \in Carried /\ "insert" \in Points
    BY <1>1, <1>2, CallAt DEF Points
  <2>3. st \in SUBSET Ids /\ standing' = [standing EXCEPT ![w] = st] /\ st \subseteq ActiveIds
    BY <1>1, <1>2, StandingSame
  <2>4. Unoriginal(c.row)
    BY <1>4, UnseenUnoriginal
  <2>5. Seeing("insert", c, st)
    BY <2>2, <2>3, <2>4 DEF Seeing, Carries, IdPoints
  <2>6. QED
    BY <1>1, <2>1, <2>2, <2>3, <2>5, CallStep
<1>5. QED
  BY <1>3, <1>4

LEMMA AttemptStep ==
    ASSUME ConstantsOK, Inv, NEW w \in Calls, pc[w] \in {"find", "refind"}, NEW n \in {0, 1}, Attempt(w, n),
           UNCHANGED <<submissions, batches, candidates, drafts, known>>
    PROVE  Inv'
<1>1. PICK c, d, st : c = call[w] /\ d = [c EXCEPT !.attempt = n] /\ st = ActiveIds
  OBVIOUS
<1>2. d \in CommitCalls /\ d \in Carried /\ "preview" \in Points
  <2>1. c \in CommitCalls
    BY <1>1, CallAt
  <2>2. QED
    BY <1>1, <2>1 DEF CommitCalls, Carried, Points
<1>3. Goto(w, "preview", d) /\ standing' = [standing EXCEPT ![w] = st] /\ UNCHANGED <<blind, reopened>>
  BY <1>1 DEF Attempt
<1>4. st \in SUBSET Ids /\ st \subseteq ActiveIds
  BY <1>1 DEF ActiveIds
<1>5. Seeing("preview", d, st)
  BY <1>2, <1>4 DEF Seeing, Carries, IdPoints
<1>6. QED
  BY <1>2, <1>3, <1>4, <1>5, CallStep

LEMMA FindStep == ASSUME ConstantsOK, Inv, NEW w \in Calls, FindBatch(w) \/ Refind(w) PROVE Inv'
<1>1. /\ pc[w] \in {"find", "refind"} /\ UNCHANGED <<submissions, batches, candidates, drafts, known>>
      /\ Replay(w) \/ Refuse(w) \/ \E n \in {0, 1} : Attempt(w, n)
  BY DEF FindBatch, Refind, At, storeVars
<1>2. CASE Replay(w)
  BY <1>1, <1>2, FinishStep DEF Replay
<1>3. CASE Refuse(w)
  BY <1>1, <1>3, FinishStep DEF Refuse, historyVars
<1>4. ASSUME NEW n \in {0, 1}, Attempt(w, n) PROVE Inv'
  BY <1>1, <1>4, AttemptStep
<1>5. QED
  BY <1>1, <1>2, <1>3, <1>4

LEMMA OutcomeMeans ==
    ASSUME NEW f, NEW i
    PROVE  /\ Outcome(f, i) \in Outcomes
           /\ Outcome(f, i) # "invalid" => Valid(f[i])
           /\ Outcome(f, i) \notin {"invalid", "within_file"} => ~RepeatsEarlier(f, i)
           /\ Outcome(f, i) \in {"possible", "ready"} => Fingerprint[f[i]] \notin ActivePrints
           /\ Outcome(f, i) = "ready" => \A s \in ActiveRows : ~Overlap(f[i], s)
<1>1. PICK o : o = Outcome(f, i)
  OBVIOUS
<1>2. CASE ~Valid(f[i])
  BY <1>2 DEF Outcome, Outcomes
<1>3. CASE Valid(f[i]) /\ RepeatsEarlier(f, i)
  BY <1>3 DEF Outcome, Outcomes
<1>4. CASE Valid(f[i]) /\ ~RepeatsEarlier(f, i) /\ Fingerprint[f[i]] \in ActivePrints
  BY <1>4 DEF Outcome, Outcomes
<1>5. CASE /\ Valid(f[i]) /\ ~RepeatsEarlier(f, i) /\ Fingerprint[f[i]] \notin ActivePrints
           /\ Reviewed(f[i]) \/ \E s \in ActiveRows : Overlap(f[i], s)
  BY <1>5 DEF Outcome, Outcomes
<1>6. CASE /\ Valid(f[i]) /\ ~RepeatsEarlier(f, i) /\ Fingerprint[f[i]] \notin ActivePrints
           /\ ~Reviewed(f[i]) /\ \A s \in ActiveRows : ~Overlap(f[i], s)
  BY <1>6 DEF Outcome, Outcomes
<1>7. QED
  BY <1>2, <1>3, <1>4, <1>5, <1>6

LEMMA PreviewStep == ASSUME ConstantsOK, Inv, NEW w \in Calls, Preview(w) PROVE Inv'
<1>1. PICK c, st : c = call[w] /\ st = standing[w]
  OBVIOUS
<1>2. PICK outcomes : outcomes = [i \in DOMAIN c.file |-> Outcome(c.file, i)]
  OBVIOUS
<1>3. /\ pc[w] = "preview"
      /\ UNCHANGED <<submissions, batches, candidates, drafts, known, blind, reopened, standing>>
      /\ \/ Finish(w)
         \/ Goto(w, "batch", [c EXCEPT !.outcomes = outcomes]) /\ ~Unconfirmed(c, outcomes)
  BY <1>1, <1>2 DEF Preview, At, storeVars, historyVars
<1>4. CASE Finish(w)
  BY <1>3, <1>4, FinishStep
<1>5. CASE Goto(w, "batch", [c EXCEPT !.outcomes = outcomes]) /\ ~Unconfirmed(c, outcomes)
  <2>1. PICK d : d = [c EXCEPT !.outcomes = outcomes]
    OBVIOUS
  <2>2. c \in CommitCalls
    BY <1>1, <1>3, CallAt
  <2>3. outcomes \in [DOMAIN c.file -> Outcomes]
    BY <1>2, OutcomeMeans
  <2>4. c.file \in Files
    BY <2>2 DEF CommitCalls
  <2>5. outcomes \in {<<>>} \cup UNION {[DOMAIN f -> Outcomes] : f \in Files}
    BY <2>3, <2>4
  <2>6. /\ d \in CommitCalls /\ d.file = c.file /\ d.selected = c.selected /\ d.confirmed = c.confirmed
        /\ d.outcomes = outcomes
    BY <2>1, <2>2, <2>5 DEF CommitCalls
  <2>7. st \in SUBSET Ids /\ standing' = [standing EXCEPT ![w] = st] /\ st \subseteq ActiveIds
    BY <1>1, <1>3, StandingSame
  <2>8. ASSUME NEW i \in DOMAIN c.file
        PROVE  /\ outcomes[i] # "invalid" => Valid(c.file[i])
               /\ outcomes[i] \notin {"invalid", "within_file"} => ~RepeatsEarlier(c.file, i)
               /\ outcomes[i] \in {"possible", "ready"} => Unoriginal(c.file[i])
               /\ i \in c.selected \ c.confirmed => outcomes[i] # "possible"
               /\ outcomes[i] = "ready" => \A old \in st : ~Overlap(c.file[i], submissions[old].row)
    <3>1. outcomes[i] = Outcome(c.file, i)
      BY <1>2, <2>8
    <3>2. outcomes[i] \in {"possible", "ready"} => Unoriginal(c.file[i])
      BY <3>1, OutcomeMeans, UnseenUnoriginal
    <3>3. \A old \in st : submissions[old].row \in ActiveRows
      BY <2>7 DEF ActiveRows
    <3>4. i \in c.selected \ c.confirmed => outcomes[i] # "possible"
      BY <1>5 DEF Unconfirmed
    <3>5. QED
      BY <3>1, <3>2, <3>3, <3>4, OutcomeMeans
  <2>9. Foreseen(d, st)
    BY <2>3, <2>6, <2>8 DEF Foreseen
  <2>10. Seeing("batch", d, st) /\ d \in Carried /\ "batch" \in Points
    BY <2>6, <2>7, <2>9 DEF Seeing, Carries, IdPoints, Carried, Points
  <2>11. QED
    BY <1>3, <1>5, <2>1, <2>7, <2>10, CallStep
<1>6. QED
  BY <1>3, <1>4, <1>5

LEMMA LearnStep == ASSUME ConstantsOK, Inv, Learn PROVE Inv'
<1>1. /\ known' \in SUBSET Evidence
      /\ UNCHANGED <<submissions, batches, candidates, drafts, pc, call, blind, reopened, standing>>
  BY DEF Learn, storeVars, historyVars
<1>2. Typed'
  BY <1>1 DEF Inv, Typed, StoreTyped, CallsTyped
<1>3. Lasting /\ ActiveIds' = ActiveIds
  BY <1>1, StoreStays
<1>4. SubmissionsKnown' /\ PrintedOnce' /\ CandidatesKnown' /\ BatchesKnown'
  BY <1>1, SubmissionsStay, BatchesStay DEF Inv, CandidatesKnown
<1>5. CallsSeeing'
  BY <1>1, <1>3, CallsStay DEF Inv, CallsSeeing, Seeing
<1>6. DraftsLeft'
  BY <1>1, <1>3, DraftsStay
<1>7. NoneBlind'
  BY <1>1 DEF Inv, NoneBlind
<1>8. QED
  BY <1>2, <1>4, <1>5, <1>6, <1>7 DEF Inv

(***************************************************************************)
(* Rows that enter.                                                        *)
(***************************************************************************)
LEMMA SuggestionFields ==
    ASSUME ConstantsOK, NEW r \in Rows
    PROVE  /\ Suggestion(r) \in SubmissionRows /\ Suggestion(r) # None
           /\ Suggestion(r).row = r /\ Suggestion(r).printed = TRUE /\ Suggestion(r).status \in Active
<1>1. Suggestion(r) \in SubmissionRows
  BY DEF Suggestion, SubmissionRows, Statuses
<1>2. Suggestion(r) # None
  BY <1>1 DEF ConstantsOK
<1>3. QED
  BY <1>1, <1>2 DEF Suggestion, Active

LEMMA Unclashed ==
    ASSUME ConstantsOK, NEW row, ~Clashes(row, None), NEW id \in ActiveIds, submissions[id].printed
    PROVE  Fingerprint[submissions[id].row] # Fingerprint[row]
<1>1. id # None
  BY DEF ActiveIds, ConstantsOK
<1>2. QED
  BY <1>1 DEF Clashes

LEMMA Entering ==
    ASSUME ConstantsOK, Inv, NEW N \in SUBSET Ids, NEW R \in [N -> Rows],
           submissions' = [id \in Ids |-> IF id \in N THEN Suggestion(R[id]) ELSE submissions[id]],
           UNCHANGED reopened,
           \A id \in N : submissions[id] = None /\ Valid(R[id]) /\ Unoriginal(R[id]) /\ ~Clashes(R[id], None),
           \A a, b \in N : Fingerprint[R[a]] = Fingerprint[R[b]] => a = b
    PROVE  /\ submissions' \in [Ids -> SubmissionRows \cup {None}]
           /\ Lasting /\ SubmissionsKnown' /\ PrintedOnce' /\ ActiveIds \subseteq ActiveIds'
<1>1. /\ \A id \in N : /\ submissions'[id] = Suggestion(R[id]) /\ submissions'[id] # None
                       /\ submissions'[id] \in SubmissionRows
                       /\ submissions'[id].row = R[id] /\ submissions'[id].printed
                       /\ submissions'[id].status \in Active
      /\ \A id \in Ids \ N : submissions'[id] = submissions[id]
  BY SuggestionFields
<1>2. submissions' \in [Ids -> SubmissionRows \cup {None}]
  BY <1>1 DEF Inv, Typed, StoreTyped
<1>3. N \cap DOMAIN Legacy = {}
  BY DEF Inv, SubmissionsKnown
<1>4. Lasting
  BY <1>1, <1>3 DEF Lasting, Original, IsActive, Ids
<1>5. ActiveIds' = ActiveIds \cup N
  BY <1>1 DEF ActiveIds, IsActive
<1>6. ASSUME NEW id \in Ids, submissions'[id] # None, id \notin DOMAIN Legacy
      PROVE  Unoriginal(submissions[id].row)'
  <2>1. PICK row : row = submissions'[id].row
    OBVIOUS
  <2>2. Unoriginal(row)
    BY <1>1, <1>6, <2>1 DEF Inv, SubmissionsKnown
  <2>3. Unoriginal(row)'
    BY <1>4, <2>2, UnoriginalLasts
  <2>4. QED
    BY <2>1, <2>3
<1>7. ASSUME NEW id \in Ids, submissions'[id] # None
      PROVE  Valid(submissions'[id].row)
  BY <1>1, <1>7 DEF Inv, SubmissionsKnown
<1>8. ASSUME NEW id \in Ids, submissions'[id] # None
      PROVE  submissions'[id].printed = (id \notin DOMAIN Legacy)
  <2>1. CASE id \in N
    BY <1>1, <1>3, <2>1
  <2>2. CASE id \notin N
    BY <1>1, <1>8, <2>2 DEF Inv, SubmissionsKnown
  <2>3. QED
    BY <2>1, <2>2
<1>9. \A old \in DOMAIN Legacy : submissions'[old] # None /\ submissions'[old].row = Legacy[old]
  BY <1>1, <1>3 DEF Inv, SubmissionsKnown, Ids
<1>10. SubmissionsKnown'
  BY <1>6, <1>7, <1>8, <1>9 DEF SubmissionsKnown
<1>11. PrintedOnce'
  <2>1. SUFFICES ASSUME NEW a \in ActiveIds', NEW b \in ActiveIds',
                        submissions'[a].printed, submissions'[b].printed,
                        Fingerprint[submissions'[a].row] = Fingerprint[submissions'[b].row]
                 PROVE  a = b
    BY DEF PrintedOnce
  <2>2. CASE a \in N /\ b \in N
    BY <1>1, <2>1, <2>2
  <2>3. CASE a \notin N /\ b \notin N
    BY <1>1, <1>5, <2>1, <2>3 DEF Inv, PrintedOnce, ActiveIds
  <2>4. CASE a \in N /\ b \notin N
    <3>1. b \in ActiveIds /\ submissions[b].printed /\ Fingerprint[submissions[b].row] = Fingerprint[R[a]]
      BY <1>1, <1>5, <2>1, <2>4 DEF ActiveIds
    <3>2. QED
      BY <2>4, <3>1, Unclashed
  <2>5. CASE a \notin N /\ b \in N
    <3>1. a \in ActiveIds /\ submissions[a].printed /\ Fingerprint[submissions[a].row] = Fingerprint[R[b]]
      BY <1>1, <1>5, <2>1, <2>5 DEF ActiveIds
    <3>2. QED
      BY <2>5, <3>1, Unclashed
  <2>6. QED
    BY <2>2, <2>3, <2>4, <2>5
<1>12. QED
  BY <1>2, <1>4, <1>5, <1>10, <1>11

LEMMA CandidatesLast ==
    ASSUME Inv, Lasting, UNCHANGED candidates PROVE CandidatesKnown'
BY DEF Inv, CandidatesKnown, Lasting

(* A call finishes; rows may have entered or been decided.                 *)
LEMMA EndStep ==
    ASSUME ConstantsOK, Inv, Lasting, NEW w \in Calls, NEW p \in Points \ {"draft", "insert", "batch"},
           NEW c \in Carried, Goto(w, p, c), Carries(p, c)',
           StoreTyped', standing' \in [Calls -> SUBSET Ids],
           SubmissionsKnown', PrintedOnce', CandidatesKnown', BatchesKnown', NoneBlind',
           UNCHANGED drafts,
           \A v \in Calls : standing'[v] \subseteq standing[v] /\ standing'[v] \subseteq ActiveIds'
    PROVE  Inv'
<1>1. Typed'
  BY Going DEF Inv, Typed, CallsTyped
<1>2. PICK st : st = standing'[w]
  OBVIOUS
<1>3. Seeing(p, c, st)'
  BY <1>2 DEF Seeing
<1>4. CallsSeeing'
  BY <1>2, <1>3, CallsMove
<1>5. DraftsLeft'
  BY DraftsStay, Going DEF Inv
<1>6. QED
  BY <1>1, <1>4, <1>5 DEF Inv

LEMMA InsertStep == ASSUME ConstantsOK, Inv, NEW w \in Calls, Insert(w) PROVE Inv'
<1>1. PICK c, st : c = call[w] /\ st = standing[w]
  OBVIOUS
<1>2. /\ pc[w] = "insert" /\ Finish(w)
      /\ UNCHANGED <<batches, candidates, drafts, known, blind, reopened, standing>>
  BY DEF Insert, At, historyVars
<1>3. CASE UNCHANGED submissions
  BY <1>2, <1>3, FinishStep
<1>4. ASSUME NEW id \in Singles, submissions[id] = None, ~Clashes(c.row, None),
             submissions' = [submissions EXCEPT ![id] = Suggestion(c.row)]
      PROVE  Inv'
  <2>1. c \in RowCall /\ Valid(c.row) /\ Unoriginal(c.row) /\ c.row \in Rows
    BY <1>1, <1>2, CallAt DEF Seeing, RowCall
  <2>2. PICK N, R : N = {id} /\ R = [x \in {id} |-> c.row]
    OBVIOUS
  <2>3. N \in SUBSET Ids /\ R \in [N -> Rows]
    BY <2>1, <2>2 DEF Ids
  <2>4. submissions' = [x \in Ids |-> IF x \in N THEN Suggestion(R[x]) ELSE submissions[x]]
    BY <1>4, <2>2 DEF Inv, Typed, StoreTyped
  <2>5. \A x \in N : submissions[x] = None /\ Valid(R[x]) /\ Unoriginal(R[x]) /\ ~Clashes(R[x], None)
    BY <1>4, <2>1, <2>2
  <2>6. \A a, b \in N : Fingerprint[R[a]] = Fingerprint[R[b]] => a = b
    BY <2>2
  <2>7. /\ submissions' \in [Ids -> SubmissionRows \cup {None}]
        /\ Lasting /\ SubmissionsKnown' /\ PrintedOnce' /\ ActiveIds \subseteq ActiveIds'
    BY <1>2, <2>3, <2>4, <2>5, <2>6, Entering
  <2>8. StoreTyped'
    BY <1>2, <2>7 DEF Inv, Typed, StoreTyped
  <2>9. \A k \in Commits, f \in Files : \A i \in DOMAIN f :
            submissions'[<<k, i, f[i]>>] = submissions[<<k, i, f[i]>>]
    BY <2>2, <2>4, TripleIds
  <2>10. BatchesKnown'
    BY <1>2, <2>9 DEF Inv, BatchesKnown
  <2>11. "idle" \in Points /\ None \in Carried /\ Goto(w, "idle", None) /\ Carries("idle", None)'
    BY <1>2 DEF Points, Carried, Finish, Carries, IdPoints
  <2>12. \A v \in Calls : standing'[v] \subseteq standing[v] /\ standing'[v] \subseteq ActiveIds'
    BY <1>2, <2>7 DEF Inv, CallsSeeing, Seeing
  <2>13. CandidatesKnown' /\ NoneBlind' /\ standing' \in [Calls -> SUBSET Ids]
    BY <1>2, <2>7, CandidatesLast DEF Inv, NoneBlind, Typed, CallsTyped
  <2>14. QED
    BY <1>2, <2>7, <2>8, <2>10, <2>11, <2>12, <2>13, EndStep
<1>5. QED
  BY <1>1, <1>3, <1>4 DEF Insert

(***************************************************************************)
(* Decisions about submissions.                                            *)
(***************************************************************************)
LEMMA StatusSet ==
    ASSUME ConstantsOK, Inv, NEW id \in Ids, submissions[id] # None, NEW s \in Statuses, SetStatus(id, s)
    PROVE  /\ submissions' \in [Ids -> SubmissionRows \cup {None}]
           /\ Lasting /\ SubmissionsKnown' /\ PrintedOnce'
           /\ \A x \in Ids : submissions'[x] = None <=> submissions[x] = None
           /\ standing' \in [Calls -> SUBSET Ids] /\ UNCHANGED <<answers, blind>>
           /\ \A v \in Calls : standing'[v] \subseteq standing[v] /\ standing'[v] \subseteq ActiveIds'
<1>1. /\ s \in Active /\ submissions[id].printed => ~Clashes(submissions[id].row, id)
      /\ submissions' = [submissions EXCEPT ![id].status = s]
      /\ reopened' = IF s \in Active /\ ~IsActive(id) THEN reopened \cup {id} ELSE reopened
      /\ standing' = IF s \in Active THEN standing ELSE [v \in Calls |-> standing[v] \ {id}]
      /\ UNCHANGED <<answers, blind>>
  BY DEF SetStatus
<1>2. PICK old, new : old = submissions[id] /\ new = [old EXCEPT !.status = s]
  OBVIOUS
<1>3. old \in SubmissionRows
  BY <1>2 DEF Inv, Typed, StoreTyped
<1>4. new \in SubmissionRows /\ new.row = old.row /\ new.printed = old.printed /\ new.status = s
  BY <1>2, <1>3 DEF SubmissionRows
<1>5. new # None
  BY <1>4 DEF ConstantsOK
<1>6. submissions' = [submissions EXCEPT ![id] = new]
  BY <1>1, <1>2
<1>7. /\ submissions' \in [Ids -> SubmissionRows \cup {None}]
      /\ submissions'[id] = new /\ \A x \in Ids \ {id} : submissions'[x] = submissions[x]
  BY <1>4, <1>6 DEF Inv, Typed, StoreTyped
<1>8. \A x \in Ids : /\ submissions'[x] = None <=> submissions[x] = None
                     /\ submissions[x] # None => /\ submissions'[x].row = submissions[x].row
                                                 /\ submissions'[x].printed = submissions[x].printed
  BY <1>2, <1>4, <1>5, <1>7
<1>9. /\ \A x \in Ids \ {id} : IsActive(x)' = IsActive(x)
      /\ IsActive(id)' = (s \in Active)
  BY <1>4, <1>5, <1>7 DEF IsActive
<1>10. \A x \in DOMAIN Legacy : Original(x)' => Original(x)
  BY <1>1, <1>9 DEF Original, Ids
<1>11. Lasting
  BY <1>8, <1>10 DEF Lasting
<1>12. ASSUME NEW x \in Ids, submissions'[x] # None, x \notin DOMAIN Legacy
       PROVE  Unoriginal(submissions[x].row)'
  <2>1. PICK row : row = submissions'[x].row
    OBVIOUS
  <2>2. row = submissions[x].row /\ submissions[x] # None
    BY <1>8, <1>12, <2>1
  <2>3. Unoriginal(row)
    BY <1>12, <2>2 DEF Inv, SubmissionsKnown
  <2>4. Unoriginal(row)'
    BY <1>11, <2>3, UnoriginalLasts
  <2>5. QED
    BY <2>1, <2>4
<1>13. \A x \in Ids : submissions'[x] # None =>
           Valid(submissions'[x].row) /\ submissions'[x].printed = (x \notin DOMAIN Legacy)
  BY <1>8 DEF Inv, SubmissionsKnown
<1>14. \A x \in DOMAIN Legacy : submissions'[x] # None /\ submissions'[x].row = Legacy[x]
  BY <1>8 DEF Inv, SubmissionsKnown, Ids
<1>15. SubmissionsKnown'
  BY <1>12, <1>13, <1>14 DEF SubmissionsKnown
<1>16. PrintedOnce'
  <2>1. SUFFICES ASSUME NEW a \in ActiveIds', NEW b \in ActiveIds',
                        submissions'[a].printed, submissions'[b].printed,
                        Fingerprint[submissions'[a].row] = Fingerprint[submissions'[b].row]
                 PROVE  a = b
    BY DEF PrintedOnce
  <2>2. /\ a \in Ids /\ b \in Ids /\ IsActive(a)' /\ IsActive(b)'
        /\ submissions[a].printed /\ submissions[b].printed
        /\ Fingerprint[submissions[a].row] = Fingerprint[submissions[b].row]
    BY <1>8, <2>1 DEF ActiveIds, IsActive
  <2>3. CASE a # id /\ b # id
    BY <1>9, <2>2, <2>3 DEF Inv, PrintedOnce, ActiveIds
  <2>4. CASE a = id /\ b # id
    BY <1>1, <1>9, <2>2, <2>4 DEF Clashes, ActiveIds
  <2>5. CASE a # id /\ b = id
    BY <1>1, <1>9, <2>2, <2>5 DEF Clashes, ActiveIds
  <2>6. QED
    BY <2>3, <2>4, <2>5
<1>17. standing' \in [Calls -> SUBSET Ids]
  BY <1>1 DEF Inv, Typed, CallsTyped
<1>18. \A v \in Calls : standing'[v] \subseteq standing[v] /\ standing'[v] \subseteq ActiveIds'
  <2>1. \A v \in Calls : standing[v] \subseteq ActiveIds
    BY DEF Inv, CallsSeeing, Seeing
  <2>2. CASE s \in Active
    BY <1>1, <1>9, <2>1, <2>2 DEF ActiveIds
  <2>3. CASE s \notin Active
    BY <1>1, <1>9, <2>1, <2>3 DEF ActiveIds
  <2>4. QED
    BY <2>2, <2>3
<1>19. QED
  BY <1>1, <1>7, <1>8, <1>11, <1>15, <1>16, <1>17, <1>18

LEMMA BatchesLast ==
    ASSUME ConstantsOK, Inv, UNCHANGED batches,
           \A x \in Ids : submissions'[x] = None <=> submissions[x] = None
    PROVE  BatchesKnown'
<1>1. \A k \in Commits, f \in Files : \A i \in DOMAIN f :
          submissions'[<<k, i, f[i]>>] = None <=> submissions[<<k, i, f[i]>>] = None
  BY TripleIds
<1>2. QED
  BY <1>1 DEF Inv, BatchesKnown

LEMMA ReviewStep == ASSUME ConstantsOK, Inv, Review PROVE Inv'
<1>1. PICK id \in Ids, s \in Statuses : submissions[id] # None /\ SetStatus(id, s)
  BY DEF Review, ReviewRoutes, Statuses
<1>2. UNCHANGED <<batches, candidates, drafts, known, pc, call>>
  BY DEF Review
<1>3. /\ submissions' \in [Ids -> SubmissionRows \cup {None}]
      /\ Lasting /\ SubmissionsKnown' /\ PrintedOnce'
      /\ \A x \in Ids : submissions'[x] = None <=> submissions[x] = None
      /\ standing' \in [Calls -> SUBSET Ids] /\ UNCHANGED blind
      /\ \A v \in Calls : standing'[v] \subseteq standing[v] /\ standing'[v] \subseteq ActiveIds'
  BY <1>1, StatusSet
<1>4. Typed'
  BY <1>2, <1>3 DEF Inv, Typed, StoreTyped, CallsTyped
<1>5. BatchesKnown' /\ CandidatesKnown' /\ NoneBlind'
  BY <1>2, <1>3, BatchesLast, CandidatesLast DEF Inv, NoneBlind
<1>6. CallsSeeing'
  BY <1>2, <1>3, CallsStay
<1>7. DraftsLeft'
  BY <1>2, <1>3, DraftsStay
<1>8. QED
  BY <1>3, <1>4, <1>5, <1>6, <1>7 DEF Inv

LEMMA ReopenStep == ASSUME ConstantsOK, Inv, NEW w \in Calls, Reopen(w) PROVE Inv'
<1>1. pc[w] = "reopen" /\ Finish(w) /\ UNCHANGED <<batches, candidates, drafts, known>>
  BY DEF Reopen, At
<1>2. PICK id \in Ids : id = call[w].id /\ submissions[id] # None
  BY <1>1, CallAt DEF IdPoints, IdCall
<1>3. SetStatus(id, "under_review") /\ "under_review" \in Statuses
  BY <1>2 DEF Reopen, Statuses
<1>4. /\ submissions' \in [Ids -> SubmissionRows \cup {None}]
      /\ Lasting /\ SubmissionsKnown' /\ PrintedOnce'
      /\ \A x \in Ids : submissions'[x] = None <=> submissions[x] = None
      /\ standing' \in [Calls -> SUBSET Ids] /\ UNCHANGED blind
      /\ \A v \in Calls : standing'[v] \subseteq standing[v] /\ standing'[v] \subseteq ActiveIds'
  BY <1>2, <1>3, StatusSet
<1>5. StoreTyped'
  BY <1>1, <1>4 DEF Inv, Typed, StoreTyped
<1>6. BatchesKnown' /\ CandidatesKnown' /\ NoneBlind'
  BY <1>1, <1>4, BatchesLast, CandidatesLast DEF Inv, NoneBlind
<1>7. "idle" \in Points /\ None \in Carried /\ Goto(w, "idle", None) /\ Carries("idle", None)'
  BY <1>1 DEF Points, Carried, Finish, Carries, IdPoints
<1>8. QED
  BY <1>1, <1>4, <1>5, <1>6, <1>7, EndStep

(***************************************************************************)
(* Candidates.                                                             *)
(***************************************************************************)
CandidateStatuses == {"pending", "approved", "rejected", "merged"}

LEMMA CandidateWritten ==
    ASSUME ConstantsOK, Inv, NEW id \in Ids, submissions[id] # None, NEW v \in CandidateStatuses,
           candidates' = [candidates EXCEPT ![id] = v],
           UNCHANGED <<submissions, batches, drafts, known, blind, reopened, standing>>
    PROVE  /\ StoreTyped' /\ Lasting /\ SubmissionsKnown' /\ PrintedOnce' /\ CandidatesKnown'
           /\ BatchesKnown' /\ NoneBlind'
           /\ standing' \in [Calls -> SUBSET Ids]
           /\ \A x \in Calls : standing'[x] \subseteq standing[x] /\ standing'[x] \subseteq ActiveIds'
<1>1. candidates' \in [Ids -> CandidateStatuses \cup {None}] /\ \A x \in Ids \ {id} : candidates'[x] = candidates[x]
  BY DEF Inv, Typed, StoreTyped, CandidateStatuses
<1>2. StoreTyped'
  BY <1>1 DEF Inv, Typed, StoreTyped, CandidateStatuses
<1>3. Lasting /\ ActiveIds' = ActiveIds
  BY StoreStays
<1>4. SubmissionsKnown' /\ PrintedOnce'
  BY SubmissionsStay DEF Inv
<1>5. BatchesKnown'
  BY BatchesStay DEF Inv
<1>6. CandidatesKnown'
  BY <1>1 DEF Inv, CandidatesKnown
<1>7. NoneBlind' /\ standing' \in [Calls -> SUBSET Ids]
  BY DEF Inv, NoneBlind, Typed, CallsTyped
<1>8. \A x \in Calls : standing'[x] \subseteq standing[x] /\ standing'[x] \subseteq ActiveIds'
  BY <1>3 DEF Inv, CallsSeeing, Seeing
<1>9. QED
  BY <1>2, <1>3, <1>4, <1>5, <1>6, <1>7, <1>8

LEMMA DecideStep == ASSUME ConstantsOK, Inv, Decide PROVE Inv'
<1>1. PICK id \in Ids, v \in CandidateStatuses : candidates[id] # None /\ Judge(id, v)
  BY DEF Decide, DecideRoutes, CandidateStatuses
<1>2. UNCHANGED <<submissions, batches, drafts, known, pc, call, blind, reopened, standing>>
  BY DEF Decide, historyVars
<1>3. submissions[id] # None /\ candidates' = [candidates EXCEPT ![id] = v]
  BY <1>1 DEF Inv, CandidatesKnown, Judge
<1>4. /\ StoreTyped' /\ Lasting /\ SubmissionsKnown' /\ PrintedOnce' /\ CandidatesKnown'
      /\ BatchesKnown' /\ NoneBlind'
      /\ \A x \in Calls : standing'[x] \subseteq standing[x] /\ standing'[x] \subseteq ActiveIds'
  BY <1>2, <1>3, CandidateWritten
<1>5. Typed'
  BY <1>2, <1>4 DEF Inv, Typed, CallsTyped
<1>6. CallsSeeing'
  BY <1>2, <1>4, CallsStay
<1>7. DraftsLeft'
  BY <1>2, <1>4, DraftsStay
<1>8. QED
  BY <1>4, <1>5, <1>6, <1>7 DEF Inv

LEMMA CandidateStep ==
    ASSUME ConstantsOK, Inv, NEW w \in Calls, CreateCandidate(w) \/ Approve(w) PROVE Inv'
<1>1. /\ pc[w] \in {"candidate", "verdict"}
      /\ UNCHANGED <<submissions, batches, drafts, known, blind, reopened, standing>>
  BY DEF CreateCandidate, Approve, At, historyVars
<1>2. PICK c, id : c = call[w] /\ id = c.id
  OBVIOUS
<1>3. c \in IdCall /\ id \in Ids /\ submissions[id] # None /\ c \in Carried
  BY <1>1, <1>2, CallAt DEF IdPoints, IdCall
<1>4. CASE Finish(w) /\ UNCHANGED candidates
  BY <1>1, <1>4, FinishStep
<1>5. ASSUME NEW v \in CandidateStatuses, candidates' = [candidates EXCEPT ![id] = v],
             NEW p \in {"idle", "reopen"}, NEW d \in {None, c}, Goto(w, p, d),
             p = "idle" <=> d = None
      PROVE  Inv'
  <2>1. /\ StoreTyped' /\ Lasting /\ SubmissionsKnown' /\ PrintedOnce' /\ CandidatesKnown'
        /\ BatchesKnown' /\ NoneBlind' /\ standing' \in [Calls -> SUBSET Ids]
        /\ \A x \in Calls : standing'[x] \subseteq standing[x] /\ standing'[x] \subseteq ActiveIds'
    BY <1>1, <1>3, <1>5, CandidateWritten
  <2>2. c # None
    BY <1>3 DEF ConstantsOK, IdCall
  <2>3. Carries(p, d)'
    BY <1>1, <1>2, <1>3, <1>5, <2>2 DEF Carries, IdPoints
  <2>4. p \in Points \ {"draft", "insert", "batch"} /\ d \in Carried
    BY <1>3, <1>5 DEF Points, Carried
  <2>5. QED
    BY <1>1, <1>5, <2>1, <2>3, <2>4, EndStep
<1>6. CASE CreateCandidate(w)
  <2>1. CASE candidates[id] = None
    <3>1. candidates' = [candidates EXCEPT ![id] = "pending"] /\ Goto(w, "reopen", c)
      BY <1>2, <1>6, <2>1 DEF CreateCandidate
    <3>2. "pending" \in CandidateStatuses /\ c # None
      BY <1>3 DEF ConstantsOK, IdCall, CandidateStatuses
    <3>3. QED
      BY <1>5, <3>1, <3>2
  <2>2. CASE candidates[id] # None
    BY <1>2, <1>4, <1>6, <2>2 DEF CreateCandidate
  <2>3. QED
    BY <2>1, <2>2
<1>7. CASE Approve(w)
  <2>1. candidates' = [candidates EXCEPT ![id] = "approved"] /\ Goto(w, "idle", None)
    BY <1>2, <1>7 DEF Approve, Judge, Finish
  <2>2. "approved" \in CandidateStatuses
    BY DEF CandidateStatuses
  <2>3. QED
    BY <1>5, <2>1, <2>2
<1>8. QED
  BY <1>6, <1>7

(***************************************************************************)
(* Drafts.                                                                 *)
(***************************************************************************)
LEMMA NameDrafted ==
    ASSUME ConstantsOK, Inv, NEW id \in Ids, submissions[id] # None
    PROVE  NameOf(id) \in DOMAIN drafts /\ DOMAIN drafts = {r.name : r \in Rows}
<1>1. submissions[id].row \in Rows
  BY DEF Inv, Typed, StoreTyped, SubmissionRows
<1>2. QED
  BY <1>1 DEF NameOf, Inv, Typed, StoreTyped

LEMMA MatchStep == ASSUME ConstantsOK, Inv, NEW w \in Calls, Match(w) PROVE Inv'
<1>1. PICK c, st : c = call[w] /\ st = standing[w]
  OBVIOUS
<1>2. /\ pc[w] = "match"
      /\ UNCHANGED <<submissions, batches, candidates, drafts, known, blind, reopened, standing>>
  BY DEF Match, At, storeVars, historyVars
<1>3. c \in IdCall /\ c.id \in Ids /\ submissions[c.id] # None /\ c \in Carried
  BY <1>1, <1>2, CallAt DEF IdPoints, IdCall
<1>4. PICK name : name = NameOf(c.id)
  OBVIOUS
<1>5. CASE Matched(name)
  <2>1. Goto(w, "verdict", c)
    BY <1>1, <1>4, <1>5 DEF Match
  <2>2. "verdict" \in Points \ {"draft", "insert", "batch"} /\ Carries("verdict", c)
    BY <1>3 DEF Points, Carries, IdPoints
  <2>3. QED
    BY <1>2, <1>3, <2>1, <2>2, MoveStep
<1>6. CASE ~Matched(name)
  <2>1. Goto(w, "draft", c) /\ "draft" \in Points
    BY <1>1, <1>4, <1>6 DEF Match, Points
  <2>2. Typed'
    BY <1>2, <1>3, <2>1, Going DEF Inv, Typed, StoreTyped, CallsTyped
  <2>3. Lasting /\ ActiveIds' = ActiveIds
    BY <1>2, StoreStays
  <2>4. SubmissionsKnown' /\ PrintedOnce' /\ CandidatesKnown' /\ BatchesKnown' /\ NoneBlind'
    BY <1>2, SubmissionsStay, BatchesStay DEF Inv, CandidatesKnown, NoneBlind
  <2>5. Seeing("draft", c, st)'
    BY <1>1, <1>2, <1>3, <2>3 DEF Seeing, Carries, IdPoints, Inv, CallsSeeing
  <2>6. CallsSeeing'
    BY <1>1, <1>2, <1>3, <2>1, <2>3, <2>5, CallsMove DEF Inv, CallsSeeing, Seeing
  <2>7. \A v \in Calls \ {w} : pc'[v] = pc[v] /\ call'[v] = call[v]
    BY <1>3, <2>1, Going DEF Inv
  <2>8. call'[w] = c /\ NameOf(c.id)' = name
    BY <1>2, <1>3, <1>4, <2>1, Going DEF Inv, NameOf
  <2>9. ASSUME NEW n \in DOMAIN drafts
        PROVE  drafts'[n] + Cardinality(Drafting(n)') <= Cardinality(Calls)
    <3>1. CASE n = name
      <4>1. drafts'[n] = 0
        <5>1. drafts[n] \in Nat /\ ~(drafts[n] > 0)
          BY <1>6, <3>1 DEF Matched, Inv, Typed, StoreTyped
        <5>2. QED
          BY <1>2, <5>1
      <4>2. PICK new : new = Drafting(n)'
        OBVIOUS
      <4>3. new \in SUBSET Calls /\ IsFiniteSet(Calls)
        BY <4>2 DEF Drafting, ConstantsOK
      <4>4. Cardinality(new) <= Cardinality(Calls) /\ IsFiniteSet(new)
        BY <4>3, FS_Subset
      <4>5. Cardinality(new) \in Nat /\ Cardinality(Calls) \in Nat
        BY <4>3, <4>4, FS_CardinalityType
      <4>6. QED
        BY <4>1, <4>2, <4>4, <4>5
    <3>2. CASE n # name
      <4>1. \A v \in Calls \ {w} : pc[v] = "draft" => NameOf(call[v].id)' = NameOf(call[v].id)
        BY <2>3, <2>7, NameStays DEF IdPoints
      <4>2. Drafting(n)' \subseteq Drafting(n)
        <5>1. SUFFICES ASSUME NEW v \in Calls, pc'[v] = "draft", NameOf(call[v].id)' = n
                       PROVE  v \in Drafting(n)
          BY DEF Drafting
        <5>2. v # w
          BY <2>8, <3>2, <5>1
        <5>3. QED
          BY <2>7, <4>1, <5>1, <5>2 DEF Drafting
      <4>3. QED
        BY <1>2, <4>2, FewerDrafting
    <3>3. QED
      BY <3>1, <3>2
  <2>10. DraftsLeft'
    BY <1>2, <2>9 DEF DraftsLeft
  <2>11. QED
    BY <2>2, <2>4, <2>6, <2>10 DEF Inv
<1>7. QED
  BY <1>5, <1>6

LEMMA DraftStep == ASSUME ConstantsOK, Inv, NEW w \in Calls, Draft(w) PROVE Inv'
<1>1. PICK c, st : c = call[w] /\ st = standing[w]
  OBVIOUS
<1>2. /\ pc[w] = "draft" /\ Goto(w, "verdict", c)
      /\ UNCHANGED <<submissions, batches, candidates, known, blind, reopened, standing>>
  BY <1>1 DEF Draft, At, historyVars
<1>3. c \in IdCall /\ c.id \in Ids /\ submissions[c.id] # None /\ c \in Carried
  BY <1>1, <1>2, CallAt DEF IdPoints, IdCall
<1>4. PICK name \in DOMAIN drafts : name = NameOf(c.id)
  BY <1>3, NameDrafted
<1>5. drafts' = [drafts EXCEPT ![name] = drafts[name] + 1]
  BY <1>1, <1>4 DEF Draft
<1>6. drafts[name] \in Nat
  BY DEF Inv, Typed, StoreTyped
<1>7. PICK more \in Nat : more = drafts[name] + 1
  BY <1>6
<1>8. /\ drafts' \in [{r.name : r \in Rows} -> Nat] /\ drafts'[name] = more
      /\ \A n \in DOMAIN drafts \ {name} : drafts'[n] = drafts[n]
      /\ DOMAIN drafts' = DOMAIN drafts
  BY <1>5, <1>7 DEF Inv, Typed, StoreTyped
<1>9. "verdict" \in Points
  BY DEF Points
<1>10. Typed'
  BY <1>2, <1>3, <1>8, <1>9, Going DEF Inv, Typed, StoreTyped, CallsTyped
<1>11. Lasting /\ ActiveIds' = ActiveIds
  BY <1>2, StoreStays
<1>12. SubmissionsKnown' /\ PrintedOnce' /\ CandidatesKnown' /\ BatchesKnown' /\ NoneBlind'
  BY <1>2, SubmissionsStay, BatchesStay DEF Inv, CandidatesKnown, NoneBlind
<1>13. Seeing("verdict", c, st)'
  BY <1>1, <1>2, <1>3, <1>11 DEF Seeing, Carries, IdPoints, Inv, CallsSeeing
<1>14. CallsSeeing'
  BY <1>1, <1>2, <1>3, <1>9, <1>11, <1>13, CallsMove DEF Inv, CallsSeeing, Seeing
<1>15. pc'[w] = "verdict" /\ \A v \in Calls \ {w} : pc'[v] = pc[v] /\ call'[v] = call[v]
  BY <1>2, <1>3, <1>9, Going DEF Inv
<1>16. ASSUME NEW n \in DOMAIN drafts PROVE Drafting(n)' \subseteq Drafting(n) \ {w}
  <2>1. SUFFICES ASSUME NEW v \in Calls, pc'[v] = "draft", NameOf(call[v].id)' = n
                 PROVE  v \in Drafting(n) /\ v # w
    BY DEF Drafting
  <2>2. v # w
    BY <1>15, <2>1
  <2>3. NameOf(call[v].id)' = NameOf(call[v].id)
    BY <1>11, <1>15, <2>1, <2>2, NameStays DEF IdPoints
  <2>4. QED
    BY <1>15, <2>1, <2>2, <2>3 DEF Drafting
<1>17. ASSUME NEW n \in DOMAIN drafts
       PROVE  drafts'[n] + Cardinality(Drafting(n)') <= Cardinality(Calls)
  <2>1. CASE n # name
    BY <1>8, <1>16, <2>1, FewerDrafting
  <2>2. CASE n = name
    <3>1. PICK old, new : old = Drafting(n) /\ new = Drafting(n)'
      OBVIOUS
    <3>2. w \in old
      BY <1>1, <1>2, <1>4, <2>2, <3>1 DEF Drafting
    <3>3. old \in SUBSET Calls /\ new \in SUBSET (old \ {w})
      BY <1>16, <3>1 DEF Drafting
    <3>4. IsFiniteSet(Calls) /\ IsFiniteSet(old)
      BY <3>3, FS_Subset DEF ConstantsOK
    <3>5. IsFiniteSet(old \ {w}) /\ Cardinality(old \ {w}) = Cardinality(old) - 1
      BY <3>2, <3>4, FS_RemoveElement
    <3>6. Cardinality(new) <= Cardinality(old \ {w}) /\ IsFiniteSet(new)
      BY <3>3, <3>5, FS_Subset
    <3>7. Cardinality(new) \in Nat /\ Cardinality(old) \in Nat /\ Cardinality(Calls) \in Nat
      BY <3>4, <3>6, FS_CardinalityType
    <3>8. drafts[n] + Cardinality(old) <= Cardinality(Calls)
      BY <3>1 DEF Inv, DraftsLeft
    <3>9. drafts'[n] = drafts[n] + 1 /\ drafts[n] \in Nat
      BY <1>6, <1>7, <1>8, <2>2
    <3>10. drafts'[n] + Cardinality(new) <= Cardinality(Calls)
      BY <3>5, <3>6, <3>7, <3>8, <3>9
    <3>11. QED
      BY <3>1, <3>10
  <2>3. QED
    BY <2>1, <2>2
<1>18. DraftsLeft'
  BY <1>8, <1>17 DEF DraftsLeft
<1>19. QED
  BY <1>10, <1>12, <1>14, <1>18 DEF Inv

(***************************************************************************)
(* The batch of a commit.                                                  *)
(***************************************************************************)
LEMMA VerdictMeans ==
    ASSUME NEW c, NEW i, c.outcomes[i] \in Outcomes
    PROVE  /\ Verdict(c, i) \in Verdicts
           /\ Verdict(c, i) = "submitted" => i \in c.selected /\ c.outcomes[i] \in {"possible", "ready"}
BY DEF Verdict, Verdicts, Outcomes

LEMMA ResultTyped ==
    ASSUME NEW c, c.outcomes \in [DOMAIN c.file -> Outcomes]
    PROVE  /\ Result(c) \in [DOMAIN c.file -> Verdicts]
           /\ \A i \in DOMAIN c.file : Result(c)[i] = Verdict(c, i)
BY VerdictMeans DEF Result

(* Rows of one file that are entered together differ in content.           *)
LEMMA SubmittedDiffer ==
    ASSUME ConstantsOK, NEW c \in CommitCalls, NEW st, Foreseen(c, st),
           NEW i \in DOMAIN c.file, NEW j \in DOMAIN c.file,
           c.outcomes[i] \in {"possible", "ready"}, c.outcomes[j] \in {"possible", "ready"},
           Fingerprint[c.file[i]] = Fingerprint[c.file[j]]
    PROVE  i = j
<1>1. c.file \in Files
  BY DEF CommitCalls
<1>2. DOMAIN c.file = 1 .. Len(c.file) /\ i \in Nat /\ j \in Nat
  BY <1>1, FileRows
<1>3. /\ Valid(c.file[i]) /\ ~RepeatsEarlier(c.file, i)
      /\ Valid(c.file[j]) /\ ~RepeatsEarlier(c.file, j)
  BY DEF Foreseen
<1>4. ~(i < j)
  <2>1. SUFFICES ASSUME i < j PROVE FALSE
    OBVIOUS
  <2>2. i \in 1 .. (j - 1)
    BY <1>2, <2>1
  <2>3. QED
    BY <1>3, <2>2 DEF RepeatsEarlier
<1>5. ~(j < i)
  <2>1. SUFFICES ASSUME j < i PROVE FALSE
    OBVIOUS
  <2>2. j \in 1 .. (i - 1)
    BY <1>2, <2>1
  <2>3. QED
    BY <1>3, <2>2 DEF RepeatsEarlier
<1>6. QED
  BY <1>2, <1>4, <1>5

LEMMA BatchWritten ==
    ASSUME ConstantsOK, Inv, NEW w \in Calls, pc[w] = "batch", NEW c, c = call[w],
           NEW new, new = Inserts(c), Unused(c.commit), \A id \in new : ~Clashes(id[3], None),
           batches' = [batches EXCEPT ![c.commit] = [file |-> c.file, result |-> Result(c)]],
           submissions' = [id \in Ids |-> IF id \in new THEN Suggestion(id[3]) ELSE submissions[id]],
           blind' = blind \cup UNION {{id} \X Beside(w, id) : id \in {n \in new : n[2] \notin c.confirmed}},
           Finish(w),
           UNCHANGED <<candidates, drafts, known, standing, reopened>>
    PROVE  Inv'
<1>1. PICK st : st = standing[w]
  OBVIOUS
<1>2. c \in CommitCalls /\ Foreseen(c, st)
  BY <1>1, CallAt DEF Seeing
<1>3. PICK k \in Commits, f \in Files : k = c.commit /\ f = c.file
  BY <1>2 DEF CommitCalls
<1>4. c.outcomes \in [DOMAIN f -> Outcomes]
  BY <1>2, <1>3 DEF Foreseen
<1>5. new = {<<k, i, f[i]>> : i \in {j \in DOMAIN f : Verdict(c, j) = "submitted"}}
  BY <1>3 DEF Inserts
<1>6. ASSUME NEW i \in DOMAIN f, Verdict(c, i) = "submitted"
      PROVE  i \in c.selected /\ c.outcomes[i] \in {"possible", "ready"}
  BY <1>4, <1>6, VerdictMeans
<1>7. ASSUME NEW id \in new
      PROVE  \E i \in DOMAIN f :
                /\ id = <<k, i, f[i]>> /\ id[2] = i /\ id[3] = f[i] /\ f[i] \in Rows
                /\ id \in Ids /\ i \in c.selected /\ c.outcomes[i] \in {"possible", "ready"}
  <2>1. PICK i \in DOMAIN f : id = <<k, i, f[i]>> /\ Verdict(c, i) = "submitted"
    BY <1>5, <1>7
  <2>2. QED
    BY <1>6, <2>1, FileRows, TripleIds
<1>8. PICK R : R = [id \in new |-> id[3]]
  OBVIOUS
<1>9. new \in SUBSET Ids /\ R \in [new -> Rows]
  BY <1>7, <1>8
<1>10. submissions' = [id \in Ids |-> IF id \in new THEN Suggestion(R[id]) ELSE submissions[id]]
  BY <1>8
<1>11. batches[k] = None
  BY <1>3 DEF Unused
<1>12. ASSUME NEW id \in new
       PROVE  submissions[id] = None /\ Valid(R[id]) /\ Unoriginal(R[id]) /\ ~Clashes(R[id], None)
  <2>1. PICK i \in DOMAIN f : /\ id = <<k, i, f[i]>> /\ id[3] = f[i]
                              /\ c.outcomes[i] \in {"possible", "ready"}
    BY <1>7, <1>12
  <2>2. submissions[id] = None
    BY <1>11, <2>1 DEF Inv, BatchesKnown
  <2>3. Valid(f[i]) /\ Unoriginal(f[i])
    BY <1>2, <1>3, <2>1 DEF Foreseen
  <2>4. QED
    BY <1>8, <1>12, <2>1, <2>2, <2>3
<1>13. ASSUME NEW a \in new, NEW b \in new, Fingerprint[R[a]] = Fingerprint[R[b]] PROVE a = b
  <2>1. PICK i \in DOMAIN f : a = <<k, i, f[i]>> /\ a[3] = f[i] /\ c.outcomes[i] \in {"possible", "ready"}
    BY <1>7, <1>13
  <2>2. PICK j \in DOMAIN f : b = <<k, j, f[j]>> /\ b[3] = f[j] /\ c.outcomes[j] \in {"possible", "ready"}
    BY <1>7, <1>13
  <2>3. i = j
    BY <1>2, <1>3, <1>8, <1>13, <2>1, <2>2, SubmittedDiffer
  <2>4. QED
    BY <2>1, <2>2, <2>3
<1>14. /\ submissions' \in [Ids -> SubmissionRows \cup {None}]
       /\ Lasting /\ SubmissionsKnown' /\ PrintedOnce' /\ ActiveIds \subseteq ActiveIds'
  BY <1>9, <1>10, <1>12, <1>13, Entering
<1>15. PICK result : result = Result(c)
  OBVIOUS
<1>16. result \in [DOMAIN f -> Verdicts] /\ \A i \in DOMAIN f : result[i] = Verdict(c, i)
  BY <1>3, <1>4, <1>15, ResultTyped
<1>17. PICK batch : batch = [file |-> f, result |-> result]
  OBVIOUS
<1>18. batch \in BatchRows /\ batch.file = f /\ batch.result = result
  BY <1>16, <1>17 DEF BatchRows
<1>19. batch # None
  BY <1>18 DEF ConstantsOK
<1>20. batches' = [batches EXCEPT ![k] = batch]
  BY <1>3, <1>15, <1>17
<1>21. /\ batches' \in [Commits -> BatchRows \cup {None}]
       /\ batches'[k] = batch /\ \A x \in Commits \ {k} : batches'[x] = batches[x]
  BY <1>18, <1>20 DEF Inv, Typed, StoreTyped
<1>22. StoreTyped'
  BY <1>14, <1>21 DEF Inv, Typed, StoreTyped
<1>23. ASSUME NEW x \in Commits \ {k}, NEW g \in Files, NEW i \in DOMAIN g
       PROVE  submissions'[<<x, i, g[i]>>] = submissions[<<x, i, g[i]>>]
  <2>1. <<x, i, g[i]>> \in Ids
    BY TripleIds
  <2>2. <<x, i, g[i]>> \notin new
    BY <1>5
  <2>3. QED
    BY <2>1, <2>2
<1>24. ASSUME NEW i \in DOMAIN f
       PROVE  result[i] = "submitted" <=> submissions'[<<k, i, f[i]>>] # None
  <2>1. <<k, i, f[i]>> \in Ids /\ f[i] \in Rows
    BY TripleIds, FileRows
  <2>2. CASE Verdict(c, i) = "submitted"
    <3>1. <<k, i, f[i]>> \in new
      BY <1>5, <2>2
    <3>2. submissions'[<<k, i, f[i]>>] = Suggestion(f[i])
      BY <2>1, <3>1
    <3>3. QED
      BY <1>16, <2>1, <2>2, <3>2, SuggestionFields
  <2>3. CASE Verdict(c, i) # "submitted"
    <3>1. <<k, i, f[i]>> \notin new
      BY <1>5, <2>3
    <3>2. submissions'[<<k, i, f[i]>>] = None
      BY <1>11, <2>1, <3>1 DEF Inv, BatchesKnown
    <3>3. QED
      BY <1>16, <2>3, <3>2
  <2>4. QED
    BY <2>2, <2>3
<1>25. BatchesKnown'
  <2>1. \A x \in Commits : batches'[x] = None =>
            \A g \in Files : \A i \in DOMAIN g : submissions'[<<x, i, g[i]>>] = None
    BY <1>19, <1>21, <1>23 DEF Inv, BatchesKnown
  <2>2. ASSUME NEW x \in Commits, batches'[x] # None
        PROVE  /\ batches'[x].file \in Files
               /\ batches'[x].result \in [DOMAIN batches'[x].file -> Verdicts]
               /\ \A i \in DOMAIN batches'[x].file :
                     batches'[x].result[i] = "submitted" <=>
                     submissions'[<<x, i, batches'[x].file[i]>>] # None
    <3>1. CASE x = k
      BY <1>16, <1>18, <1>21, <1>24, <3>1
    <3>2. CASE x # k
      <4>1. PICK b : b = batches[x]
        OBVIOUS
      <4>2. batches'[x] = b /\ b # None
        BY <1>21, <2>2, <3>2, <4>1
      <4>3. /\ b.file \in Files /\ b.result \in [DOMAIN b.file -> Verdicts]
            /\ \A i \in DOMAIN b.file : b.result[i] = "submitted" <=> submissions[<<x, i, b.file[i]>>] # None
        BY <4>1, <4>2 DEF Inv, BatchesKnown
      <4>4. PICK g \in Files : g = b.file
        BY <4>3
      <4>5. \A i \in DOMAIN g : submissions'[<<x, i, g[i]>>] = submissions[<<x, i, g[i]>>]
        BY <1>23, <3>2
      <4>6. QED
        BY <4>2, <4>3, <4>4, <4>5
    <3>3. QED
      BY <3>1, <3>2
  <2>3. QED
    BY <2>1, <2>2 DEF BatchesKnown
<1>26. ASSUME NEW id \in new, id[2] \notin c.confirmed PROVE Beside(w, id) = {}
  <2>1. PICK i \in DOMAIN f : /\ id[2] = i /\ id[3] = f[i] /\ i \in c.selected
                              /\ c.outcomes[i] \in {"possible", "ready"}
    BY <1>7, <1>26
  <2>2. c.outcomes[i] = "ready"
    BY <1>2, <1>3, <1>26, <2>1 DEF Foreseen
  <2>3. \A old \in st : ~Overlap(f[i], submissions[old].row)
    BY <1>2, <1>3, <2>2 DEF Foreseen
  <2>4. QED
    BY <1>1, <2>1, <2>3 DEF Beside
<1>27. NoneBlind'
  <2>1. \A id \in {n \in new : n[2] \notin c.confirmed} : {id} \X Beside(w, id) = {}
    BY <1>26
  <2>2. UNION {{id} \X Beside(w, id) : id \in {n \in new : n[2] \notin c.confirmed}} = {}
    BY <2>1
  <2>3. QED
    BY <2>2 DEF Inv, NoneBlind
<1>28. "idle" \in Points /\ None \in Carried /\ Goto(w, "idle", None) /\ Carries("idle", None)'
  BY DEF Points, Carried, Finish, Carries, IdPoints
<1>29. \A v \in Calls : standing'[v] \subseteq standing[v] /\ standing'[v] \subseteq ActiveIds'
  BY <1>14 DEF Inv, CallsSeeing, Seeing
<1>30. CandidatesKnown' /\ standing' \in [Calls -> SUBSET Ids]
  BY <1>14, CandidatesLast DEF Inv, Typed, CallsTyped
<1>31. QED
  BY <1>14, <1>22, <1>25, <1>27, <1>28, <1>29, <1>30, EndStep

LEMMA CommitStep == ASSUME ConstantsOK, Inv, NEW w \in Calls, CommitBatch(w) PROVE Inv'
<1>1. PICK c, new : c = call[w] /\ new = Inserts(c)
  OBVIOUS
<1>2. pc[w] = "batch" /\ UNCHANGED <<candidates, drafts, known, standing, reopened>>
  BY DEF CommitBatch, At
<1>3. CASE Unused(c.commit) /\ \A id \in new : ~Clashes(id[3], None)
  <2>1. /\ batches' = [batches EXCEPT ![c.commit] = [file |-> c.file, result |-> Result(c)]]
        /\ submissions' = [id \in Ids |-> IF id \in new THEN Suggestion(id[3]) ELSE submissions[id]]
        /\ blind' = blind \cup UNION {{id} \X Beside(w, id) : id \in {n \in new : n[2] \notin c.confirmed}}
        /\ Finish(w)
    BY <1>1, <1>3 DEF CommitBatch
  <2>2. QED
    BY <1>1, <1>2, <1>3, <2>1, BatchWritten
<1>4. CASE ~(Unused(c.commit) /\ \A id \in new : ~Clashes(id[3], None))
  <2>1. Goto(w, "refind", c) /\ UNCHANGED <<batches, submissions, answers, blind>>
    BY <1>1, <1>4 DEF CommitBatch
  <2>2. c \in CommitCalls /\ c \in Carried
    BY <1>1, <1>2, CallAt
  <2>3. "refind" \in Points \ {"draft", "insert", "batch"} /\ Carries("refind", c)
    BY <2>2 DEF Points, Carries, IdPoints
  <2>4. QED
    BY <1>2, <2>1, <2>2, <2>3, MoveStep
<1>5. QED
  BY <1>3, <1>4

(***************************************************************************)
(* The invariant, and what follows.                                        *)
(***************************************************************************)
LEMMA InvInit == ASSUME ConstantsOK, Init PROVE Inv
<1>1. PICK s \in [DOMAIN Legacy -> {"pending", "rejected"}] :
          submissions = [id \in Ids |->
              IF id \in DOMAIN Legacy
              THEN [row |-> Legacy[id], printed |-> FALSE, status |-> s[id]] ELSE None]
  BY DEF Init
<1>2. PICK c \in [DOMAIN Legacy -> {None, "pending"}] :
          candidates = [id \in Ids |-> IF id \in DOMAIN Legacy THEN c[id] ELSE None]
  BY DEF Init
<1>3. ASSUME NEW old \in DOMAIN Legacy
      PROVE  /\ submissions[old] \in SubmissionRows /\ submissions[old] # None
             /\ submissions[old].row = Legacy[old] /\ submissions[old].printed = FALSE
             /\ Valid(submissions[old].row)
  <2>1. PICK r : r = [row |-> Legacy[old], printed |-> FALSE, status |-> s[old]]
    OBVIOUS
  <2>2. s[old] \in Statuses
    BY <1>1 DEF Statuses
  <2>3. r \in SubmissionRows /\ r.row = Legacy[old] /\ r.printed = FALSE
    BY <2>1, <2>2 DEF SubmissionRows, ConstantsOK
  <2>4. submissions[old] = r
    BY <1>1, <2>1 DEF Ids
  <2>5. r # None /\ Valid(Legacy[old])
    BY <2>3 DEF ConstantsOK
  <2>6. QED
    BY <2>3, <2>4, <2>5
<1>4. \A id \in Ids \ DOMAIN Legacy : submissions[id] = None /\ candidates[id] = None
  BY <1>1, <1>2
<1>5. submissions \in [Ids -> SubmissionRows \cup {None}]
  BY <1>1, <1>3, <1>4
<1>6. candidates \in [Ids -> {"pending", "approved", "rejected", "merged"} \cup {None}]
  BY <1>2
<1>7. /\ batches = [k \in Commits |-> None] /\ drafts = [n \in {r.name : r \in Rows} |-> 0]
      /\ known = {} /\ pc = [w \in Calls |-> "idle"] /\ call = [w \in Calls |-> None]
      /\ standing = [w \in Calls |-> {}] /\ blind = {}
  BY DEF Init
<1>8. Typed
  BY <1>5, <1>6, <1>7 DEF Typed, StoreTyped, CallsTyped, Points, Carried
<1>9. SubmissionsKnown
  BY <1>3, <1>4 DEF SubmissionsKnown
<1>10. PrintedOnce
  BY <1>3, <1>4 DEF PrintedOnce, ActiveIds, IsActive
<1>11. CandidatesKnown
  BY <1>3, <1>4 DEF CandidatesKnown
<1>12. BatchesKnown
  BY <1>4, <1>7, TripleIds DEF BatchesKnown
<1>13. CallsSeeing
  BY <1>7 DEF CallsSeeing, Seeing, Carries, IdPoints
<1>14. DraftsLeft
  <2>1. \A n \in DOMAIN drafts : Drafting(n) = {}
    BY <1>7 DEF Drafting
  <2>2. Cardinality({}) = 0 /\ Cardinality(Calls) \in Nat
    BY FS_EmptySet, FS_CardinalityType DEF ConstantsOK
  <2>3. \A n \in DOMAIN drafts : drafts[n] = 0
    BY <1>7
  <2>4. QED
    BY <2>1, <2>2, <2>3 DEF DraftsLeft
<1>15. QED
  BY <1>7, <1>8, <1>9, <1>10, <1>11, <1>12, <1>13, <1>14 DEF Inv, NoneBlind

LEMMA Stuttering == ASSUME ConstantsOK, Inv, UNCHANGED vars PROVE Inv'
<1>1. UNCHANGED <<submissions, batches, candidates, drafts, known, pc, call, blind, reopened, standing>>
  BY DEF vars, storeVars, historyVars
<1>2. Typed'
  BY <1>1 DEF Inv, Typed, StoreTyped, CallsTyped
<1>3. Lasting /\ ActiveIds' = ActiveIds
  BY <1>1, StoreStays
<1>4. SubmissionsKnown' /\ PrintedOnce' /\ CandidatesKnown' /\ BatchesKnown'
  BY <1>1, SubmissionsStay, BatchesStay DEF Inv, CandidatesKnown
<1>5. CallsSeeing'
  BY <1>1, <1>3, CallsStay DEF Inv, CallsSeeing, Seeing
<1>6. DraftsLeft'
  BY <1>1, <1>3, DraftsStay
<1>7. NoneBlind'
  BY <1>1 DEF Inv, NoneBlind
<1>8. QED
  BY <1>2, <1>4, <1>5, <1>6, <1>7 DEF Inv

LEMMA InvStep == ASSUME ConstantsOK, Inv, [Next]_vars PROVE Inv'
<1>1. CASE Learn
  BY <1>1, LearnStep
<1>2. CASE Review
  BY <1>2, ReviewStep
<1>3. CASE Decide
  BY <1>3, DecideStep
<1>4. ASSUME NEW w \in Calls, StartCreate(w) \/ StartCommit(w) \/ StartConvert(w) \/ StartApprove(w)
      PROVE  Inv'
  BY <1>4, StartsStep
<1>5. ASSUME NEW w \in Calls, ListActive(w) PROVE Inv'
  BY <1>5, ListStep
<1>6. ASSUME NEW w \in Calls, Insert(w) PROVE Inv'
  BY <1>6, InsertStep
<1>7. ASSUME NEW w \in Calls, FindBatch(w) \/ Refind(w) PROVE Inv'
  BY <1>7, FindStep
<1>8. ASSUME NEW w \in Calls, Preview(w) PROVE Inv'
  BY <1>8, PreviewStep
<1>9. ASSUME NEW w \in Calls, CommitBatch(w) PROVE Inv'
  BY <1>9, CommitStep
<1>10. ASSUME NEW w \in Calls, CreateCandidate(w) \/ Approve(w) PROVE Inv'
  BY <1>10, CandidateStep
<1>11. ASSUME NEW w \in Calls, Reopen(w) PROVE Inv'
  BY <1>11, ReopenStep
<1>12. ASSUME NEW w \in Calls, Match(w) PROVE Inv'
  BY <1>12, MatchStep
<1>13. ASSUME NEW w \in Calls, Draft(w) PROVE Inv'
  BY <1>13, DraftStep
<1>14. ASSUME NEW w \in Calls, Fail(w) PROVE Inv'
  BY <1>14, FailStep
<1>15. CASE UNCHANGED vars
  BY <1>15, Stuttering
<1>16. QED
  BY <1>1, <1>2, <1>3, <1>4, <1>5, <1>6, <1>7, <1>8, <1>9, <1>10, <1>11, <1>12, <1>13, <1>14, <1>15 DEF Next

LEMMA Invariance == ASSUME ConstantsOK PROVE Spec => []Inv
<1>1. Init => Inv
  BY InvInit
<1>2. Inv /\ [Next]_vars => Inv'
  BY InvStep
<1>3. QED
  BY <1>1, <1>2, PTL DEF Spec

(* What is on record is well formed: every submission is valid, a batch    *)
(* has a verdict for each row of its file and a submission for exactly the *)
(* rows it calls submitted, whatever fails between the statements of the   *)
(* commit, and no candidate lacks its submission.                          *)
THEOREM TypeCorrect == ASSUME ConstantsOK PROVE Spec => []TypeOK
<1>1. ASSUME Inv PROVE TypeOK
  <2>1. SubmissionsOK
    <3>1. ASSUME NEW id \in Ids, submissions[id] # None PROVE submissions[id].status \in Statuses
      BY <1>1, <3>1 DEF Inv, Typed, StoreTyped, SubmissionRows
    <3>2. QED
      BY <1>1, <3>1 DEF Inv, SubmissionsKnown, SubmissionsOK
  <2>2. \A k \in Commits : batches[k] # None =>
          /\ batches[k].file \in Files
          /\ batches[k].result \in [DOMAIN batches[k].file -> Verdicts]
          /\ \A i \in DOMAIN batches[k].file :
                batches[k].result[i] = "submitted" <=>
                submissions[<<k, i, batches[k].file[i]>>] # None
    BY <1>1 DEF Inv, BatchesKnown
  <2>3. \A id \in Ids : candidates[id] # None =>
          submissions[id] # None /\ candidates[id] \in {"pending", "approved", "rejected", "merged"}
    BY <1>1 DEF Inv, CandidatesKnown, Typed, StoreTyped
  <2>4. drafts \in [DOMAIN drafts -> Nat] /\ known \subseteq Evidence /\ pc \in [Calls -> Points]
    BY <1>1 DEF Inv, Typed, StoreTyped, CallsTyped
  <2>5. ASSUME NEW w \in Calls PROVE pc[w] = "idle" <=> call[w] = None
    <3>1. Carries(pc[w], call[w]) /\ pc[w] \in Points
      BY <1>1 DEF Inv, CallsSeeing, Seeing, Typed, CallsTyped
    <3>2. None \notin RowCall /\ None \notin IdCall /\ None \notin CommitCalls
      BY DEF ConstantsOK, RowCall, IdCall
    <3>3. QED
      BY <3>1, <3>2 DEF Carries, IdPoints, Points
  <2>6. QED
    BY <2>1, <2>2, <2>3, <2>4, <2>5 DEF TypeOK
<1>2. QED
  BY <1>1, Invariance, PTL

(* Whatever interleaves, of two active suggestions of one content both are *)
(* older than the fingerprint column, or one is and was reopened: what     *)
(* each call has read before it writes and the unique index cover the rest. *)
THEOREM OneActive == ASSUME ConstantsOK PROVE Spec => []OneActivePerContent
<1>1. ASSUME Inv PROVE OneActivePerContent
  <2>1. SUFFICES ASSUME NEW a \in ActiveIds, NEW b \in ActiveIds,
                        Fingerprint[submissions[a].row] = Fingerprint[submissions[b].row],
                        a # b, submissions[a].printed \/ submissions[b].printed,
                        \A x \in {a, b} : x \notin reopened \/ submissions[x].printed
                 PROVE  FALSE
    BY DEF OneActivePerContent
  <2>2. SubmissionsKnown /\ PrintedOnce
    BY <1>1 DEF Inv
  <2>3. \A x \in {a, b} : /\ x \in Ids /\ IsActive(x) /\ submissions[x] # None
                          /\ submissions[x].printed = (x \notin DOMAIN Legacy)
    BY <2>2 DEF ActiveIds, IsActive, SubmissionsKnown
  <2>4. ASSUME NEW x \in {a, b}, x \in DOMAIN Legacy PROVE Original(x) /\ submissions[x].row = Legacy[x]
    BY <2>1, <2>2, <2>3, <2>4 DEF Original, SubmissionsKnown
  <2>5. ASSUME NEW x \in {a, b}, NEW y \in {a, b}, x \in DOMAIN Legacy, y \notin DOMAIN Legacy
        PROVE  Fingerprint[submissions[x].row] # Fingerprint[submissions[y].row]
    <3>1. Unoriginal(submissions[y].row)
      BY <2>2, <2>3, <2>5 DEF SubmissionsKnown
    <3>2. QED
      BY <2>4, <2>5, <3>1 DEF Unoriginal
  <2>6. CASE a \notin DOMAIN Legacy /\ b \notin DOMAIN Legacy
    BY <2>1, <2>2, <2>3, <2>6 DEF PrintedOnce
  <2>7. CASE a \in DOMAIN Legacy /\ b \in DOMAIN Legacy
    BY <2>1, <2>3, <2>7
  <2>8. QED
    BY <2>1, <2>5, <2>6, <2>7
<1>2. QED
  BY <1>1, Invariance, PTL

(* A row that looks like one that was active ever since the attempt began  *)
(* is entered by a commit only if its client confirmed it, in the second   *)
(* attempt as in the first.                                                *)
THEOREM NothingEntersBlind == ASSUME ConstantsOK PROVE Spec => []NoneBlind
<1>1. Inv => NoneBlind
  BY DEF Inv
<1>2. QED
  BY <1>1, Invariance, PTL

(* Concurrent approvals leave no more drafts of one name than there are    *)
(* calls: an approval matches again each time, so only those that matched  *)
(* before the first draft can add one.                                     *)
THEOREM DraftsAreBounded == ASSUME ConstantsOK PROVE Spec => []DraftsBounded
<1>1. ASSUME Inv PROVE DraftsBounded
  <2>1. SUFFICES ASSUME NEW n \in DOMAIN drafts PROVE drafts[n] <= Cardinality(Calls)
    BY DEF DraftsBounded
  <2>2. Drafting(n) \in SUBSET Calls /\ IsFiniteSet(Calls)
    BY DEF Drafting, ConstantsOK
  <2>3. IsFiniteSet(Drafting(n))
    BY <2>2, FS_Subset
  <2>4. Cardinality(Drafting(n)) \in Nat /\ Cardinality(Calls) \in Nat
    BY <2>2, <2>3, FS_CardinalityType
  <2>5. drafts[n] + Cardinality(Drafting(n)) <= Cardinality(Calls) /\ drafts[n] \in Nat
    BY <1>1 DEF Inv, DraftsLeft, Typed, StoreTyped
  <2>6. QED
    BY <2>4, <2>5
<1>2. QED
  BY <1>1, Invariance, PTL

(***************************************************************************)
(* Commits keep the contract.                                              *)
(***************************************************************************)
LEMMA ContractStutters ==
    ASSUME UNCHANGED <<batches, answers>> PROVE [Contract!Next]_<<batches, answers>>
OBVIOUS

LEMMA ReplayRepeats ==
    ASSUME Inv, NEW w \in Calls, pc[w] \in {"find", "refind"}, batches[call[w].commit] # None,
           Replay(w), UNCHANGED batches
    PROVE  [Contract!Next]_<<batches, answers>>
<1>1. call[w] \in CommitCalls
  BY CallAt
<1>2. PICK k \in Commits : k = call[w].commit
  BY <1>1 DEF CommitCalls
<1>3. \/ UNCHANGED answers
      \/ answers' = answers \cup {<<k, batches[k].result>>}
  BY <1>2 DEF Replay
<1>4. ASSUME answers' = answers \cup {<<k, batches[k].result>>} PROVE Contract!Repeat(k)
  BY <1>2, <1>4 DEF Contract!Repeat
<1>5. QED
  BY <1>3, <1>4 DEF Contract!Next

LEMMA BatchRecords ==
    ASSUME ConstantsOK, Inv, NEW w \in Calls, CommitBatch(w)
    PROVE  [Contract!Next]_<<batches, answers>>
<1>1. PICK c : c = call[w]
  OBVIOUS
<1>2. pc[w] = "batch" /\ c \in CommitCalls /\ Foreseen(c, standing[w])
  BY <1>1, CallAt DEF CommitBatch, At, Seeing
<1>3. PICK k \in Commits, f \in Files : k = c.commit /\ f = c.file
  BY <1>2 DEF CommitCalls
<1>4. PICK result : result = Result(c)
  OBVIOUS
<1>5. result \in [DOMAIN f -> Verdicts]
  BY <1>2, <1>3, <1>4, ResultTyped DEF Foreseen
<1>6. PICK b : b = [file |-> f, result |-> result]
  OBVIOUS
<1>7. \/ UNCHANGED <<batches, answers>>
      \/ /\ batches[k] = None /\ batches' = [batches EXCEPT ![k] = b]
         /\ answers' = answers \cup {<<k, result>>}
  BY <1>1, <1>3, <1>4, <1>6 DEF CommitBatch, Unused
<1>8. ASSUME batches[k] = None, batches' = [batches EXCEPT ![k] = b], answers' = answers \cup {<<k, result>>}
      PROVE  Contract!Record(k)
  <2>1. b \in Contract!Stored /\ b.result = result
    BY <1>5, <1>6 DEF Contract!Stored
  <2>2. batches'[k] = b
    BY <1>8 DEF Inv, Typed, StoreTyped
  <2>3. QED
    BY <1>8, <2>1, <2>2 DEF Contract!Record
<1>9. QED
  BY <1>7, <1>8 DEF Contract!Next

LEMMA ContractStep ==
    ASSUME ConstantsOK, Inv, [Next]_vars PROVE [Contract!Next]_<<batches, answers>>
<1>1. CASE Learn \/ Decide
  BY <1>1 DEF Learn, Decide, storeVars, historyVars
<1>2. CASE Review
  BY <1>2 DEF Review, SetStatus
<1>3. ASSUME NEW w \in Calls, StartCreate(w) \/ StartCommit(w) \/ StartConvert(w) \/ StartApprove(w)
      PROVE  UNCHANGED <<batches, answers>>
  BY <1>3 DEF StartCreate, StartCommit, StartConvert, StartApprove, Start, storeVars, historyVars
<1>4. ASSUME NEW w \in Calls, \/ ListActive(w) \/ Insert(w) \/ Preview(w) \/ CreateCandidate(w)
                              \/ Match(w) \/ Draft(w) \/ Approve(w) \/ Fail(w)
      PROVE  UNCHANGED <<batches, answers>>
  BY <1>4 DEF ListActive, Insert, Preview, CreateCandidate, Match, Draft, Approve, Fail, storeVars, historyVars
<1>5. ASSUME NEW w \in Calls, Reopen(w) PROVE UNCHANGED <<batches, answers>>
  BY <1>5 DEF Reopen, SetStatus
<1>6. ASSUME NEW w \in Calls, FindBatch(w) \/ Refind(w) PROVE [Contract!Next]_<<batches, answers>>
  <2>1. pc[w] \in {"find", "refind"} /\ UNCHANGED batches
    BY <1>6 DEF FindBatch, Refind, At, storeVars
  <2>2. CASE batches[call[w].commit] # None
    <3>1. Replay(w)
      BY <1>6, <2>2 DEF FindBatch, Refind
    <3>2. QED
      BY <2>1, <2>2, <3>1, ReplayRepeats
  <2>3. CASE batches[call[w].commit] = None
    <3>1. UNCHANGED answers
      BY <1>6, <2>3 DEF FindBatch, Refind, Attempt, Refuse, historyVars
    <3>2. QED
      BY <2>1, <3>1
  <2>4. QED
    BY <2>2, <2>3
<1>7. ASSUME NEW w \in Calls, CommitBatch(w) PROVE [Contract!Next]_<<batches, answers>>
  BY <1>7, BatchRecords
<1>8. CASE UNCHANGED vars
  BY <1>8 DEF vars, storeVars, historyVars
<1>9. QED
  BY <1>1, <1>2, <1>3, <1>4, <1>5, <1>6, <1>7, <1>8 DEF Next

(* The bulk endpoint implements the contract of its clients: a commit      *)
(* reference is used for one file, and whoever repeats it, after a lost    *)
(* answer or in a race, is told the one result on record.                  *)
THEOREM CommitsKeepContract == ASSUME ConstantsOK PROVE Spec => CommitContract
<1>1. Init => Contract!Init
  BY DEF Init, Contract!Init
<1>2. Inv /\ [Next]_vars => [Contract!Next]_<<batches, answers>>
  BY ContractStep
<1>3. QED
  BY <1>1, <1>2, Invariance, PTL DEF Spec, CommitContract, Contract!Spec

(* What stands on record for a reference is what was told, and it stays.   *)
ToldOnRecord ==
    \A a \in answers : \E k \in Commits : batches[k] # None /\ a = <<k, batches[k].result>>

LEMMA ToldStep ==
    ASSUME ConstantsOK, Inv, ToldOnRecord, [Contract!Next]_<<batches, answers>>
    PROVE  ToldOnRecord' /\ \A k \in Commits : batches[k] # None => batches'[k] = batches[k]
<1>1. ASSUME NEW k \in Commits, Contract!Record(k)
      PROVE  ToldOnRecord' /\ \A j \in Commits : batches[j] # None => batches'[j] = batches[j]
  <2>1. /\ batches[k] = None /\ batches' = [batches EXCEPT ![k] = batches'[k]]
        /\ answers' = answers \cup {<<k, batches'[k].result>>} /\ batches'[k] \in BatchRows
    BY <1>1 DEF Contract!Record, Contract!Stored, BatchRows
  <2>2. batches'[k] # None
    BY <2>1 DEF ConstantsOK
  <2>3. \A j \in Commits : batches[j] # None => batches'[j] = batches[j]
    BY <2>1 DEF Inv, Typed, StoreTyped
  <2>4. ASSUME NEW a \in answers'
        PROVE  \E j \in Commits : batches'[j] # None /\ a = <<j, batches'[j].result>>
    <3>1. CASE a \in answers
      BY <2>3, <3>1 DEF ToldOnRecord
    <3>2. CASE a = <<k, batches'[k].result>>
      BY <2>2, <3>2
    <3>3. QED
      BY <2>1, <2>4, <3>1, <3>2
  <2>5. QED
    BY <2>3, <2>4 DEF ToldOnRecord
<1>2. ASSUME NEW k \in Commits, Contract!Repeat(k) PROVE ToldOnRecord' /\ batches' = batches
  BY <1>2 DEF Contract!Repeat, ToldOnRecord
<1>3. QED
  BY <1>1, <1>2 DEF Contract!Next, ToldOnRecord

(* So two answers for one commit reference tell one result, however often  *)
(* and whenever they are asked for, and a batch on record never changes.   *)
THEOREM OneAnswerPerCommit ==
    ASSUME ConstantsOK
    PROVE  Spec => /\ [](\A a, b \in answers : a[1] = b[1] => a[2] = b[2])
                   /\ [][\A k \in Commits : batches[k] # None => batches'[k] = batches[k]]_vars
<1>. DEFINE Agreed == \A a, b \in answers : a[1] = b[1] => a[2] = b[2]
<1>. DEFINE OnRecordStays == \A k \in Commits : batches[k] # None => batches'[k] = batches[k]
<1>1. Init => ToldOnRecord
  BY DEF Init, ToldOnRecord
<1>2. Inv /\ ToldOnRecord /\ [Next]_vars => ToldOnRecord' /\ [OnRecordStays]_vars
  BY ContractStep, ToldStep
<1>3. ToldOnRecord => Agreed
  BY DEF ToldOnRecord
<1>. HIDE DEF Agreed, OnRecordStays
<1>4. Spec => []Agreed /\ [][OnRecordStays]_vars
  BY <1>1, <1>2, <1>3, Invariance, PTL DEF Spec
<1>5. QED
  BY <1>4 DEF Agreed, OnRecordStays
=============================================================================
