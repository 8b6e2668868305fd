------------------------- MODULE CreatorEvidence_proofs -------------------------
(***************************************************************************)
(* What holds of profiles, sources and aliases for any number of them, of  *)
(* creators and of calls, if the constants are what they stand for.        *)
(***************************************************************************)
EXTENDS CreatorEvidence, TLAPS

ProfileRow ==
    [owner : Creators, account : {b.account : b \in Bodies}, primary : BOOLEAN, shown : BOOLEAN]

Profile ==
    [owner : Creators, account : {b.account : b \in Bodies}, primary : BOOLEAN, shown : BOOLEAN,
     rev : Nat]

Kinds == {"create", "update", "delete"}

Asked ==
    [kind : Kinds, profile : Profiles, row : ProfileRow, expects : Nat \cup {Nothing},
     saw : ProfileRow \cup {Nothing}, open : BOOLEAN]

ProfileCall ==
    [step : {"judge", "request", "write"}, kind : Kinds, profile : Profiles \cup {Nothing},
     row : ProfileRow, rev : Nat \cup {Nothing}, saw : ProfileRow \cup {Nothing}]

MergeCall == [step : {"merge"}, alias : Aliases, cites : Sources \cup {Nothing, "kept"}]

AliasCall == [step : {"alias"}, alias : Aliases \cup {Nothing}, row : AliasRow]

(* The variables that the steps of a call leave to each other.             *)
RowsTyped ==
    /\ tiers \in [Creators -> {"notable", "critical"}]
    /\ profiles \in [Profiles -> Profile \cup {Nothing}]
    /\ requests \in [Requests -> Asked \cup {Nothing}]
    /\ sources \in [Sources -> Creators \cup {Nothing, Gone}]
    /\ aliases \in [Aliases -> AliasRow \cup {Nothing, Gone}]
    /\ stamp \in Nat /\ group \in Groups

EvidenceCallsTyped == doing \in [Callers -> ProfileCall \cup MergeCall \cup AliasCall \cup {Nothing}]

(* A call on a profile that exists names it.                               *)
EvidenceNamed(call) == call.kind # "create" => call.profile \in Profiles

CallsNamed ==
    \A w \in Callers : doing[w] \in ProfileCall \ {Nothing} => EvidenceNamed(doing[w])

EvidenceTyped == RowsTyped /\ EvidenceCallsTyped /\ CallsNamed

(***************************************************************************)
(* What kind of call it is follows from where it stands.                   *)
(***************************************************************************)
LEMMA EvidenceCallAt ==
    ASSUME EvidenceTyped, NEW w \in Callers
    PROVE  /\ Stands(w, "judge") \/ Stands(w, "request") \/ Stands(w, "write") => doing[w] \in ProfileCall /\ EvidenceNamed(doing[w])
           /\ Stands(w, "merge") => doing[w] \in MergeCall
           /\ Stands(w, "alias") => doing[w] \in AliasCall
BY DEF EvidenceTyped, EvidenceCallsTyped, CallsNamed, Stands, ProfileCall, MergeCall, AliasCall

LEMMA ContentTyped ==
    ASSUME EvidenceTyped, NEW p \in Profiles, profiles[p] # Nothing
    PROVE  Content(p) \in ProfileRow /\ profiles[p] \in Profile
BY DEF EvidenceTyped, RowsTyped, Content, Row, Profile, ProfileRow

LEMMA RowTyped ==
    ASSUME EvidenceConstantsOK, NEW c \in Creators, NEW b \in Bodies
    PROVE  Row(c, b) \in ProfileRow
BY DEF EvidenceConstantsOK, Row, ProfileRow

(* A step that only moves one call.                                        *)
LEMMA MoveCall ==
    ASSUME EvidenceTyped, NEW w \in Callers, NEW call \in ProfileCall \cup MergeCall \cup AliasCall \cup {Nothing},
           call \in ProfileCall \ {Nothing} => EvidenceNamed(call),
           doing' = [doing EXCEPT ![w] = call]
    PROVE  EvidenceCallsTyped' /\ CallsNamed'
BY DEF EvidenceTyped, EvidenceCallsTyped, CallsNamed

LEMMA EndCall ==
    ASSUME EvidenceTyped, NEW w \in Callers, End(w)
    PROVE  EvidenceCallsTyped' /\ CallsNamed'
BY MoveCall DEF End, Continue

LEMMA BeginCall ==
    ASSUME EvidenceTyped, NEW w \in Callers, NEW g,
           NEW call \in ProfileCall \cup MergeCall \cup AliasCall,
           call \in ProfileCall => EvidenceNamed(call),
           Begin(w, g, call)
    PROVE  EvidenceCallsTyped' /\ CallsNamed'
BY MoveCall DEF Begin

(***************************************************************************)
(* What a batch does to the profiles.                                      *)
(***************************************************************************)
LEMMA WriteTyped ==
    ASSUME EvidenceTyped, NEW kind \in Kinds, NEW p \in Profiles, NEW row \in ProfileRow,
           Write(kind, p, row)
    PROVE  /\ profiles' \in [Profiles -> Profile \cup {Nothing}]
           /\ stamp' = stamp + 1
           /\ \A q \in Profiles : profiles'[q] = profiles[q] \/ profiles'[q].rev = stamp'
           /\ \A q \in Profiles : profiles'[q] # profiles[q] => profiles'[q] \in Profile
<1> DEFINE other(q) == [profiles[q] EXCEPT !.primary = FALSE, !.rev = stamp + 1]
<1>0. stamp \in Nat
  BY DEF EvidenceTyped, RowsTyped
<1>1. stamp + 1 \in Nat
  BY <1>0
<1>10. stamp' = stamp + 1
  BY Zenon DEF Write
<1>2. Stamped(row) \in Profile /\ Stamped(row).rev = stamp + 1
  BY <1>1 DEF Stamped, Profile, ProfileRow
<1>3. \A q \in Profiles : profiles[q] # Nothing => other(q) \in Profile /\ other(q).rev = stamp + 1
  BY <1>1 DEF EvidenceTyped, RowsTyped, Profile
<1>4. kind = "delete" => Suppressed(p) \in Profile /\ Suppressed(p).rev = stamp + 1
  <2>1. SUFFICES ASSUME profiles[p] \in Profile
                 PROVE  Suppressed(p) \in Profile /\ Suppressed(p).rev = stamp + 1
    BY DEF EvidenceTyped, RowsTyped, Write, Kinds
  <2>2. QED
    BY <1>1, <2>1 DEF Suppressed, Profile
<1>5. ASSUME NEW q \in Profiles
      PROVE  \/ profiles'[q] = profiles[q]
             \/ profiles'[q] \in Profile /\ profiles'[q].rev = stamp + 1
  <2>1. CASE q = p
    BY <2>1, <1>2, <1>4 DEF Write
  <2>2. CASE q # p /\ kind # "delete" /\ Demoted(p, row, q)
    BY <2>2, <1>3 DEF Write, Demoted
  <2>3. CASE q # p /\ ~(kind # "delete" /\ Demoted(p, row, q))
    BY <2>3 DEF Write
  <2>4. QED
    BY <2>1, <2>2, <2>3
<1>6. \A q \in Profiles : profiles'[q] \in Profile \cup {Nothing}
  BY <1>5 DEF EvidenceTyped, RowsTyped
<1>7. profiles' = [q \in Profiles |-> profiles'[q]]
  BY DEF Write
<1>8. profiles' \in [Profiles -> Profile \cup {Nothing}]
  BY <1>6, <1>7
<1>9. QED
  BY <1>10, <1>5, <1>8

(***************************************************************************)
(* Every step keeps the types.                                             *)
(***************************************************************************)
Untouched == UNCHANGED <<tiers, profiles, requests, sources, aliases, stamp, group>>

LEMMA UntouchedTyped == ASSUME EvidenceTyped, Untouched PROVE RowsTyped'
BY DEF EvidenceTyped, RowsTyped, Untouched

LEMMA TypedInit == ASSUME EvidenceConstantsOK, EvidenceInit PROVE EvidenceTyped
BY DEF EvidenceInit, EvidenceTyped, RowsTyped, EvidenceCallsTyped, CallsNamed

LEMMA StartTyped ==
    ASSUME EvidenceConstantsOK, EvidenceTyped, NEW w \in Callers,
           PostProfile(w) \/ PatchProfile(w) \/ DeleteProfile(w)
    PROVE  EvidenceTyped' /\ Untouched
<1>1. Untouched
  BY DEF PostProfile, PatchProfile, DeleteProfile, Begin, evidenceVars, Untouched
<1>2. CASE PostProfile(w)
  <2>1. PICK c \in group.creators, b \in Bodies : Begin(w, "profiles", Call("create", Nothing, Row(c, b)))
    BY <1>2 DEF PostProfile
  <2>2. c \in Creators
    BY <2>1 DEF EvidenceConstantsOK, EvidenceTyped, RowsTyped
  <2>3. Call("create", Nothing, Row(c, b)) \in ProfileCall /\ EvidenceNamed(Call("create", Nothing, Row(c, b)))
    BY <2>1, <2>2, RowTyped DEF Call, ProfileCall, EvidenceNamed, Kinds
  <2>4. QED
    BY <1>1, <2>1, <2>3, BeginCall, UntouchedTyped DEF EvidenceTyped
<1>3. CASE PatchProfile(w)
  <2>1. PICK p \in Profiles, b \in Bodies :
            profiles[p] # Nothing /\ Begin(w, "profiles", Call("update", p, Row(profiles[p].owner, b)))
    BY <1>3 DEF PatchProfile
  <2>2. profiles[p].owner \in Creators /\ profiles[p].rev \in Nat /\ Content(p) \in ProfileRow
    BY <2>1, ContentTyped DEF Profile
  <2>3. Row(profiles[p].owner, b) \in ProfileRow
    BY <2>1, <2>2, RowTyped
  <2>4. /\ Call("update", p, Row(profiles[p].owner, b)) \in ProfileCall
        /\ EvidenceNamed(Call("update", p, Row(profiles[p].owner, b)))
    BY <2>1, <2>2, <2>3 DEF Call, ProfileCall, EvidenceNamed, Kinds
  <2>5. QED
    BY <1>1, <2>1, <2>4, BeginCall, UntouchedTyped DEF EvidenceTyped
<1>4. CASE DeleteProfile(w)
  <2>1. PICK p \in Profiles : profiles[p] # Nothing /\ Begin(w, "profiles", Call("delete", p, Content(p)))
    BY <1>4 DEF DeleteProfile
  <2>2. profiles[p].rev \in Nat /\ Content(p) \in ProfileRow
    BY <2>1, ContentTyped DEF Profile
  <2>3. Call("delete", p, Content(p)) \in ProfileCall /\ EvidenceNamed(Call("delete", p, Content(p)))
    BY <2>1, <2>2 DEF Call, ProfileCall, EvidenceNamed, Kinds
  <2>4. QED
    BY <1>1, <2>1, <2>3, BeginCall, UntouchedTyped DEF EvidenceTyped
<1>5. QED
  BY <1>2, <1>3, <1>4, <1>1

LEMMA EvidenceJudgeTyped ==
    ASSUME EvidenceTyped, NEW w \in Callers, JudgeTier(w)
    PROVE  EvidenceTyped' /\ Untouched
<1>1. Untouched
  BY DEF JudgeTier, evidenceVars, Untouched
<1>2. CASE End(w)
  BY <1>1, <1>2, EndCall, UntouchedTyped DEF EvidenceTyped
<1>3. CASE ~End(w)
  <2>1. doing[w] \in ProfileCall /\ doing[w] # Nothing /\ EvidenceNamed(doing[w])
    BY EvidenceCallAt DEF JudgeTier, Stands
  <2>2. PICK s \in {"request", "write"} : doing' = [doing EXCEPT ![w] = [doing[w] EXCEPT !.step = s]]
    BY <1>3 DEF JudgeTier, Continue
  <2>3. [doing[w] EXCEPT !.step = s] \in ProfileCall /\ EvidenceNamed([doing[w] EXCEPT !.step = s])
    BY <2>1, <2>2 DEF ProfileCall, EvidenceNamed
  <2>4. QED
    BY <1>1, <2>2, <2>3, MoveCall, UntouchedTyped DEF EvidenceTyped
<1>4. QED
  BY <1>2, <1>3

LEMMA TargetsTyped ==
    ASSUME EvidenceTyped, NEW w \in Callers, Stands(w, "request") \/ Stands(w, "write"), NEW p \in Targets(doing[w])
    PROVE  p \in Profiles
<1>1. doing[w] \in ProfileCall /\ EvidenceNamed(doing[w])
  BY EvidenceCallAt
<1>2. CASE doing[w].kind = "create"
  <2>1. \E q \in Profiles : ~Used(q)
    BY <1>2 DEF Targets
  <2>2. p = CHOOSE q \in Profiles : ~Used(q)
    BY <1>2 DEF Targets
  <2>3. QED
    BY <2>1, <2>2
<1>3. CASE doing[w].kind # "create"
  BY <1>1, <1>3 DEF Targets, EvidenceNamed
<1>4. QED
  BY <1>2, <1>3

(* What a call writes on record when a request is raised.                  *)
Raised(call, p) ==
    [kind |-> call.kind, profile |-> p, row |-> call.row, expects |-> call.rev, saw |-> call.saw,
     open |-> TRUE]

LEMMA RequestTyped ==
    ASSUME EvidenceTyped, NEW w \in Callers, Request(w)
    PROVE  /\ EvidenceTyped'
           /\ \E r \in Requests, p \in Targets(doing[w]) :
                 requests[r] = Nothing /\ requests' = [requests EXCEPT ![r] = Raised(doing[w], p)]
<1>1. PICK r \in Requests, p \in Targets(doing[w]) :
          requests[r] = Nothing /\ requests' = [requests EXCEPT ![r] = Raised(doing[w], p)]
  BY DEF Request, Raised
<1>2. Stands(w, "request") /\ End(w)
  BY DEF Request
<1>3. p \in Profiles
  BY <1>1, <1>2, TargetsTyped
<1>4. doing[w] \in ProfileCall
  BY <1>2, EvidenceCallAt
<1>5. Raised(doing[w], p) \in Asked
  BY <1>3, <1>4 DEF Raised, Asked, ProfileCall
<1>6. requests' \in [Requests -> Asked \cup {Nothing}]
  BY <1>1, <1>5 DEF EvidenceTyped, RowsTyped
<1>7. UNCHANGED <<tiers, profiles, sources, aliases, stamp, group>>
  BY DEF Request, evidenceVars
<1>8. RowsTyped'
  BY <1>6, <1>7 DEF EvidenceTyped, RowsTyped
<1>9. QED
  BY <1>1, <1>2, <1>8, EndCall DEF EvidenceTyped

LEMMA WriteProfileTyped ==
    ASSUME EvidenceTyped, NEW w \in Callers, WriteProfile(w)
    PROVE  /\ EvidenceTyped'
           /\ \E p \in Profiles, row \in ProfileRow : Write(doing[w].kind, p, row)
<1>1. PICK p \in Targets(doing[w]) : Write(doing[w].kind, p, doing[w].row)
  BY DEF WriteProfile
<1>2. Stands(w, "write") /\ End(w)
  BY DEF WriteProfile
<1>3. p \in Profiles
  BY <1>1, <1>2, TargetsTyped
<1>4. doing[w].kind \in Kinds /\ doing[w].row \in ProfileRow
  BY <1>2, EvidenceCallAt DEF ProfileCall
<1>5. profiles' \in [Profiles -> Profile \cup {Nothing}] /\ stamp' = stamp + 1
  BY <1>1, <1>3, <1>4, WriteTyped
<1>6. UNCHANGED <<tiers, requests, sources, aliases, group>>
  BY DEF WriteProfile, evidenceVars
<1>7. RowsTyped'
  BY <1>5, <1>6 DEF EvidenceTyped, RowsTyped
<1>8. QED
  BY <1>1, <1>2, <1>3, <1>4, <1>7, EndCall DEF EvidenceTyped

LEMMA CloseTyped ==
    ASSUME EvidenceTyped, NEW r \in Requests, requests[r] # Nothing,
           requests' = [requests EXCEPT ![r].open = FALSE]
    PROVE  requests' \in [Requests -> Asked \cup {Nothing}]
<1>1. requests[r] \in Asked
  BY DEF EvidenceTyped, RowsTyped
<1>2. [requests[r] EXCEPT !.open = FALSE] \in Asked
  BY <1>1 DEF Asked
<1>3. requests' = [requests EXCEPT ![r] = [requests[r] EXCEPT !.open = FALSE]]
  OBVIOUS
<1>4. QED
  BY <1>2, <1>3 DEF EvidenceTyped, RowsTyped

LEMMA ApproveTyped ==
    ASSUME EvidenceTyped, NEW r \in Requests, ApproveProfile(r)
    PROVE  /\ EvidenceTyped'
           /\ Write(requests[r].kind, requests[r].profile, requests[r].row)
           /\ requests[r] \in Asked
<1>1. requests[r] \in Asked
  BY DEF EvidenceTyped, RowsTyped, ApproveProfile
<1>2. Write(requests[r].kind, requests[r].profile, requests[r].row)
  BY DEF ApproveProfile
<1>3. profiles' \in [Profiles -> Profile \cup {Nothing}] /\ stamp' = stamp + 1
  BY <1>1, <1>2, WriteTyped DEF Asked
<1>4. requests' \in [Requests -> Asked \cup {Nothing}]
  BY CloseTyped DEF ApproveProfile
<1>5. UNCHANGED <<tiers, sources, aliases, group, doing>>
  BY DEF ApproveProfile, evidenceVars
<1>6. RowsTyped'
  BY <1>3, <1>4, <1>5 DEF EvidenceTyped, RowsTyped
<1>7. QED
  BY <1>1, <1>2, <1>5, <1>6 DEF EvidenceTyped, EvidenceCallsTyped, CallsNamed

LEMMA DismissTyped ==
    ASSUME EvidenceTyped, NEW r \in Requests, Dismiss(r)
    PROVE  EvidenceTyped'
<1>1. requests' \in [Requests -> Asked \cup {Nothing}]
  BY CloseTyped DEF Dismiss
<1>2. UNCHANGED <<tiers, profiles, sources, aliases, stamp, group, doing>>
  BY DEF Dismiss, evidenceVars
<1>3. QED
  BY <1>1, <1>2 DEF EvidenceTyped, RowsTyped, EvidenceCallsTyped, CallsNamed

LEMMA TierTyped ==
    ASSUME EvidenceTyped, NEW c \in Creators, SetTier(c)
    PROVE  EvidenceTyped'
<1>1. tiers' \in [Creators -> {"notable", "critical"}]
  BY DEF EvidenceTyped, RowsTyped, SetTier
<1>2. UNCHANGED <<profiles, requests, sources, aliases, stamp, group, doing>>
  BY DEF SetTier, evidenceVars
<1>3. QED
  BY <1>1, <1>2 DEF EvidenceTyped, RowsTyped, EvidenceCallsTyped, CallsNamed

(***************************************************************************)
(* Sources and aliases.                                                    *)
(***************************************************************************)
LEMMA AliasTyped ==
    ASSUME NEW c \in Creators, NEW n \in AliasNames, NEW s \in Sources \cup {Nothing}, NEW i \in BOOLEAN
    PROVE  Alias(c, n, s, i) \in AliasRow
BY DEF Alias, AliasRow

LEMMA EvidenceStoreTyped ==
    ASSUME EvidenceTyped, UNCHANGED <<profileVars, stamp, group, doing>>,
           sources' \in [Sources -> Creators \cup {Nothing, Gone}],
           aliases' \in [Aliases -> AliasRow \cup {Nothing, Gone}]
    PROVE  EvidenceTyped'
BY DEF EvidenceTyped, RowsTyped, EvidenceCallsTyped, CallsNamed, profileVars

LEMMA SourcesTyped ==
    ASSUME EvidenceTyped, NEW s \in Sources, DeleteSource(s) \/ \E c \in Creators : AddSource(s, c)
    PROVE  EvidenceTyped'
<1>1. CASE \E c \in Creators : AddSource(s, c)
  <2>1. PICK c \in Creators : AddSource(s, c)
    BY <1>1
  <2>2. UNCHANGED <<profileVars, stamp, group, doing, aliases>>
    BY <2>1 DEF AddSource
  <2>3. sources' \in [Sources -> Creators \cup {Nothing, Gone}]
    BY <2>1 DEF AddSource, EvidenceTyped, RowsTyped
  <2>4. QED
    BY <2>2, <2>3, EvidenceStoreTyped DEF EvidenceTyped, RowsTyped
<1>2. CASE DeleteSource(s)
  <2>1. UNCHANGED <<profileVars, stamp, group, doing>>
    BY <1>2 DEF DeleteSource
  <2>2. sources' \in [Sources -> Creators \cup {Nothing, Gone}]
    BY <1>2 DEF DeleteSource, EvidenceTyped, RowsTyped
  <2>3. \A a \in Aliases : There(a) => [aliases[a] EXCEPT !.cites = Nothing] \in AliasRow
    BY DEF There, EvidenceTyped, RowsTyped, AliasRow
  <2>4. aliases' \in [Aliases -> AliasRow \cup {Nothing, Gone}]
    BY <1>2, <2>3 DEF DeleteSource, EvidenceTyped, RowsTyped
  <2>5. QED
    BY <2>1, <2>2, <2>4, EvidenceStoreTyped
<1>3. QED
  BY <1>1, <1>2

LEMMA RowsOfAliasesTyped ==
    ASSUME EvidenceConstantsOK, EvidenceTyped, NEW a \in Aliases, DeleteAlias(a) \/ ImportAlias(a)
    PROVE  EvidenceTyped'
<1>1. UNCHANGED <<profileVars, stamp, group, doing, sources>>
  BY DEF DeleteAlias, ImportAlias
<1>2. aliases' \in [Aliases -> AliasRow \cup {Nothing, Gone}]
  <2>1. CASE DeleteAlias(a)
    BY <2>1 DEF DeleteAlias, EvidenceTyped, RowsTyped
  <2>2. CASE ImportAlias(a)
    <3>1. PICK c \in group.creators, n \in AliasNames, s \in Sources \cup {Nothing} :
              aliases' = [aliases EXCEPT ![a] = Alias(c, n, s, TRUE)]
      BY <2>2 DEF ImportAlias
    <3>2. c \in Creators
      BY <3>1 DEF EvidenceConstantsOK, EvidenceTyped, RowsTyped
    <3>3. Alias(c, n, s, TRUE) \in AliasRow
      BY <3>1, <3>2, AliasTyped
    <3>4. QED
      BY <3>1, <3>3 DEF EvidenceTyped, RowsTyped
  <2>3. QED
    BY <2>1, <2>2
<1>3. QED
  BY <1>1, <1>2, EvidenceStoreTyped DEF EvidenceTyped, RowsTyped

LEMMA AliasCallTyped ==
    ASSUME EvidenceConstantsOK, EvidenceTyped, NEW w \in Callers, PostAlias(w) \/ PatchAlias(w) \/ ReadAlias(w)
    PROVE  EvidenceTyped' /\ Untouched
<1>1. Untouched
  BY DEF PostAlias, PatchAlias, ReadAlias, Begin, evidenceVars, Untouched
<1>2. CASE PostAlias(w)
  <2>1. PICK c \in group.creators, n \in AliasNames, s \in Sources \cup {Nothing} :
            Begin(w, "evidence", [step |-> "alias", alias |-> Nothing, row |-> Alias(c, n, s, FALSE)])
    BY <1>2 DEF PostAlias
  <2>2. c \in Creators
    BY <2>1 DEF EvidenceConstantsOK, EvidenceTyped, RowsTyped
  <2>3. Alias(c, n, s, FALSE) \in AliasRow
    BY <2>1, <2>2, AliasTyped
  <2>4. /\ [step |-> "alias", alias |-> Nothing, row |-> Alias(c, n, s, FALSE)] \in AliasCall
        /\ [step |-> "alias", alias |-> Nothing, row |-> Alias(c, n, s, FALSE)] \notin ProfileCall
    BY <2>3 DEF AliasCall, ProfileCall
  <2>5. QED
    BY <1>1, <2>1, <2>4, BeginCall, UntouchedTyped DEF EvidenceTyped
<1>3. CASE PatchAlias(w)
  <2>1. PICK a \in Aliases, s \in Sources \cup {Nothing, "kept"} :
            Begin(w, "evidence", [step |-> "merge", alias |-> a, cites |-> s])
    BY <1>3 DEF PatchAlias
  <2>2. /\ [step |-> "merge", alias |-> a, cites |-> s] \in MergeCall
        /\ [step |-> "merge", alias |-> a, cites |-> s] \notin ProfileCall
    BY <2>1 DEF MergeCall, ProfileCall
  <2>3. QED
    BY <1>1, <2>1, <2>2, BeginCall, UntouchedTyped DEF EvidenceTyped
<1>4. CASE ReadAlias(w)
  <2>1. doing[w] \in MergeCall
    BY <1>4, EvidenceCallAt DEF ReadAlias
  <2>2. CASE End(w)
    BY <1>1, <2>2, EndCall, UntouchedTyped DEF EvidenceTyped
  <2>3. CASE ~End(w)
    <3> DEFINE row(n) == [aliases[doing[w].alias] EXCEPT
                             !.cites = IF doing[w].cites = "kept" THEN @ ELSE doing[w].cites, !.name = n]
    <3> DEFINE call(n) == [step |-> "alias", alias |-> doing[w].alias, row |-> row(n)]
    <3>1. There(doing[w].alias) /\ \E n \in AliasNames : Continue(w, call(n))
      BY <1>4, <2>3 DEF ReadAlias
    <3>2. PICK n \in AliasNames : Continue(w, call(n))
      BY <3>1
    <3>3. aliases[doing[w].alias] \in AliasRow
      BY <2>1, <3>1 DEF MergeCall, There, EvidenceTyped, RowsTyped
    <3>4. row(n) \in AliasRow
      BY <2>1, <3>2, <3>3 DEF MergeCall, AliasRow
    <3>5. call(n) \in AliasCall /\ call(n) \notin ProfileCall
      BY <2>1, <3>4 DEF MergeCall, AliasCall, ProfileCall
    <3>6. QED
      BY <1>1, <3>2, <3>5, MoveCall, UntouchedTyped DEF EvidenceTyped, Continue
  <2>4. QED
    BY <2>2, <2>3
<1>5. QED
  BY <1>1, <1>2, <1>3, <1>4

LEMMA WriteAliasTyped ==
    ASSUME EvidenceTyped, NEW w \in Callers, WriteAlias(w)
    PROVE  EvidenceTyped'
<1>1. Stands(w, "alias") /\ End(w)
  BY DEF WriteAlias
<1>2. doing[w].row \in AliasRow
  BY <1>1, EvidenceCallAt DEF AliasCall
<1>3. aliases' \in [Aliases -> AliasRow \cup {Nothing, Gone}]
  BY <1>2 DEF WriteAlias, EvidenceTyped, RowsTyped
<1>4. UNCHANGED <<tiers, profiles, requests, sources, stamp, group>>
  BY DEF WriteAlias
<1>5. RowsTyped'
  BY <1>3, <1>4 DEF EvidenceTyped, RowsTyped
<1>6. QED
  BY <1>1, <1>5, EndCall DEF EvidenceTyped

LEMMA FailTyped ==
    ASSUME EvidenceTyped, NEW w \in Callers, GiveUp(w)
    PROVE  EvidenceTyped' /\ Untouched
BY EndCall, UntouchedTyped DEF GiveUp, EvidenceTyped, Untouched, evidenceVars

(* What a step is, with its actor named.                                   *)
LEMMA Steps ==
    ASSUME EvidenceConstantsOK, EvidenceTyped, [EvidenceNext]_creatorVars
    PROVE  \/ \E c \in Creators : SetTier(c)
           \/ \E r \in Requests : ApproveProfile(r) \/ Dismiss(r)
           \/ \E s \in Sources : DeleteSource(s) \/ \E c \in Creators : AddSource(s, c)
           \/ \E a \in Aliases : DeleteAlias(a) \/ ImportAlias(a)
           \/ \E w \in Callers : PostProfile(w) \/ PatchProfile(w) \/ DeleteProfile(w)
           \/ \E w \in Callers : JudgeTier(w) \/ Request(w) \/ WriteProfile(w)
           \/ \E w \in Callers : PostAlias(w) \/ PatchAlias(w) \/ ReadAlias(w)
           \/ \E w \in Callers : WriteAlias(w) \/ GiveUp(w)
           \/ UNCHANGED creatorVars
<1>1. group.creators \subseteq Creators
  BY DEF EvidenceConstantsOK, EvidenceTyped, RowsTyped
<1>2. QED
  BY <1>1 DEF EvidenceNext

LEMMA TypedStep == ASSUME EvidenceConstantsOK, EvidenceTyped, [EvidenceNext]_creatorVars PROVE EvidenceTyped'
<1>1. ASSUME UNCHANGED creatorVars PROVE EvidenceTyped'
  BY <1>1 DEF creatorVars, profileVars, evidenceVars, EvidenceTyped, RowsTyped, EvidenceCallsTyped, CallsNamed
<1>2. QED
  BY <1>1, Steps, TierTyped, ApproveTyped, DismissTyped, SourcesTyped, RowsOfAliasesTyped, StartTyped,
     EvidenceJudgeTyped, RequestTyped, WriteProfileTyped, AliasCallTyped, WriteAliasTyped, FailTyped

(***************************************************************************)
(* A batch leaves one primary profile.                                     *)
(***************************************************************************)
LEMMA PrimaryWrite ==
    ASSUME EvidenceTyped, OnePrimary, NEW kind \in Kinds, NEW p \in Profiles, NEW row \in ProfileRow,
           Write(kind, p, row)
    PROVE  OnePrimary'
<1>1. SUFFICES ASSUME NEW q \in Profiles, NEW r \in Profiles, q # r,
                      profiles'[q] # Nothing, profiles'[r] # Nothing,
                      profiles'[q].primary, profiles'[r].primary, profiles'[q].owner = profiles'[r].owner
               PROVE  FALSE
  BY DEF OnePrimary
<1>2. \A x \in Profiles : profiles[x] # Nothing => profiles[x] \in Profile
  BY DEF EvidenceTyped, RowsTyped
<1>3. ASSUME NEW x \in Profiles, x # p, profiles'[x] # Nothing, profiles'[x].primary
      PROVE  /\ profiles'[x] = profiles[x]
             /\ kind # "delete" /\ row.primary => profiles[x].owner # row.owner
  <2>1. ~(kind # "delete" /\ Demoted(p, row, x))
    <3>1. SUFFICES ASSUME kind # "delete", Demoted(p, row, x) PROVE FALSE
      OBVIOUS
    <3>2. profiles'[x] = [profiles[x] EXCEPT !.primary = FALSE, !.rev = stamp + 1]
      BY <3>1, <1>3 DEF Write
    <3>3. profiles[x] \in Profile
      BY <3>1, <1>2 DEF Demoted
    <3>4. profiles'[x].primary = FALSE
      BY <3>2, <3>3 DEF Profile
    <3>5. QED
      BY <3>4, <1>3
  <2>2. profiles'[x] = profiles[x]
    BY <1>3, <2>1 DEF Write
  <2>3. QED
    BY <1>3, <2>1, <2>2 DEF Demoted
<1>4. CASE q # p /\ r # p
  BY <1>1, <1>3, <1>4 DEF OnePrimary
<1>5. ASSUME profiles'[p] # Nothing, profiles'[p].primary,
             NEW x \in Profiles, x # p, profiles'[x] # Nothing, profiles'[x].primary,
             profiles'[x].owner = profiles'[p].owner
      PROVE  FALSE
  <2>1. CASE kind = "delete"
    <3>1. profiles'[p] = Suppressed(p) /\ profiles[p] # Nothing
      BY <2>1 DEF Write
    <3>2. profiles'[p].primary = FALSE
      BY <3>1, <1>2 DEF Suppressed, Profile
    <3>3. QED
      BY <3>2, <1>5
  <2>2. CASE kind # "delete"
    <3>1. profiles'[p] = Stamped(row)
      BY <2>2 DEF Write
    <3>2. profiles'[p].primary = row.primary /\ profiles'[p].owner = row.owner
      BY <3>1 DEF Stamped
    <3>3. profiles'[x] = profiles[x] /\ profiles[x].owner # row.owner
      BY <1>3, <1>5, <2>2, <3>2
    <3>4. QED
      BY <3>2, <3>3, <1>5
  <2>3. QED
    BY <2>1, <2>2
<1>6. QED
  BY <1>1, <1>4, <1>5

LEMMA PrimaryStep == ASSUME EvidenceConstantsOK, EvidenceTyped, OnePrimary, [EvidenceNext]_creatorVars PROVE OnePrimary'
<1>1. ASSUME UNCHANGED profiles PROVE OnePrimary'
  BY <1>1 DEF OnePrimary
<1>2. ASSUME NEW w \in Callers, JudgeTier(w) \/ Request(w) \/ WriteProfile(w) PROVE OnePrimary'
  BY <1>1, <1>2, WriteProfileTyped, EvidenceCallAt, PrimaryWrite DEF JudgeTier, Request, WriteProfile, ProfileCall
<1>3. ASSUME NEW r \in Requests, ApproveProfile(r) \/ Dismiss(r) PROVE OnePrimary'
  BY <1>1, <1>3, ApproveTyped, PrimaryWrite DEF Dismiss, Asked
<1>4. ASSUME NEW c \in Creators, SetTier(c) PROVE OnePrimary'
  BY <1>1, <1>4 DEF SetTier
<1>5. ASSUME NEW s \in Sources, DeleteSource(s) \/ \E c \in Creators : AddSource(s, c) PROVE OnePrimary'
  BY <1>1, <1>5 DEF DeleteSource, AddSource, profileVars
<1>6. ASSUME NEW a \in Aliases, DeleteAlias(a) \/ ImportAlias(a) PROVE OnePrimary'
  BY <1>1, <1>6 DEF DeleteAlias, ImportAlias, profileVars
<1>7. ASSUME NEW w \in Callers, WriteAlias(w) \/ GiveUp(w) PROVE OnePrimary'
  BY <1>1, <1>7 DEF WriteAlias, GiveUp
<1>8. ASSUME UNCHANGED creatorVars PROVE OnePrimary'
  BY <1>1, <1>8 DEF creatorVars, profileVars
<1>9. QED
  BY <1>1, <1>2, <1>3, <1>4, <1>5, <1>6, <1>7, <1>8, Steps, StartTyped, AliasCallTyped DEF Untouched

(***************************************************************************)
(* Whoever decided to write directly found the tier not to be critical, or *)
(* it was raised since.                                                    *)
(***************************************************************************)
JudgedRight ==
    \A w \in Callers : Stands(w, "write") /\ w \notin raised => tiers[doing[w].row.owner] # "critical"

Direct == CriticalByApproval /\ JudgedRight

LEMMA DirectWrite ==
    ASSUME EvidenceTyped, Direct, NEW w \in Callers, WriteProfile(w)
    PROVE  CriticalByApproval'
<1>1. Stands(w, "write")
  BY DEF WriteProfile
<1>2. ~(tiers[doing[w].row.owner] = "critical" /\ w \notin raised)
  BY <1>1 DEF Direct, JudgedRight
<1>3. unapproved' = unapproved
  BY <1>2 DEF WriteProfile
<1>4. QED
  BY <1>3 DEF Direct, CriticalByApproval

LEMMA DirectStep == ASSUME EvidenceConstantsOK, EvidenceTyped, Direct, [EvidenceNext]_creatorVars PROVE Direct'
<1>1. ASSUME UNCHANGED <<tiers, doing, raised, unapproved>> PROVE Direct'
  BY <1>1 DEF Direct, CriticalByApproval, JudgedRight, Stands
<1>2. ASSUME NEW w \in Callers, End(w), UNCHANGED tiers, CriticalByApproval' PROVE Direct'
  <2>1. \A v \in Callers : doing'[v] # Nothing => v # w /\ doing'[v] = doing[v]
    BY <1>2 DEF End, Continue, EvidenceTyped, EvidenceCallsTyped
  <2>2. raised' = raised
    BY <1>2 DEF End, Continue
  <2>3. QED
    BY <1>2, <2>1, <2>2 DEF Direct, JudgedRight, Stands
<1>3. ASSUME NEW w \in Callers, NEW g, NEW call, call.step # "write", Begin(w, g, call),
             UNCHANGED <<tiers, unapproved>>
      PROVE  Direct'
  <2>1. \A v \in Callers : doing'[v] = IF v = w THEN call ELSE doing[v]
    BY <1>3 DEF Begin, EvidenceTyped, EvidenceCallsTyped
  <2>2. raised' = raised \ {w}
    BY <1>3 DEF Begin
  <2>3. QED
    BY <1>3, <2>1, <2>2 DEF Direct, CriticalByApproval, JudgedRight, Stands
<1>4. ASSUME NEW c \in Creators, SetTier(c) PROVE Direct'
  <2>1. UNCHANGED <<doing, unapproved>> /\ tiers' \in [Creators -> {"notable", "critical"}]
    BY <1>4 DEF SetTier, EvidenceTyped, RowsTyped
  <2>2. CASE tiers[c] = "critical"
    <3>1. raised' = raised /\ \A d \in Creators : tiers'[d] = "critical" => tiers[d] = "critical"
      BY <1>4, <2>2 DEF SetTier, EvidenceTyped, RowsTyped
    <3>2. \A v \in Callers : Stands(v, "write") => doing[v].row.owner \in Creators
      BY EvidenceCallAt DEF ProfileCall, ProfileRow
    <3>3. QED
      BY <2>1, <3>1, <3>2 DEF Direct, CriticalByApproval, JudgedRight, Stands
  <2>3. CASE tiers[c] # "critical"
    <3>1. \A v \in Callers : Stands(v, "write") => v \in raised'
      BY <1>4, <2>3 DEF SetTier
    <3>2. QED
      BY <2>1, <3>1 DEF Direct, CriticalByApproval, JudgedRight, Stands
  <2>4. QED
    BY <2>2, <2>3
<1>5. ASSUME NEW w \in Callers, JudgeTier(w) PROVE Direct'
  <2>1. UNCHANGED <<tiers, unapproved>>
    BY <1>5 DEF JudgeTier
  <2>2. CASE End(w)
    BY <2>1, <2>2, <1>2 DEF Direct, CriticalByApproval
  <2>3. CASE ~End(w)
    <3>1. doing[w] \in ProfileCall
      BY <1>5, EvidenceCallAt DEF JudgeTier
    <3> DEFINE s == IF NeedsApproval(doing[w]) THEN "request" ELSE "write"
    <3>2. doing' = [doing EXCEPT ![w] = [doing[w] EXCEPT !.step = s]] /\ raised' = raised
      BY <1>5, <2>3 DEF JudgeTier, Continue
    <3>3. doing'[w].step = s /\ doing'[w].row = doing[w].row
      BY <3>1, <3>2 DEF EvidenceTyped, EvidenceCallsTyped, ProfileCall
    <3>4. s = "write" => tiers[doing[w].row.owner] # "critical"
      BY DEF NeedsApproval
    <3>5. \A v \in Callers \ {w} : doing'[v] = doing[v]
      BY <3>2 DEF EvidenceTyped, EvidenceCallsTyped
    <3>6. QED
      BY <2>1, <3>2, <3>3, <3>4, <3>5 DEF Direct, CriticalByApproval, JudgedRight, Stands
  <2>4. QED
    BY <2>2, <2>3
<1>6. ASSUME NEW w \in Callers, Request(w) \/ WriteProfile(w) \/ WriteAlias(w) \/ GiveUp(w) PROVE Direct'
  BY <1>2, <1>6, DirectWrite DEF Request, WriteProfile, WriteAlias, GiveUp, Direct, CriticalByApproval
<1>7. ASSUME NEW w \in Callers, PostProfile(w) \/ PatchProfile(w) \/ DeleteProfile(w) PROVE Direct'
  <2>1. PICK k, p, row : Begin(w, "profiles", Call(k, p, row))
    BY <1>7 DEF PostProfile, PatchProfile, DeleteProfile
  <2>2. Call(k, p, row).step # "write"
    BY DEF Call
  <2>3. UNCHANGED <<tiers, unapproved>>
    BY <1>7 DEF PostProfile, PatchProfile, DeleteProfile
  <2>4. QED
    BY <2>1, <2>2, <2>3, <1>3
<1>8. ASSUME NEW w \in Callers, PostAlias(w) \/ PatchAlias(w) \/ ReadAlias(w) PROVE Direct'
  <2>1. UNCHANGED <<tiers, unapproved>>
    BY <1>8 DEF PostAlias, PatchAlias, ReadAlias
  <2>2. CASE PostAlias(w) \/ PatchAlias(w)
    <3>1. PICK call : Begin(w, "evidence", call) /\ call.step # "write"
      <4>1. CASE PostAlias(w)
        <5>1. PICK row : Begin(w, "evidence", [step |-> "alias", alias |-> Nothing, row |-> row])
          BY <4>1 DEF PostAlias
        <5>2. [step |-> "alias", alias |-> Nothing, row |-> row].step # "write"
          OBVIOUS
        <5>3. QED
          BY <5>1, <5>2
      <4>2. CASE PatchAlias(w)
        <5>1. PICK a, s : Begin(w, "evidence", [step |-> "merge", alias |-> a, cites |-> s])
          BY <4>2 DEF PatchAlias
        <5>2. [step |-> "merge", alias |-> a, cites |-> s].step # "write"
          OBVIOUS
        <5>3. QED
          BY <5>1, <5>2
      <4>3. QED
        BY <2>2, <4>1, <4>2
    <3>2. QED
      BY <2>1, <3>1, <1>3
  <2>3. CASE ReadAlias(w)
    <3>1. CASE End(w)
      BY <2>1, <3>1, <1>2 DEF Direct, CriticalByApproval
    <3>2. CASE ~End(w)
      <4>1. PICK row : Continue(w, [step |-> "alias", alias |-> doing[w].alias, row |-> row])
        BY <2>3, <3>2 DEF ReadAlias
      <4>2. doing'[w].step = "alias" /\ raised' = raised
        BY <4>1 DEF Continue, EvidenceTyped, EvidenceCallsTyped
      <4>3. \A v \in Callers \ {w} : doing'[v] = doing[v]
        BY <4>1 DEF Continue, EvidenceTyped, EvidenceCallsTyped
      <4>4. QED
        BY <2>1, <4>2, <4>3 DEF Direct, CriticalByApproval, JudgedRight, Stands
    <3>3. QED
      BY <3>1, <3>2
  <2>4. QED
    BY <1>8, <2>2, <2>3
<1>9. ASSUME NEW s \in Sources, DeleteSource(s) \/ \E c \in Creators : AddSource(s, c) PROVE Direct'
  BY <1>1, <1>9 DEF DeleteSource, AddSource, profileVars
<1>10. ASSUME NEW a \in Aliases, DeleteAlias(a) \/ ImportAlias(a) PROVE Direct'
  BY <1>1, <1>10 DEF DeleteAlias, ImportAlias, profileVars
<1>11. ASSUME NEW r \in Requests, ApproveProfile(r) \/ Dismiss(r) PROVE Direct'
  BY <1>1, <1>11 DEF ApproveProfile, Dismiss
<1>12. ASSUME UNCHANGED creatorVars PROVE Direct'
  BY <1>1, <1>12 DEF creatorVars, profileVars
<1>13. QED
  BY Steps, <1>4, <1>5, <1>6, <1>7, <1>8, <1>9, <1>10, <1>11, <1>12

(***************************************************************************)
(* A revision that is remembered says what the row was.                    *)
(***************************************************************************)
Stamps == \A p \in Profiles : profiles[p] # Nothing => profiles[p].rev \in 1 .. stamp

Remembers(p, rev, saw) ==
    /\ rev \in Nat /\ rev <= stamp
    /\ profiles[p] # Nothing /\ profiles[p].rev = rev => Content(p) = saw

RequestsRemember ==
    \A r \in Requests :
        requests[r] # Nothing /\ requests[r].kind # "create" =>
            Remembers(requests[r].profile, requests[r].expects, requests[r].saw)

CallsRemember ==
    \A w \in Callers :
        doing[w] \in ProfileCall \ {Nothing} /\ doing[w].kind # "create" =>
            Remembers(doing[w].profile, doing[w].rev, doing[w].saw)

Memory == Stamps /\ RequestsRemember /\ CallsRemember

LEMMA ContentOf ==
    ASSUME NEW p, profiles'[p] = profiles[p] PROVE Content(p)' = Content(p)
BY DEF Content, Row

LEMMA MemoryOfWrite ==
    ASSUME EvidenceTyped, Stamps, NEW kind \in Kinds, NEW q \in Profiles, NEW row \in ProfileRow,
           Write(kind, q, row)
    PROVE  /\ Stamps'
           /\ \A p \in Profiles : \A rev, saw : Remembers(p, rev, saw) => Remembers(p, rev, saw)'
<1>1. /\ stamp' = stamp + 1 /\ stamp \in Nat
      /\ \A p \in Profiles : profiles'[p] = profiles[p] \/ profiles'[p].rev = stamp'
  BY WriteTyped DEF EvidenceTyped, RowsTyped
<1>2. \A p \in Profiles : profiles[p] # Nothing => profiles[p].rev \in Nat
  BY DEF EvidenceTyped, RowsTyped, Profile
<1>3. Stamps'
  BY <1>1, <1>2 DEF Stamps
<1>4. ASSUME NEW p \in Profiles, NEW rev, NEW saw, Remembers(p, rev, saw)
      PROVE  Remembers(p, rev, saw)'
  <2>1. rev \in Nat /\ rev <= stamp' /\ rev # stamp'
    BY <1>1, <1>4 DEF Remembers
  <2>2. CASE profiles'[p] = profiles[p]
    BY <1>4, <2>1, <2>2, ContentOf DEF Remembers
  <2>3. CASE profiles'[p].rev = stamp'
    BY <2>1, <2>3 DEF Remembers
  <2>4. QED
    BY <1>1, <2>2, <2>3
<1>5. QED
  BY <1>3, <1>4

LEMMA MemoryWithout ==
    ASSUME Stamps, UNCHANGED <<profiles, stamp>>
    PROVE  /\ Stamps'
           /\ \A p \in Profiles : \A rev, saw : Remembers(p, rev, saw) => Remembers(p, rev, saw)'
<1>1. Stamps'
  BY DEF Stamps
<1>2. ASSUME NEW p \in Profiles, NEW rev, NEW saw PROVE Remembers(p, rev, saw)' <=> Remembers(p, rev, saw)
  BY ContentOf DEF Remembers
<1>3. QED
  BY <1>1, <1>2

(* Every step either leaves the profiles alone or is such a batch.         *)
LEMMA MemoryLasts ==
    ASSUME EvidenceConstantsOK, EvidenceTyped, Stamps, [EvidenceNext]_creatorVars
    PROVE  /\ Stamps'
           /\ \A p \in Profiles : \A rev, saw : Remembers(p, rev, saw) => Remembers(p, rev, saw)'
<1>1. \/ UNCHANGED <<profiles, stamp>>
      \/ \E kind \in Kinds, p \in Profiles, row \in ProfileRow : Write(kind, p, row)
  <2>1. ASSUME NEW w \in Callers, WriteProfile(w)
        PROVE  \E kind \in Kinds, p \in Profiles, row \in ProfileRow : Write(kind, p, row)
    BY <2>1, WriteProfileTyped, EvidenceCallAt DEF WriteProfile, ProfileCall
  <2>2. ASSUME NEW r \in Requests, ApproveProfile(r)
        PROVE  \E kind \in Kinds, p \in Profiles, row \in ProfileRow : Write(kind, p, row)
    BY <2>2, ApproveTyped DEF Asked
  <2>3. ASSUME NEW c \in Creators, SetTier(c) PROVE UNCHANGED <<profiles, stamp>>
    BY <2>3 DEF SetTier
  <2>4. ASSUME NEW s \in Sources, DeleteSource(s) \/ \E c \in Creators : AddSource(s, c)
        PROVE  UNCHANGED <<profiles, stamp>>
    BY <2>4 DEF DeleteSource, AddSource, profileVars
  <2>5. ASSUME NEW a \in Aliases, DeleteAlias(a) \/ ImportAlias(a) PROVE UNCHANGED <<profiles, stamp>>
    BY <2>5 DEF DeleteAlias, ImportAlias, profileVars
  <2>6. ASSUME NEW w \in Callers, WriteAlias(w) \/ GiveUp(w) \/ JudgeTier(w) \/ Request(w)
        PROVE  UNCHANGED <<profiles, stamp>>
    BY <2>6 DEF WriteAlias, GiveUp, JudgeTier, Request
  <2>7. ASSUME NEW r \in Requests, Dismiss(r) PROVE UNCHANGED <<profiles, stamp>>
    BY <2>7 DEF Dismiss
  <2>8. ASSUME UNCHANGED creatorVars PROVE UNCHANGED <<profiles, stamp>>
    BY <2>8 DEF creatorVars, profileVars
  <2>9. QED
    BY Steps, <2>1, <2>2, <2>3, <2>4, <2>5, <2>6, <2>7, <2>8, StartTyped, AliasCallTyped DEF Untouched
<1>2. CASE UNCHANGED <<profiles, stamp>>
  BY <1>2, MemoryWithout
<1>3. CASE \E kind \in Kinds, p \in Profiles, row \in ProfileRow : Write(kind, p, row)
  BY <1>3, MemoryOfWrite
<1>4. QED
  BY <1>1, <1>2, <1>3

(* What a step may have made of a call, and of a request.                  *)
CallKept(v) == doing'[v] = doing[v] \/ doing'[v] \notin ProfileCall \ {Nothing}

LEMMA CallsAfter ==
    ASSUME EvidenceConstantsOK, EvidenceTyped, [EvidenceNext]_creatorVars, NEW v \in Callers
    PROVE  \/ CallKept(v)
           \/ /\ doing[v] \in ProfileCall \ {Nothing}
              /\ doing'[v].kind = doing[v].kind /\ doing'[v].profile = doing[v].profile
              /\ doing'[v].rev = doing[v].rev /\ doing'[v].saw = doing[v].saw
           \/ \E p \in Profiles \cup {Nothing} : \E kind, row :
                 /\ doing'[v] = Call(kind, p, row) /\ UNCHANGED <<profiles, stamp>>
                 /\ kind # "create" => p \in Profiles /\ profiles[p] # Nothing
<1>1. ASSUME NEW w \in Callers, End(w) PROVE CallKept(v)
  BY <1>1 DEF End, Continue, CallKept, EvidenceTyped, EvidenceCallsTyped
<1>2. ASSUME UNCHANGED doing PROVE CallKept(v)
  BY <1>2 DEF CallKept
<1>3. ASSUME NEW w \in Callers, PostProfile(w) \/ PatchProfile(w) \/ DeleteProfile(w)
      PROVE  \/ CallKept(v)
             \/ \E p \in Profiles \cup {Nothing} : \E kind, row :
                   /\ doing'[v] = Call(kind, p, row) /\ UNCHANGED <<profiles, stamp>>
                   /\ kind # "create" => p \in Profiles /\ profiles[p] # Nothing
  <2>1. UNCHANGED <<profiles, stamp>>
    BY <1>3 DEF PostProfile, PatchProfile, DeleteProfile
  <2>2. PICK kind, p, row :
           /\ p \in Profiles \cup {Nothing}
           /\ Begin(w, "profiles", Call(kind, p, row))
           /\ kind # "create" => p \in Profiles /\ profiles[p] # Nothing
    BY <1>3 DEF PostProfile, PatchProfile, DeleteProfile
  <2>3. doing'[v] = IF v = w THEN Call(kind, p, row) ELSE doing[v]
    BY <2>2 DEF Begin, EvidenceTyped, EvidenceCallsTyped
  <2>4. CASE v # w
    BY <2>3, <2>4 DEF CallKept
  <2>5. CASE v = w
    BY Zenon, <2>1, <2>2, <2>3, <2>5
  <2>6. QED
    BY <2>4, <2>5
<1>4. ASSUME NEW w \in Callers, JudgeTier(w)
      PROVE  \/ CallKept(v)
             \/ /\ doing[v] \in ProfileCall \ {Nothing}
                /\ doing'[v].kind = doing[v].kind /\ doing'[v].profile = doing[v].profile
                /\ doing'[v].rev = doing[v].rev /\ doing'[v].saw = doing[v].saw
  <2>1. doing[w] \in ProfileCall \ {Nothing}
    BY <1>4, EvidenceCallAt DEF JudgeTier, Stands
  <2>2. CASE End(w)
    BY <2>2, <1>1
  <2>3. CASE ~End(w)
    <3>1. PICK s \in {"request", "write"} : doing' = [doing EXCEPT ![w] = [doing[w] EXCEPT !.step = s]]
      BY <1>4, <2>3 DEF JudgeTier, Continue
    <3>2. CASE v # w
      BY <3>1, <3>2 DEF CallKept, EvidenceTyped, EvidenceCallsTyped
    <3>3. CASE v = w
      BY <2>1, <3>1, <3>3 DEF ProfileCall, EvidenceTyped, EvidenceCallsTyped
    <3>4. QED
      BY <3>2, <3>3
  <2>4. QED
    BY <2>2, <2>3
<1>5. ASSUME NEW w \in Callers, Request(w) \/ WriteProfile(w) \/ WriteAlias(w) \/ GiveUp(w) PROVE CallKept(v)
  BY <1>1, <1>5 DEF Request, WriteProfile, WriteAlias, GiveUp
<1>6. ASSUME NEW w \in Callers, PostAlias(w) \/ PatchAlias(w) \/ ReadAlias(w) PROVE CallKept(v)
  <2>1. CASE End(w)
    BY <2>1, <1>1
  <2>2. CASE ~End(w)
    <3>1. PICK call : doing' = [doing EXCEPT ![w] = call] /\ call.step \in {"merge", "alias"}
      <4>1. CASE PostAlias(w)
        <5>1. PICK row : Begin(w, "evidence", [step |-> "alias", alias |-> Nothing, row |-> row])
          BY <4>1 DEF PostAlias
        <5>2. [step |-> "alias", alias |-> Nothing, row |-> row].step = "alias"
          OBVIOUS
        <5>3. QED
          BY <5>1, <5>2 DEF Begin
      <4>2. CASE PatchAlias(w)
        <5>1. PICK a, s : Begin(w, "evidence", [step |-> "merge", alias |-> a, cites |-> s])
          BY <4>2 DEF PatchAlias
        <5>2. [step |-> "merge", alias |-> a, cites |-> s].step = "merge"
          OBVIOUS
        <5>3. QED
          BY <5>1, <5>2 DEF Begin
      <4>3. CASE ReadAlias(w)
        <5>1. PICK row : Continue(w, [step |-> "alias", alias |-> doing[w].alias, row |-> row])
          BY <2>2, <4>3 DEF ReadAlias
        <5>2. [step |-> "alias", alias |-> doing[w].alias, row |-> row].step = "alias"
          OBVIOUS
        <5>3. QED
          BY <5>1, <5>2 DEF Continue
      <4>4. QED
        BY <1>6, <4>1, <4>2, <4>3
    <3>2. call \notin ProfileCall
      BY <3>1 DEF ProfileCall
    <3>3. QED
      BY <3>1, <3>2 DEF CallKept, EvidenceTyped, EvidenceCallsTyped
  <2>3. QED
    BY <2>1, <2>2
<1>7. ASSUME NEW c \in Creators, SetTier(c) PROVE CallKept(v)
  BY <1>2, <1>7 DEF SetTier
<1>8. ASSUME NEW r \in Requests, ApproveProfile(r) \/ Dismiss(r) PROVE CallKept(v)
  BY <1>2, <1>8 DEF ApproveProfile, Dismiss
<1>9. ASSUME NEW s \in Sources, DeleteSource(s) \/ \E c \in Creators : AddSource(s, c) PROVE CallKept(v)
  BY <1>2, <1>9 DEF DeleteSource, AddSource
<1>10. ASSUME NEW a \in Aliases, DeleteAlias(a) \/ ImportAlias(a) PROVE CallKept(v)
  BY <1>2, <1>10 DEF DeleteAlias, ImportAlias
<1>11. ASSUME UNCHANGED creatorVars PROVE CallKept(v)
  BY <1>2, <1>11 DEF creatorVars
<1>12. QED
  BY Steps, <1>3, <1>4, <1>5, <1>6, <1>7, <1>8, <1>9, <1>10, <1>11

LEMMA RequestsAfter ==
    ASSUME EvidenceConstantsOK, EvidenceTyped, [EvidenceNext]_creatorVars, NEW r \in Requests
    PROVE  \/ requests'[r] = requests[r]
           \/ requests[r] # Nothing /\ requests'[r] = [requests[r] EXCEPT !.open = FALSE]
           \/ /\ requests[r] = Nothing
              /\ \E w \in Callers : \E p \in Targets(doing[w]) :
                    /\ doing[w] \in ProfileCall \ {Nothing}
                    /\ requests'[r] = Raised(doing[w], p)
<1>1. ASSUME NEW w \in Callers, Request(w)
      PROVE  \/ requests'[r] = requests[r]
             \/ /\ requests[r] = Nothing
                /\ \E p \in Targets(doing[w]) :
                      doing[w] \in ProfileCall \ {Nothing} /\ requests'[r] = Raised(doing[w], p)
  <2>1. PICK x \in Requests, p \in Targets(doing[w]) :
            requests[x] = Nothing /\ requests' = [requests EXCEPT ![x] = Raised(doing[w], p)]
    BY <1>1, RequestTyped
  <2>2. doing[w] \in ProfileCall \ {Nothing}
    BY <1>1, EvidenceCallAt DEF Request, Stands
  <2>3. QED
    BY <2>1, <2>2 DEF EvidenceTyped, RowsTyped
<1>2. ASSUME NEW x \in Requests, ApproveProfile(x) \/ Dismiss(x)
      PROVE  \/ requests'[r] = requests[r]
             \/ requests[r] # Nothing /\ requests'[r] = [requests[r] EXCEPT !.open = FALSE]
  <2>1. requests[x] # Nothing /\ requests' = [requests EXCEPT ![x] = [requests[x] EXCEPT !.open = FALSE]]
    BY <1>2 DEF ApproveProfile, Dismiss
  <2>2. QED
    BY <2>1 DEF EvidenceTyped, RowsTyped
<1>3. ASSUME NEW w \in Callers, JudgeTier(w) \/ WriteProfile(w) \/ WriteAlias(w) \/ GiveUp(w)
      PROVE  requests'[r] = requests[r]
  BY <1>3 DEF JudgeTier, WriteProfile, WriteAlias, GiveUp
<1>4. ASSUME NEW c \in Creators, SetTier(c) PROVE requests'[r] = requests[r]
  BY <1>4 DEF SetTier
<1>5. ASSUME NEW s \in Sources, DeleteSource(s) \/ \E c \in Creators : AddSource(s, c)
      PROVE  requests'[r] = requests[r]
  BY <1>5 DEF DeleteSource, AddSource, profileVars
<1>6. ASSUME NEW a \in Aliases, DeleteAlias(a) \/ ImportAlias(a) PROVE requests'[r] = requests[r]
  BY <1>6 DEF DeleteAlias, ImportAlias, profileVars
<1>7. ASSUME UNCHANGED creatorVars PROVE requests'[r] = requests[r]
  BY <1>7 DEF creatorVars, profileVars
<1>8. QED
  BY Steps, <1>1, <1>2, <1>3, <1>4, <1>5, <1>6, <1>7, StartTyped, AliasCallTyped DEF Untouched

LEMMA MemoryStep == ASSUME EvidenceConstantsOK, EvidenceTyped, Memory, [EvidenceNext]_creatorVars PROVE Memory'
<1>1. EvidenceTyped' /\ Stamps'
  BY TypedStep, MemoryLasts DEF Memory
<1>2. ASSUME NEW v \in Callers, NEW call, doing'[v] = call,
             call \in ProfileCall \ {Nothing}, call.kind # "create"
      PROVE  Remembers(call.profile, call.rev, call.saw)'
  <2>1. call.profile \in Profiles
    BY <1>1, <1>2 DEF EvidenceTyped, CallsNamed, EvidenceNamed
  <2>2. CASE doing'[v] = doing[v]
    BY <1>2, <2>1, <2>2, MemoryLasts DEF Memory, CallsRemember
  <2>3. CASE /\ doing[v] \in ProfileCall \ {Nothing}
             /\ doing'[v].kind = doing[v].kind /\ doing'[v].profile = doing[v].profile
             /\ doing'[v].rev = doing[v].rev /\ doing'[v].saw = doing[v].saw
    <3>1. Remembers(call.profile, call.rev, call.saw)
      BY <1>2, <2>3 DEF Memory, CallsRemember
    <3>2. QED
      BY <2>1, <3>1, MemoryLasts DEF Memory
  <2>4. ASSUME NEW kind, NEW p \in Profiles \cup {Nothing}, NEW row,
               doing'[v] = Call(kind, p, row), UNCHANGED <<profiles, stamp>>,
               kind # "create" => p \in Profiles /\ profiles[p] # Nothing
        PROVE  Remembers(call.profile, call.rev, call.saw)'
    <3>1. /\ call.kind = kind /\ call.profile = p
          /\ kind # "create" => call.rev = profiles[p].rev /\ call.saw = Content(p)
      BY <1>2, <2>4 DEF Call
    <3>2. p \in Profiles /\ profiles[p] # Nothing /\ call.rev = profiles[p].rev /\ call.saw = Content(p)
      BY <1>2, <2>4, <3>1
    <3>3. profiles[p].rev \in Nat /\ profiles[p].rev <= stamp
      BY <3>2 DEF EvidenceTyped, RowsTyped, Profile, Memory, Stamps
    <3>4. Remembers(call.profile, call.rev, call.saw)
      BY <3>1, <3>2, <3>3 DEF Remembers
    <3>5. QED
      BY <2>1, <3>4, MemoryLasts DEF Memory
  <2>5. QED
    BY <1>2, <2>2, <2>3, <2>4, CallsAfter DEF CallKept
<1>3. CallsRemember'
  BY <1>2 DEF CallsRemember
<1>4. ASSUME NEW r \in Requests, NEW q, requests'[r] = q, q # Nothing, q.kind # "create"
      PROVE  Remembers(q.profile, q.expects, q.saw)'
  <2>1. q.profile \in Profiles
    BY <1>1, <1>4 DEF EvidenceTyped, RowsTyped, Asked
  <2>2. CASE requests'[r] = requests[r]
    BY <1>4, <2>1, <2>2, MemoryLasts DEF Memory, RequestsRemember
  <2>3. CASE requests[r] # Nothing /\ requests'[r] = [requests[r] EXCEPT !.open = FALSE]
    <3>1. requests[r] \in Asked
      BY <2>3 DEF EvidenceTyped, RowsTyped
    <3>2. /\ q.kind = requests[r].kind /\ q.profile = requests[r].profile
          /\ q.expects = requests[r].expects /\ q.saw = requests[r].saw
      BY <1>4, <2>3, <3>1 DEF Asked
    <3>3. Remembers(q.profile, q.expects, q.saw)
      BY <1>4, <2>3, <3>2 DEF Memory, RequestsRemember
    <3>4. QED
      BY <2>1, <3>3, MemoryLasts DEF Memory
  <2>4. ASSUME NEW w \in Callers, NEW p \in Targets(doing[w]),
               doing[w] \in ProfileCall \ {Nothing}, requests'[r] = Raised(doing[w], p)
        PROVE  Remembers(q.profile, q.expects, q.saw)'
    <3>1. /\ q.kind = doing[w].kind /\ q.profile = p
          /\ q.expects = doing[w].rev /\ q.saw = doing[w].saw
      BY <1>4, <2>4 DEF Raised
    <3>2. p = doing[w].profile
      BY <1>4, <3>1 DEF Targets
    <3>3. Remembers(q.profile, q.expects, q.saw)
      BY <1>4, <2>4, <3>1, <3>2 DEF Memory, CallsRemember
    <3>4. QED
      BY <2>1, <3>3, MemoryLasts DEF Memory
  <2>5. QED
    BY <2>2, <2>3, <2>4, RequestsAfter
<1>5. RequestsRemember'
  BY <1>4 DEF RequestsRemember
<1>6. QED
  BY <1>1, <1>3, <1>5 DEF Memory

LEMMA ApprovedStep ==
    ASSUME EvidenceConstantsOK, EvidenceTyped, Memory, EvidenceNext,
           NEW r \in Requests, requests[r] # Nothing, requests[r].kind # "create",
           requests'[r] # requests[r], profiles' # profiles
    PROVE  Content(requests[r].profile) = requests[r].saw
<1>1. ApproveProfile(r)
  <2>1. \/ \E w \in Callers : Request(w)
        \/ \E x \in Requests : ApproveProfile(x) \/ Dismiss(x)
    <3>1. ASSUME NEW w \in Callers, JudgeTier(w) \/ WriteProfile(w) \/ WriteAlias(w) \/ GiveUp(w)
          PROVE  requests' = requests
      BY <3>1 DEF JudgeTier, WriteProfile, WriteAlias, GiveUp
    <3>2. ASSUME NEW c \in Creators, SetTier(c) PROVE requests' = requests
      BY <3>2 DEF SetTier
    <3>3. ASSUME NEW s \in Sources, DeleteSource(s) \/ \E c \in Creators : AddSource(s, c)
          PROVE  requests' = requests
      BY <3>3 DEF DeleteSource, AddSource, profileVars
    <3>4. ASSUME NEW a \in Aliases, DeleteAlias(a) \/ ImportAlias(a) PROVE requests' = requests
      BY <3>4 DEF DeleteAlias, ImportAlias, profileVars
    <3>5. ASSUME UNCHANGED creatorVars PROVE requests' = requests
      BY <3>5 DEF creatorVars, profileVars
    <3>6. QED
      BY Steps, <3>1, <3>2, <3>3, <3>4, <3>5, StartTyped, AliasCallTyped DEF Untouched
  <2>2. \A w \in Callers : ~Request(w)
    BY DEF Request
  <2>3. \A x \in Requests : ~Dismiss(x)
    BY DEF Dismiss
  <2>4. PICK x \in Requests : ApproveProfile(x)
    BY <2>1, <2>2, <2>3
  <2>5. x = r
    BY <2>4 DEF ApproveProfile, EvidenceTyped, RowsTyped
  <2>6. QED
    BY <2>4, <2>5
<1>2. profiles[requests[r].profile] # Nothing /\ profiles[requests[r].profile].rev = requests[r].expects
  BY <1>1 DEF ApproveProfile, AsRequested
<1>3. QED
  BY <1>2 DEF Memory, RequestsRemember, Remembers

(***************************************************************************)
(* Citations: what a call is about to write was looked up before, and      *)
(* neither sources nor aliases change hands.                               *)
(***************************************************************************)
Owned(c, s) == s # Nothing => sources[s] \in {c, Gone}

AliasesCite ==
    \A a \in Aliases :
        There(a) =>
            /\ Exists(aliases[a].cites)
            /\ Distinct(a, aliases[a])
            /\ aliases[a].imported \/ Owned(aliases[a].owner, aliases[a].cites)

(* The alias that a call is to change existed; if it still does, it has    *)
(* the owner the call knows.                                               *)
Has(a, c) == aliases[a] # Nothing /\ (There(a) => aliases[a].owner = c)

MergesCite ==
    \A w \in Callers :
        Stands(w, "merge") => \E c \in Creators :
            Has(doing[w].alias, c) /\ (doing[w].cites # "kept" => Owned(c, doing[w].cites))

RowCites(call) ==
    /\ call.row.imported \/ Owned(call.row.owner, call.row.cites)
    /\ call.alias # Nothing => Has(call.alias, call.row.owner)

WritesCite == \A w \in Callers : Stands(w, "alias") => RowCites(doing[w])

Citing == AliasesCite /\ MergesCite /\ WritesCite

(* What no step does to sources and aliases.                               *)
SourcesKept ==
    \A s \in Sources, c \in Creators :
        sources[s] \in {c, Gone} => sources'[s] \in {c, Gone}

AliasesKept ==
    \A a \in Aliases :
        aliases[a] # Nothing =>
            /\ aliases'[a] # Nothing
            /\ aliases'[a] # Gone => There(a) /\ aliases'[a].owner = aliases[a].owner

LEMMA OwnedLasts ==
    ASSUME SourcesKept, NEW c \in Creators, NEW s \in Sources \cup {Nothing}, Owned(c, s)
    PROVE  Owned(c, s)'
BY DEF SourcesKept, Owned

LEMMA HasLasts ==
    ASSUME AliasesKept, NEW a \in Aliases, NEW c, Has(a, c)
    PROVE  Has(a, c)'
BY DEF AliasesKept, Has, There

(* A call that stays where it is keeps what it knows.                      *)
LEMMA CallsCiteOn ==
    ASSUME EvidenceTyped, Citing, SourcesKept, AliasesKept, NEW v \in Callers, doing'[v] = doing[v]
    PROVE  /\ Stands(v, "merge")' => \E c \in Creators :
                 Has(doing[v].alias, c)' /\ (doing[v].cites # "kept" => Owned(c, doing[v].cites)')
           /\ Stands(v, "alias")' => RowCites(doing[v])'
<1>1. CASE Stands(v, "merge")
  <2>1. doing[v] \in MergeCall /\ ~Stands(v, "alias")'
    BY <1>1, EvidenceCallAt DEF Stands
  <2>2. PICK call : call = doing[v]
    OBVIOUS
  <2>3. PICK c \in Creators : Has(call.alias, c) /\ (call.cites # "kept" => Owned(c, call.cites))
    BY <1>1, <2>2 DEF Citing, MergesCite
  <2>4. call.alias \in Aliases /\ (call.cites # "kept" => call.cites \in Sources \cup {Nothing})
    BY <2>1, <2>2 DEF MergeCall
  <2>5. Has(call.alias, c)' /\ (call.cites # "kept" => Owned(c, call.cites)')
    BY <2>3, <2>4, OwnedLasts, HasLasts
  <2>6. doing'[v] = call
    BY <2>2
  <2>7. QED
    BY <2>1, <2>3, <2>5, <2>6
<1>2. CASE Stands(v, "alias")
  <2>1. doing[v] \in AliasCall /\ ~Stands(v, "merge")'
    BY <1>2, EvidenceCallAt DEF Stands
  <2>2. PICK call : call = doing[v]
    OBVIOUS
  <2>3. call.row \in AliasRow /\ call.alias \in Aliases \cup {Nothing}
    BY <2>1, <2>2 DEF AliasCall
  <2>4. /\ call.row.imported \/ Owned(call.row.owner, call.row.cites)
        /\ call.alias # Nothing => Has(call.alias, call.row.owner)
    BY <1>2, <2>2 DEF Citing, WritesCite, RowCites
  <2>5. /\ call.row.imported \/ Owned(call.row.owner, call.row.cites)'
        /\ call.alias # Nothing => Has(call.alias, call.row.owner)'
    BY <2>3, <2>4, OwnedLasts, HasLasts DEF AliasRow
  <2>6. doing'[v] = call
    BY <2>2
  <2>7. QED
    BY <2>1, <2>5, <2>6 DEF RowCites
<1>3. CASE ~Stands(v, "merge") /\ ~Stands(v, "alias")
  BY <1>3 DEF Stands
<1>4. QED
  BY <1>1, <1>2, <1>3

LEMMA CitingFrom ==
    ASSUME EvidenceTyped, Citing, SourcesKept, AliasesKept, AliasesCite', NEW w \in Callers,
           \A v \in Callers \ {w} : doing'[v] = doing[v],
           Stands(w, "merge")' => \E c \in Creators :
               Has(doing[w].alias, c)' /\ (doing'[w].cites # "kept" => Owned(c, doing[w].cites)'),
           Stands(w, "alias")' => RowCites(doing[w])'
    PROVE  Citing'
<1>1. ASSUME NEW v \in Callers \ {w}
      PROVE  /\ Stands(v, "merge")' => \E c \in Creators :
                   Has(doing[v].alias, c)' /\ (doing'[v].cites # "kept" => Owned(c, doing[v].cites)')
             /\ Stands(v, "alias")' => RowCites(doing[v])'
  BY CallsCiteOn
<1>2. MergesCite'
  BY <1>1 DEF MergesCite
<1>3. WritesCite'
  BY <1>1 DEF WritesCite
<1>4. QED
  BY <1>2, <1>3 DEF Citing

LEMMA CitingByRows ==
    ASSUME EvidenceTyped, Citing, SourcesKept, AliasesKept, AliasesCite', UNCHANGED doing
    PROVE  Citing'
<1>1. ASSUME NEW v \in Callers
      PROVE  /\ Stands(v, "merge")' => \E c \in Creators :
                   Has(doing[v].alias, c)' /\ (doing'[v].cites # "kept" => Owned(c, doing[v].cites)')
             /\ Stands(v, "alias")' => RowCites(doing[v])'
  BY CallsCiteOn
<1>2. MergesCite'
  BY <1>1 DEF MergesCite
<1>3. WritesCite'
  BY <1>1 DEF WritesCite
<1>4. QED
  BY <1>2, <1>3 DEF Citing

(* Nothing is written to sources and aliases.                              *)
LEMMA RowsKept ==
    ASSUME EvidenceTyped, AliasesCite, UNCHANGED evidenceVars
    PROVE  SourcesKept /\ AliasesKept /\ AliasesCite'
<1>1. UNCHANGED <<sources, aliases>>
  BY DEF evidenceVars
<1>2. SourcesKept
  BY <1>1 DEF SourcesKept
<1>3. AliasesKept
  BY <1>1 DEF AliasesKept, There
<1>4. AliasesCite'
  BY <1>1 DEF AliasesCite, There, Exists, Distinct, Owned
<1>5. QED
  BY <1>2, <1>3, <1>4

LEMMA CitingByOthers ==
    ASSUME EvidenceTyped, Citing, UNCHANGED evidenceVars, NEW w \in Callers, NEW call,
           doing' = [doing EXCEPT ![w] = call],
           call = Nothing \/ call.step \notin {"merge", "alias"}
    PROVE  Citing'
<1>1. SourcesKept /\ AliasesKept /\ AliasesCite'
  BY RowsKept DEF Citing
<1>2. \A v \in Callers : doing'[v] = IF v = w THEN call ELSE doing[v]
  BY DEF EvidenceTyped, EvidenceCallsTyped
<1>3. ~Stands(w, "merge")' /\ ~Stands(w, "alias")'
  BY <1>2 DEF Stands
<1>4. QED
  BY <1>1, <1>2, <1>3, CitingFrom

LEMMA CitingEnd ==
    ASSUME EvidenceTyped, Citing, UNCHANGED evidenceVars, NEW w \in Callers, End(w)
    PROVE  Citing'
BY CitingByOthers DEF End, Continue

LEMMA CitingPost ==
    ASSUME EvidenceConstantsOK, EvidenceTyped, Citing, NEW w \in Callers, PostAlias(w)
    PROVE  Citing'
<1>1. PICK c \in group.creators, n \in AliasNames, s \in Sources \cup {Nothing} :
          /\ MayCite(c, s)
          /\ Begin(w, "evidence", [step |-> "alias", alias |-> Nothing, row |-> Alias(c, n, s, FALSE)])
  BY DEF PostAlias
<1> DEFINE call == [step |-> "alias", alias |-> Nothing, row |-> Alias(c, n, s, FALSE)]
<1>2. UNCHANGED evidenceVars
  BY DEF PostAlias
<1>3. SourcesKept /\ AliasesKept /\ AliasesCite'
  BY <1>2, RowsKept DEF Citing
<1>4. \A v \in Callers : doing'[v] = IF v = w THEN call ELSE doing[v]
  BY <1>1 DEF Begin, EvidenceTyped, EvidenceCallsTyped
<1>5. ~Stands(w, "merge")'
  BY <1>4 DEF Stands
<1>6. Owned(c, s)'
  BY <1>1, <1>2 DEF MayCite, Owned, evidenceVars
<1>7. call.row.owner = c /\ call.row.cites = s /\ call.alias = Nothing
  BY DEF Alias
<1>8. RowCites(doing[w])'
  BY <1>4, <1>6, <1>7 DEF RowCites
<1>9. QED
  BY <1>3, <1>4, <1>5, <1>8, CitingFrom

LEMMA CitingPatch ==
    ASSUME EvidenceConstantsOK, EvidenceTyped, Citing, NEW w \in Callers, PatchAlias(w)
    PROVE  Citing'
<1>1. PICK a \in Aliases, s \in Sources \cup {Nothing, "kept"} :
          /\ There(a)
          /\ IF s = "kept" THEN TRUE ELSE MayCite(aliases[a].owner, s)
          /\ Begin(w, "evidence", [step |-> "merge", alias |-> a, cites |-> s])
  BY DEF PatchAlias
<1> DEFINE call == [step |-> "merge", alias |-> a, cites |-> s]
<1>2. UNCHANGED evidenceVars
  BY DEF PatchAlias
<1>3. SourcesKept /\ AliasesKept /\ AliasesCite'
  BY <1>2, RowsKept DEF Citing
<1>4. \A v \in Callers : doing'[v] = IF v = w THEN call ELSE doing[v]
  BY <1>1 DEF Begin, EvidenceTyped, EvidenceCallsTyped
<1>5. ~Stands(w, "alias")'
  BY <1>4 DEF Stands
<1>6. PICK c \in Creators : c = aliases[a].owner
  BY <1>1 DEF There, EvidenceTyped, RowsTyped, AliasRow
<1>7. Has(a, c)' /\ (s # "kept" => Owned(c, s)')
  BY <1>1, <1>2, <1>6 DEF There, Has, MayCite, Owned, evidenceVars
<1>8. doing'[w].alias = a /\ doing'[w].cites = s
  BY <1>4
<1>9. Has(doing[w].alias, c)' /\ (doing'[w].cites # "kept" => Owned(c, doing[w].cites)')
  BY <1>7, <1>8
<1>10. QED
  BY <1>3, <1>4, <1>5, <1>9, CitingFrom

LEMMA CitingRead ==
    ASSUME EvidenceConstantsOK, EvidenceTyped, Citing, NEW w \in Callers, ReadAlias(w)
    PROVE  Citing'
<1>1. Stands(w, "merge") /\ UNCHANGED evidenceVars
  BY DEF ReadAlias
<1>2. CASE End(w)
  BY <1>1, <1>2, CitingEnd
<1>3. CASE ~End(w)
  <2>1. PICK old : old = doing[w]
    OBVIOUS
  <2>2. old \in MergeCall
    BY <1>1, <2>1, EvidenceCallAt
  <2>3. PICK c \in Creators : Has(old.alias, c) /\ (old.cites # "kept" => Owned(c, old.cites))
    BY <1>1, <2>1 DEF Citing, MergesCite
  <2>4. There(old.alias) /\ \E n \in AliasNames :
            Continue(w, [step |-> "alias", alias |-> old.alias,
                         row |-> [aliases[old.alias] EXCEPT
                                     !.cites = IF old.cites = "kept" THEN @ ELSE old.cites, !.name = n]])
    BY <1>3, <2>1 DEF ReadAlias
  <2>5. PICK row : \E n \in AliasNames :
            /\ row = [aliases[old.alias] EXCEPT
                         !.cites = IF old.cites = "kept" THEN @ ELSE old.cites, !.name = n]
            /\ Continue(w, [step |-> "alias", alias |-> old.alias, row |-> row])
    BY <2>4
  <2>6. aliases[old.alias] \in AliasRow /\ old.alias \in Aliases
    BY <2>2, <2>4 DEF MergeCall, There, EvidenceTyped, RowsTyped
  <2>7. /\ row.owner = aliases[old.alias].owner /\ row.imported = aliases[old.alias].imported
        /\ row.cites = IF old.cites = "kept" THEN aliases[old.alias].cites ELSE old.cites
    BY <2>5, <2>6 DEF AliasRow
  <2>8. row.owner = c
    BY <2>3, <2>4, <2>7 DEF Has
  <2>9. row.imported \/ Owned(c, row.cites)
    BY <2>3, <2>4, <2>6, <2>7, <2>8 DEF Citing, AliasesCite
  <2>10. /\ \A v \in Callers \ {w} : doing'[v] = doing[v]
         /\ doing'[w] = [step |-> "alias", alias |-> old.alias, row |-> row]
    BY <2>5 DEF Continue, EvidenceTyped, EvidenceCallsTyped
  <2>11. (row.imported \/ Owned(c, row.cites)') /\ Has(old.alias, c)'
    BY <1>1, <2>3, <2>9 DEF evidenceVars, Owned, Has, There
  <2>12. /\ ~Stands(w, "merge")'
         /\ doing'[w].alias = old.alias /\ doing'[w].row = row
    BY <2>10 DEF Stands
  <2>13. RowCites(doing[w])'
    BY <2>8, <2>11, <2>12 DEF RowCites
  <2>14. SourcesKept /\ AliasesKept /\ AliasesCite'
    BY <1>1, RowsKept DEF Citing
  <2>15. QED
    BY <2>10, <2>12, <2>13, <2>14, CitingFrom
<1>4. QED
  BY <1>2, <1>3

(* A row whose owner and name are as they were is as distinct as it was.   *)
LEMMA DistinctLasts ==
    ASSUME NEW a, NEW row, Distinct(a, row),
           \A b \in Aliases : There(b)' => There(b) /\ aliases'[b].owner = aliases[b].owner
                                                    /\ aliases'[b].name = aliases[b].name
    PROVE  Distinct(a, row)'
BY DEF Distinct

LEMMA CitingSource ==
    ASSUME EvidenceConstantsOK, EvidenceTyped, Citing, NEW s \in Sources, NEW c \in Creators, AddSource(s, c)
    PROVE  Citing'
<1>1. /\ sources[s] = Nothing /\ sources' = [sources EXCEPT ![s] = c]
      /\ UNCHANGED <<aliases, doing>>
  BY DEF AddSource
<1>2. \A x \in Sources : sources[x] \in Creators \cup {Gone} => sources'[x] = sources[x]
  BY <1>1 DEF EvidenceConstantsOK, EvidenceTyped, RowsTyped
<1>3. SourcesKept
  BY <1>2 DEF SourcesKept
<1>4. AliasesKept
  BY <1>1 DEF AliasesKept, There
<1>5. ASSUME NEW a \in Aliases, There(a)'
      PROVE  /\ Exists(aliases[a].cites)'
             /\ Distinct(a, aliases[a])'
             /\ aliases'[a].imported \/ Owned(aliases[a].owner, aliases[a].cites)'
  <2>1. There(a) /\ aliases'[a] = aliases[a]
    BY <1>1, <1>5 DEF There
  <2>2. PICK row : row = aliases[a]
    OBVIOUS
  <2>3. row \in AliasRow
    BY <2>1, <2>2 DEF There, EvidenceTyped, RowsTyped
  <2>4. Exists(row.cites) /\ Distinct(a, row) /\ (row.imported \/ Owned(row.owner, row.cites))
    BY <2>1, <2>2 DEF Citing, AliasesCite
  <2>5. Exists(row.cites)' /\ (row.imported \/ Owned(row.owner, row.cites)')
    BY <1>2, <2>3, <2>4 DEF Exists, Owned, AliasRow
  <2>6. Distinct(a, row)'
    BY <1>1, <2>4, DistinctLasts DEF There
  <2>7. QED
    BY <2>1, <2>2, <2>5, <2>6
<1>6. AliasesCite'
  BY <1>5 DEF AliasesCite
<1>7. QED
  BY <1>1, <1>3, <1>4, <1>6, CitingByRows

LEMMA CitingUnsource ==
    ASSUME EvidenceConstantsOK, EvidenceTyped, Citing, NEW s \in Sources, DeleteSource(s)
    PROVE  Citing'
<1>1. /\ sources[s] \in Creators /\ sources' = [sources EXCEPT ![s] = Gone]
      /\ aliases' = [a \in Aliases |->
             IF There(a) /\ aliases[a].cites = s THEN [aliases[a] EXCEPT !.cites = Nothing] ELSE aliases[a]]
      /\ UNCHANGED doing
  BY DEF DeleteSource
<1>2. SourcesKept
  BY <1>1 DEF SourcesKept, EvidenceTyped, RowsTyped
<1>3. ASSUME NEW a \in Aliases
      PROVE  /\ aliases'[a] \notin {Nothing, Gone} <=> There(a)
             /\ There(a) => /\ aliases'[a].owner = aliases[a].owner
                            /\ aliases'[a].name = aliases[a].name
                            /\ aliases'[a].imported = aliases[a].imported
                            /\ aliases'[a].cites = IF aliases[a].cites = s THEN Nothing ELSE aliases[a].cites
             /\ ~There(a) => aliases'[a] = aliases[a]
  <2>1. CASE There(a) /\ aliases[a].cites = s
    <3>1. aliases[a] \in AliasRow
      BY <2>1 DEF There, EvidenceTyped, RowsTyped
    <3>2. aliases'[a] = [aliases[a] EXCEPT !.cites = Nothing]
      BY <1>1, <2>1
    <3>3. aliases'[a] \in AliasRow
      BY <3>1, <3>2 DEF AliasRow
    <3>4. QED
      BY <2>1, <3>1, <3>2, <3>3 DEF EvidenceConstantsOK, AliasRow
  <2>2. CASE ~(There(a) /\ aliases[a].cites = s)
    BY <1>1, <2>2 DEF There
  <2>3. QED
    BY <2>1, <2>2
<1>4. AliasesKept
  BY <1>3 DEF AliasesKept, There
<1>5. \A b \in Aliases : There(b)' => There(b) /\ aliases'[b].owner = aliases[b].owner
                                                /\ aliases'[b].name = aliases[b].name
  BY <1>3 DEF There
<1>6. ASSUME NEW a \in Aliases, There(a)'
      PROVE  /\ Exists(aliases[a].cites)'
             /\ Distinct(a, aliases[a])'
             /\ aliases'[a].imported \/ Owned(aliases[a].owner, aliases[a].cites)'
  <2>1. PICK old : old = aliases[a]
    OBVIOUS
  <2>2. PICK new : new = aliases'[a]
    OBVIOUS
  <2>3. /\ There(a) /\ old \in AliasRow
        /\ new.owner = old.owner /\ new.name = old.name /\ new.imported = old.imported
        /\ new.cites = IF old.cites = s THEN Nothing ELSE old.cites
    BY <1>3, <1>5, <1>6, <2>1, <2>2 DEF There, EvidenceTyped, RowsTyped
  <2>4. Exists(old.cites) /\ Distinct(a, old) /\ (old.imported \/ Owned(old.owner, old.cites))
    BY <2>1, <2>3 DEF Citing, AliasesCite
  <2>5. Exists(new.cites)' /\ (new.imported \/ Owned(new.owner, new.cites)')
    BY <1>1, <2>3, <2>4 DEF Exists, Owned, AliasRow, EvidenceTyped, RowsTyped
  <2>6. Distinct(a, old)'
    BY <1>5, <2>4, DistinctLasts
  <2>7. Distinct(a, new)'
    BY <2>3, <2>6 DEF Distinct
  <2>8. QED
    BY <2>2, <2>5, <2>7
<1>7. AliasesCite'
  BY <1>6 DEF AliasesCite
<1>8. QED
  BY <1>1, <1>2, <1>4, <1>7, CitingByRows

(* One alias is written.                                                   *)
LEMMA OneAlias ==
    ASSUME EvidenceConstantsOK, EvidenceTyped, Citing, UNCHANGED sources, NEW a \in Aliases, NEW row \in AliasRow,
           aliases' = [aliases EXCEPT ![a] = row],
           Exists(row.cites), Distinct(a, row), row.imported \/ Owned(row.owner, row.cites),
           aliases[a] # Nothing => There(a) /\ aliases[a].owner = row.owner
    PROVE  SourcesKept /\ AliasesKept /\ AliasesCite'
<1>1. SourcesKept
  BY DEF SourcesKept
<1>2. \A b \in Aliases : aliases'[b] = IF b = a THEN row ELSE aliases[b]
  BY DEF EvidenceTyped, RowsTyped
<1>3. row \notin {Nothing, Gone}
  BY DEF EvidenceConstantsOK
<1>4. AliasesKept
  BY <1>2, <1>3 DEF AliasesKept, There
<1>5. ASSUME NEW b \in Aliases, There(b)'
      PROVE  /\ Exists(aliases[b].cites)'
             /\ Distinct(b, aliases[b])'
             /\ aliases'[b].imported \/ Owned(aliases[b].owner, aliases[b].cites)'
  <2>1. CASE b = a
    <3>1. aliases'[b] = row
      BY <1>2, <2>1
    <3>2. Distinct(a, row)'
      BY <1>2 DEF Distinct, There
    <3>3. QED
      BY <2>1, <3>1, <3>2 DEF Exists, Owned
  <2>2. CASE b # a
    <3>1. aliases'[b] = aliases[b] /\ There(b)
      BY <1>2, <1>5, <2>2 DEF There
    <3>2. PICK old : old = aliases[b]
      OBVIOUS
    <3>3. Exists(old.cites) /\ Distinct(b, old) /\ (old.imported \/ Owned(old.owner, old.cites))
      BY <3>1, <3>2 DEF Citing, AliasesCite
    <3>4. <<row.owner, row.name>> # <<old.owner, old.name>>
      BY <2>2, <3>1, <3>2 DEF Distinct
    <3>5. Distinct(b, old)'
      BY <1>2, <3>3, <3>4 DEF Distinct, There
    <3>6. QED
      BY <3>1, <3>2, <3>3, <3>5 DEF Exists, Owned
  <2>3. QED
    BY <2>1, <2>2
<1>6. AliasesCite'
  BY <1>5 DEF AliasesCite
<1>7. QED
  BY <1>1, <1>4, <1>6

LEMMA CitingImport ==
    ASSUME EvidenceConstantsOK, EvidenceTyped, Citing, NEW a \in Aliases, ImportAlias(a)
    PROVE  Citing'
<1>1. PICK c \in group.creators, n \in AliasNames, s \in Sources \cup {Nothing} :
          /\ Exists(s) /\ Distinct(a, Alias(c, n, s, TRUE))
          /\ aliases' = [aliases EXCEPT ![a] = Alias(c, n, s, TRUE)]
  BY DEF ImportAlias
<1>2. c \in Creators
  BY <1>1 DEF EvidenceConstantsOK, EvidenceTyped, RowsTyped
<1>3. Alias(c, n, s, TRUE) \in AliasRow
  BY <1>2, AliasTyped
<1>4. Alias(c, n, s, TRUE).cites = s /\ Alias(c, n, s, TRUE).imported
  BY DEF Alias
<1>5. aliases[a] = Nothing /\ UNCHANGED <<sources, doing>>
  BY DEF ImportAlias
<1>6. SourcesKept /\ AliasesKept /\ AliasesCite'
  BY <1>1, <1>3, <1>4, <1>5, OneAlias
<1>7. QED
  BY <1>5, <1>6, CitingByRows

LEMMA CitingDelete ==
    ASSUME EvidenceConstantsOK, EvidenceTyped, Citing, NEW a \in Aliases, DeleteAlias(a)
    PROVE  Citing'
<1>1. /\ There(a) /\ UNCHANGED <<sources, doing>>
      /\ \A b \in Aliases : aliases'[b] = IF b = a THEN Gone ELSE aliases[b]
  BY DEF DeleteAlias, EvidenceTyped, RowsTyped
<1>2. SourcesKept
  BY <1>1 DEF SourcesKept
<1>3. AliasesKept
  BY <1>1 DEF AliasesKept, There, EvidenceConstantsOK
<1>4. \A b \in Aliases : There(b)' => There(b) /\ aliases'[b] = aliases[b]
  BY <1>1 DEF There
<1>5. ASSUME NEW b \in Aliases, There(b)'
      PROVE  /\ Exists(aliases[b].cites)'
             /\ Distinct(b, aliases[b])'
             /\ aliases'[b].imported \/ Owned(aliases[b].owner, aliases[b].cites)'
  <2>1. PICK old : old = aliases[b]
    OBVIOUS
  <2>2. There(b) /\ aliases'[b] = old
    BY <1>4, <1>5, <2>1
  <2>3. Exists(old.cites) /\ Distinct(b, old) /\ (old.imported \/ Owned(old.owner, old.cites))
    BY <2>1, <2>2 DEF Citing, AliasesCite
  <2>4. Distinct(b, old)'
    BY <1>4, <2>3, DistinctLasts
  <2>5. QED
    BY <1>1, <2>2, <2>3, <2>4 DEF Exists, Owned
<1>6. AliasesCite'
  BY <1>5 DEF AliasesCite
<1>7. QED
  BY <1>1, <1>2, <1>3, <1>6, CitingByRows

LEMMA CitingWrite ==
    ASSUME EvidenceConstantsOK, EvidenceTyped, Citing, NEW w \in Callers, WriteAlias(w)
    PROVE  Citing'
<1>1. Stands(w, "alias") /\ End(w) /\ UNCHANGED sources
  BY DEF WriteAlias
<1>2. PICK call : call = doing[w]
  OBVIOUS
<1>3. call \in AliasCall /\ RowCites(call)
  BY <1>1, <1>2, EvidenceCallAt DEF Citing, WritesCite
<1>4. PICK a \in Aliases :
          /\ IF call.alias = Nothing THEN aliases[a] = Nothing ELSE a = call.alias /\ There(a)
          /\ Exists(call.row.cites) /\ Distinct(a, call.row)
          /\ aliases' = [aliases EXCEPT ![a] = call.row]
  BY <1>2 DEF WriteAlias
<1>5. call.row \in AliasRow
  BY <1>3 DEF AliasCall
<1>6. call.row.imported \/ Owned(call.row.owner, call.row.cites)
  BY <1>3 DEF RowCites
<1>7. aliases[a] # Nothing => There(a) /\ aliases[a].owner = call.row.owner
  BY <1>3, <1>4 DEF RowCites, Has
<1>8. SourcesKept /\ AliasesKept /\ AliasesCite'
  BY <1>1, <1>4, <1>5, <1>6, <1>7, OneAlias
<1>9. /\ \A v \in Callers \ {w} : doing'[v] = doing[v]
      /\ doing'[w] = Nothing
  BY <1>1 DEF End, Continue, EvidenceTyped, EvidenceCallsTyped
<1>10. ~Stands(w, "merge")' /\ ~Stands(w, "alias")'
  BY <1>9 DEF Stands
<1>11. QED
  BY <1>8, <1>9, <1>10, CitingFrom

LEMMA CitingStep == ASSUME EvidenceConstantsOK, EvidenceTyped, Citing, [EvidenceNext]_creatorVars PROVE Citing'
<1>1. ASSUME UNCHANGED evidenceVars, UNCHANGED doing PROVE Citing'
  BY <1>1, RowsKept, CitingByRows DEF Citing
<1>2. ASSUME NEW w \in Callers, PostProfile(w) \/ PatchProfile(w) \/ DeleteProfile(w) PROVE Citing'
  <2>1. UNCHANGED evidenceVars
    BY <1>2 DEF PostProfile, PatchProfile, DeleteProfile
  <2>2. PICK k, p, row : Begin(w, "profiles", Call(k, p, row))
    BY <1>2 DEF PostProfile, PatchProfile, DeleteProfile
  <2>3. Call(k, p, row).step \notin {"merge", "alias"}
    BY DEF Call
  <2>4. QED
    BY <2>1, <2>2, <2>3, CitingByOthers DEF Begin
<1>3. ASSUME NEW w \in Callers, JudgeTier(w) PROVE Citing'
  <2>1. UNCHANGED evidenceVars /\ doing[w] \in ProfileCall
    BY <1>3, EvidenceCallAt DEF JudgeTier
  <2>2. CASE End(w)
    BY <2>1, <2>2, CitingEnd
  <2>3. CASE ~End(w)
    <3>1. PICK s \in {"request", "write"} : doing' = [doing EXCEPT ![w] = [doing[w] EXCEPT !.step = s]]
      BY <1>3, <2>3 DEF JudgeTier, Continue
    <3>2. [doing[w] EXCEPT !.step = s].step \notin {"merge", "alias"}
      BY <2>1, <3>1 DEF ProfileCall
    <3>3. QED
      BY <2>1, <3>1, <3>2, CitingByOthers
  <2>4. QED
    BY <2>2, <2>3
<1>4. ASSUME NEW w \in Callers, Request(w) \/ WriteProfile(w) \/ GiveUp(w) PROVE Citing'
  BY <1>4, CitingEnd DEF Request, WriteProfile, GiveUp
<1>5. ASSUME NEW c \in Creators, SetTier(c) PROVE Citing'
  BY <1>1, <1>5 DEF SetTier
<1>6. ASSUME NEW r \in Requests, ApproveProfile(r) \/ Dismiss(r) PROVE Citing'
  BY <1>1, <1>6 DEF ApproveProfile, Dismiss
<1>7. ASSUME UNCHANGED creatorVars PROVE Citing'
  BY <1>1, <1>7 DEF creatorVars
<1>8. QED
  BY Steps, <1>2, <1>3, <1>4, <1>5, <1>6, <1>7, CitingSource, CitingUnsource, CitingDelete,
     CitingImport, CitingPost, CitingPatch, CitingRead, CitingWrite

(***************************************************************************)
(* The inductive invariant.                                                *)
(***************************************************************************)
EvidenceInv == EvidenceTyped /\ OnePrimary /\ Direct /\ Memory /\ Citing

LEMMA EvidenceInvInit == ASSUME EvidenceConstantsOK, EvidenceInit PROVE EvidenceInv
<1>1. EvidenceTyped
  BY TypedInit
<1>2. (\A p \in Profiles : profiles[p] = Nothing) /\ (\A r \in Requests : requests[r] = Nothing)
  BY DEF EvidenceInit
<1>3. (\A a \in Aliases : ~There(a)) /\ (\A w \in Callers : doing[w] = Nothing)
  BY DEF EvidenceInit, There
<1>4. OnePrimary
  BY <1>2 DEF OnePrimary
<1>5. Direct
  BY <1>3 DEF EvidenceInit, Direct, CriticalByApproval, JudgedRight, Stands
<1>6. Memory
  BY <1>2, <1>3 DEF Memory, Stamps, RequestsRemember, CallsRemember
<1>7. Citing
  BY <1>3 DEF Citing, AliasesCite, MergesCite, WritesCite, Stands
<1>8. QED
  BY <1>1, <1>4, <1>5, <1>6, <1>7 DEF EvidenceInv

LEMMA EvidenceInvStep == ASSUME EvidenceConstantsOK, EvidenceInv, [EvidenceNext]_creatorVars PROVE EvidenceInv'
BY TypedStep, PrimaryStep, DirectStep, MemoryStep, CitingStep DEF EvidenceInv

LEMMA EvidenceInvariance == ASSUME EvidenceConstantsOK PROVE EvidenceSpec => []EvidenceInv
<1>1. EvidenceInit => EvidenceInv
  BY EvidenceInvInit
<1>2. EvidenceInv /\ [EvidenceNext]_creatorVars => EvidenceInv'
  BY EvidenceInvStep
<1>3. QED
  BY <1>1, <1>2, PTL DEF EvidenceSpec

(***************************************************************************)
(* The variables keep their types; each profile belongs to a creator and   *)
(* bears a stamp that was given; an alias cites a source that is there and *)
(* repeats no other alias of its creator.                                  *)
(***************************************************************************)
THEOREM EvidenceTypeCorrect == ASSUME EvidenceConstantsOK PROVE EvidenceSpec => []EvidenceTypeOK
<1>1. EvidenceInv => EvidenceTypeOK
  <2>1. SUFFICES ASSUME EvidenceInv PROVE EvidenceTypeOK
    OBVIOUS
  <2>2. \A p \in Profiles : profiles[p] # Nothing => profiles[p].owner \in Creators /\ profiles[p].rev \in 1 .. stamp
    BY <2>1 DEF EvidenceInv, EvidenceTyped, RowsTyped, Profile, Memory, Stamps
  <2>3. \A a \in Aliases : There(a) => Exists(aliases[a].cites) /\ Distinct(a, aliases[a])
    BY <2>1 DEF EvidenceInv, Citing, AliasesCite
  <2>4. QED
    BY <2>1, <2>2, <2>3 DEF EvidenceTypeOK, EvidenceInv, EvidenceTyped, RowsTyped
<1>2. QED
  BY <1>1, EvidenceInvariance, PTL

(***************************************************************************)
(* Whatever calls and approvals interleave, a creator has one primary      *)
(* profile at most.                                                        *)
(***************************************************************************)
THEOREM PrimariesUnique == ASSUME EvidenceConstantsOK PROVE EvidenceSpec => []OnePrimary
<1>1. EvidenceInv => OnePrimary
  BY DEF EvidenceInv
<1>2. QED
  BY <1>1, EvidenceInvariance, PTL

(***************************************************************************)
(* Nobody writes a critical creator's profile directly but a call that had *)
(* read the tier before it was raised.                                     *)
(***************************************************************************)
THEOREM CriticalApproved == ASSUME EvidenceConstantsOK PROVE EvidenceSpec => []CriticalByApproval
<1>1. EvidenceInv => CriticalByApproval
  BY DEF EvidenceInv, Direct
<1>2. QED
  BY <1>1, EvidenceInvariance, PTL

(***************************************************************************)
(* An alias that no import brought cites a source of its own creator,      *)
(* however checks, edits and deletions of both interleave.                 *)
(***************************************************************************)
THEOREM CitationsOwned == ASSUME EvidenceConstantsOK PROVE EvidenceSpec => []SourceOwned
<1>1. EvidenceInv => SourceOwned
  <2>1. SUFFICES ASSUME EvidenceInv, NEW a \in Aliases, There(a), aliases[a].cites # Nothing
                 PROVE  sources[aliases[a].cites] = aliases[a].owner \/ aliases[a].imported
    BY DEF SourceOwned
  <2>2. Exists(aliases[a].cites) /\ (aliases[a].imported \/ Owned(aliases[a].owner, aliases[a].cites))
    BY <2>1 DEF EvidenceInv, Citing, AliasesCite
  <2>3. QED
    BY <2>1, <2>2 DEF Exists, Owned, EvidenceConstantsOK
<1>2. QED
  BY <1>1, EvidenceInvariance, PTL

(***************************************************************************)
(* What an approval changes is, at that instant, what the requester saw.   *)
(***************************************************************************)
Approving ==
    \A r \in Requests :
        /\ requests[r] # Nothing /\ requests[r].kind # "create"
        /\ requests'[r] # requests[r] /\ profiles' # profiles
        => Content(requests[r].profile) = requests[r].saw

THEOREM ApprovalsAsSeen == ASSUME EvidenceConstantsOK PROVE EvidenceSpec => ApprovedAsSeen
<1>1. EvidenceInv /\ [EvidenceNext]_creatorVars => [Approving]_creatorVars
  BY ApprovedStep DEF EvidenceInv, Approving
<1>2. ApprovedAsSeen <=> [][Approving]_creatorVars
  BY PTL DEF ApprovedAsSeen, Approving
<1>3. QED
  BY <1>1, <1>2, EvidenceInvariance, PTL DEF EvidenceSpec
=============================================================================
