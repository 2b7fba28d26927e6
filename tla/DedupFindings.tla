---------------------------- MODULE DedupFindings ----------------------------
(***************************************************************************)
(* What biometric deduplication finds: DedupEngine compares the photos that  *)
(* were uploaded for an RDP, its findings are read and stored, the RDP goes   *)
(* on or waits for a review, a clean RDP leaves the affected households out,  *)
(* and the pages of households and individuals show the results.              *)
(***************************************************************************)
EXTENDS Naturals, FiniteSets, Sequences

CONSTANTS
  Individuals,   \* those of the program and those of others
  Households,    \* the households of the program
  house,         \* the household of an individual, or NoHousehold
  Strangers,     \* individuals of another program
  NoOne,         \* no related individual
  Readers,       \* the callbacks and jobs that read a result
  MaxRdps, MaxFindings, MaxEdits   \* bounds; an RDP after the first has at most one finding

FindingsAssumption ==
  /\ house \in [Individuals -> Households \cup {NoOne}]
  /\ Strangers \subseteq {i \in Individuals : house[i] = NoOne}
  /\ NoOne \notin Individuals \cup Households
  /\ MaxRdps \in Nat \ {0} /\ MaxFindings \in Nat \ {0} /\ MaxEdits \in Nat

Rdps == 1..MaxRdps

(* One of the image issues, a failure of DedupEngine, and a code that is not *)
(* one of FindingStatusCode.                                                  *)
Image == "NO_FACE_DETECTED"
Affecting == {"DUPLICATE", Image}
SystemErrors == {"GENERIC_ERROR"}
Codes == Affecting \cup SystemErrors \cup {"unknown"}

VARIABLES
  rdp,       \* the RDPs: status, selection, operation, limit, findings
  set,       \* their sets in DedupEngine: state, photos and findings
  reader,    \* the results that were read and are not stored yet
  photo,     \* how often the photo of an individual was changed
  removed    \* the households that were pushed

vars == <<rdp, set, reader, photo, removed>>

Members(H) == {i \in Individuals : house[i] \in H}

NoRdp == [status |-> "none", sel |-> {}, op |-> "none", limit |-> 0, findings |-> {}, clean |-> FALSE]
NoSet == [state |-> "none", photos |-> <<>>, findings |-> {}]
Idle  == [rdp |-> 0, findings |-> {}]

Init ==
  /\ rdp = [r \in Rdps |-> NoRdp] /\ set = [r \in Rdps |-> NoSet]
  /\ reader = [k \in Readers |-> Idle]
  /\ photo = [i \in Individuals |-> 0] /\ removed = {}

Created == {r \in Rdps : rdp[r].status # "none"}
Open == {r \in Rdps : rdp[r].status \in {"PENDING", "REVIEW_PENDING", "PUSH_PENDING"}}
NextRdp == Cardinality(Created) + 1

NewRdp(H, limit, clean) == [NoRdp EXCEPT !.status = "PENDING", !.sel = H, !.op = "PENDING",
                                         !.limit = limit, !.clean = clean]

-----------------------------------------------------------------------------
(* The operation *)

CreateRdp(H, limit) ==
  /\ Open = {} /\ NextRdp \in Rdps /\ H # {} /\ H \cap removed = {}
  /\ rdp' = [rdp EXCEPT ![NextRdp] = NewRdp(H, limit, FALSE)]
  /\ UNCHANGED <<set, reader, photo, removed>>

(* Claimed: the photos of the members are uploaded unless they were, and the *)
(* set is processed unless it is or was.                                      *)
Run(r) ==
  /\ rdp[r].status = "PENDING" /\ rdp[r].op \in {"PENDING", "FAILURE"}
  /\ rdp' = [rdp EXCEPT ![r].op = "RUNNING"]
  /\ set' = [set EXCEPT ![r] =
       CASE @.state = "none"   -> [state |-> "processing", findings |-> {},
                                   photos |-> [i \in Members(rdp[r].sel) |-> photo[i]]]
         [] @.state = "failed" -> [@ EXCEPT !.state = "processing"]
         [] OTHER              -> @]
  /\ UNCHANGED <<reader, photo, removed>>

(* A remote call fails before anything was uploaded, or after. *)
RunFails(r, uploaded) ==
  /\ rdp[r].status = "PENDING" /\ rdp[r].op \in {"PENDING", "FAILURE"} /\ set[r].state = "none"
  /\ rdp' = [rdp EXCEPT ![r].op = "FAILURE"]
  /\ set' = IF uploaded
            THEN [set EXCEPT ![r] = [state |-> "failed", findings |-> {},
                                     photos |-> [i \in Members(rdp[r].sel) |-> photo[i]]]]
            ELSE set
  /\ UNCHANGED <<reader, photo, removed>>

(* What DedupEngine may find: a pair of photos, one of them of the RDP, an   *)
(* issue of a photo, an error of its own, or what is not understood.          *)
Finding == [code : Codes, first : Individuals, second : Individuals \cup {NoOne}]

Pair(i, j) == [code |-> "DUPLICATE", first |-> i, second |-> j]
Alone(code, i) == [code |-> code, first |-> i, second |-> NoOne]

MayFind(r) ==
  LET mine == Members(rdp[r].sel)
      good == {Pair(i, j) : i \in mine, j \in Individuals} \cup {Pair(j, i) : i \in mine, j \in Individuals \ mine}
                \cup {Alone(Image, i) : i \in mine}
  IN  {{f, g} : f, g \in good} \cup {{}}
        \cup {{Alone(code, i)} : code \in Codes \ Affecting, i \in mine}

EngineFinds(r, F) ==
  /\ set[r].state = "processing"
  /\ Cardinality(F) <= (IF r = 1 THEN MaxFindings ELSE 1) /\ \A f \in F : f.first # f.second
  /\ set' = [set EXCEPT ![r].state = "done", ![r].findings = F]
  /\ UNCHANGED <<rdp, reader, photo, removed>>

EngineFails(r) ==
  /\ set[r].state = "processing"
  /\ set' = [set EXCEPT ![r].state = "failed"]
  /\ UNCHANGED <<rdp, reader, photo, removed>>

(* sync_biometric_deduplication_result *)
SyncFailed(r) ==
  /\ rdp[r].op = "RUNNING" /\ set[r].state = "failed"
  /\ rdp' = [rdp EXCEPT ![r].op = "FAILURE"]
  /\ UNCHANGED <<set, reader, photo, removed>>

SyncRead(k, r) ==
  /\ reader[k] = Idle /\ rdp[r].op = "RUNNING" /\ set[r].state = "done"
  /\ reader' = [reader EXCEPT ![k] = [rdp |-> r, findings |-> set[r].findings]]
  /\ UNCHANGED <<rdp, set, photo, removed>>

(* _build_biometric_findings: statuses and the first individual are checked. *)
Parsable(r, F) == \A f \in F : f.code # "unknown" /\ f.first \in Members(rdp[r].sel)

(* The related individual is kept if it is one of the program. *)
Built(F) == {[f EXCEPT !.second = IF @ \in Individuals \ Strangers THEN @ ELSE NoOne] : f \in F}

\* Mutant of SyncFinish: it is not asked for again whether the operation runs.
SyncFinishBlind(k, counted) ==
  LET r == reader[k].rdp  F == reader[k].findings IN
  /\ reader[k] # Idle
  /\ rdp' = IF counted /\ Parsable(r, F) /\ \A f \in F : f.code \notin SystemErrors
            THEN [rdp EXCEPT ![r].op = "SUCCESS", ![r].findings = Built(F)]
            ELSE [rdp EXCEPT ![r].op = "FAILURE"]
  /\ reader' = [reader EXCEPT ![k] = Idle]
  /\ UNCHANGED <<set, photo, removed>>

(* The pages may not add up to findings_count; DedupEngine may have erred.   *)
(* Another reader may have been faster.                                       *)
SyncFinish(k, counted) ==
  LET r == reader[k].rdp  F == reader[k].findings IN
  /\ reader[k] # Idle
  /\ rdp' = IF rdp[r].op # "RUNNING" THEN rdp
            ELSE IF counted /\ Parsable(r, F) /\ \A f \in F : f.code \notin SystemErrors
            THEN [rdp EXCEPT ![r].op = "SUCCESS", ![r].findings = Built(F)]
            ELSE [rdp EXCEPT ![r].op = "FAILURE"]
  /\ reader' = [reader EXCEPT ![k] = Idle]
  /\ UNCHANGED <<set, photo, removed>>

-----------------------------------------------------------------------------
(* What follows from the findings *)

FindingsCount(r) == Cardinality({f \in rdp[r].findings : f.code \in Affecting})

ThresholdExceeded(r) == FindingsCount(r) > rdp[r].limit

Evaluate(r) ==
  /\ rdp[r].status = "PENDING" /\ rdp[r].op = "SUCCESS" /\ Members(rdp[r].sel) # {}
  /\ rdp' = [rdp EXCEPT ![r].status = IF ThresholdExceeded(r) THEN "REVIEW_PENDING" ELSE "PUSH_PENDING"]
  /\ UNCHANGED <<set, reader, photo, removed>>

ReviewPush(r) ==
  /\ rdp[r].status = "REVIEW_PENDING"
  /\ rdp' = [rdp EXCEPT ![r].status = "PUSH_PENDING"]
  /\ UNCHANGED <<set, reader, photo, removed>>

Cancel(r) ==
  /\ rdp[r].status = "REVIEW_PENDING" \/ (rdp[r].status = "PENDING" /\ rdp[r].op \in {"FAILURE", "SUCCESS"})
  /\ rdp' = [rdp EXCEPT ![r].status = "CANCELLED"]
  /\ UNCHANGED <<set, reader, photo, removed>>

(* qs_biometric_affected_individuals: members on either side of a finding. *)
Affected(r) ==
  {i \in Members(rdp[r].sel) :
     \E f \in rdp[r].findings : f.code \in Affecting /\ i \in {f.first, f.second}}

CleanSelection(r) == rdp[r].sel \ {house[i] : i \in Affected(r)}

CreateClean(r) ==
  /\ rdp[r].status = "REVIEW_PENDING" /\ rdp[r].op = "SUCCESS" /\ set[r].state = "done"
  /\ NextRdp \in Rdps /\ CleanSelection(r) # {}
  /\ rdp' = [rdp EXCEPT ![r].status = "CANCELLED", ![NextRdp] = NewRdp(CleanSelection(r), 0, TRUE)]
  /\ UNCHANGED <<set, reader, photo, removed>>

(* HOPE has the RDP; its beneficiaries are removed. *)
Pushed(r) ==
  /\ rdp[r].status = "PUSH_PENDING"
  /\ rdp' = [rdp EXCEPT ![r].status = "SUCCESS"]
  /\ removed' = removed \cup rdp[r].sel
  /\ UNCHANGED <<set, reader, photo>>

(* The photo of an individual that is not removed is changed on its page. *)
EditPhoto(i) ==
  /\ i \notin Strangers /\ house[i] \notin removed /\ photo[i] < MaxEdits
  /\ photo' = [photo EXCEPT ![i] = @ + 1]
  /\ UNCHANGED <<rdp, set, reader, removed>>

Next ==
  \/ \E H \in SUBSET Households, limit \in {0, 1} : CreateRdp(H, limit)
  \/ \E r \in Created :
       \/ Run(r) \/ EngineFails(r) \/ SyncFailed(r)
       \/ \E uploaded \in BOOLEAN : RunFails(r, uploaded)
       \/ \E F \in MayFind(r) : EngineFinds(r, F)
       \/ \E k \in Readers : SyncRead(k, r)
       \/ Evaluate(r) \/ ReviewPush(r) \/ Cancel(r) \/ CreateClean(r) \/ Pushed(r)
  \/ \E k \in Readers, counted \in BOOLEAN : SyncFinish(k, counted)
  \/ \E i \in Individuals : EditPhoto(i)

Spec == Init /\ [][Next]_vars

-----------------------------------------------------------------------------
(* The pages.  A page is opened for an RDP of the program or for none.       *)

Contexts == Created \cup {0}

Successful(c) == {r \in Created : rdp[r].op = "SUCCESS" /\ c \in {0, r}}

(* biometric_findings_for_individual: the counterparts of a duplicate. *)
Links(c, i) ==
  LET pairs == {f \in UNION {rdp[r].findings : r \in Successful(c)} : f.code = "DUPLICATE"} IN
  ({f.second : f \in {g \in pairs : g.first = i}} \cup {f.first : f \in {g \in pairs : g.second = i}}) \ {NoOne}

(* ... and the RDP a counterpart is linked with: the latest that found it. *)
LinkRdps(i, j) == {r \in Successful(0) : \E f \in rdp[r].findings : f.code = "DUPLICATE" /\ {f.first, f.second} = {i, j}}

Duplicates(c) == {i \in Individuals : \E r \in Successful(c) : \E f \in rdp[r].findings :
                    f.code = "DUPLICATE" /\ i \in {f.first, f.second}}

Listed(c) == IF c = 0 THEN {i \in Individuals \ Strangers : house[i] \notin removed} ELSE Members(rdp[c].sel)

(* annotate_biometric_individuals: there is a result to show. *)
Available(c, i) ==
  IF c # 0 THEN rdp[c].op = "SUCCESS"
  ELSE (\E r \in Successful(0) : house[i] \in rdp[r].sel) \/ i \in Duplicates(0)

(* annotate_biometric_households *)
HouseAvailable(c, h) ==
  IF c # 0 THEN rdp[c].op = "SUCCESS"
  ELSE (\E r \in Successful(0) : h \in rdp[r].sel) \/ \E i \in Duplicates(0) : house[i] = h /\ h \notin removed

(* get_object: listed, or a removed counterpart of the RDP's duplicates. *)
Found(c, i) ==
  \/ i \in Listed(c)
  \/ c # 0 /\ rdp[c].op = "SUCCESS" /\ i \in Duplicates(c) /\ house[i] \in removed

-----------------------------------------------------------------------------
(* Properties *)

PhotoMaps == UNION {[I -> 0..MaxEdits] : I \in SUBSET Individuals}

RdpRow == [status : {"none", "PENDING", "REVIEW_PENDING", "PUSH_PENDING", "SUCCESS", "CANCELLED"},
           sel : SUBSET Households, op : {"none", "PENDING", "RUNNING", "SUCCESS", "FAILURE"},
           limit : 0..MaxFindings, findings : SUBSET Finding, clean : BOOLEAN]
EngineSet == [state : {"none", "processing", "done", "failed"}, photos : PhotoMaps,
              findings : SUBSET Finding]

(* The type invariant; an operation that succeeded has a set that is done. *)
TypeOK ==
  /\ rdp \in [Rdps -> RdpRow] /\ set \in [Rdps -> EngineSet]
  /\ reader \in [Readers -> [rdp : 0..MaxRdps, findings : SUBSET Finding]]
  /\ photo \in [Individuals -> 0..MaxEdits] /\ removed \subseteq Households
  /\ \A r \in Rdps : rdp[r].op = "SUCCESS" => set[r].state = "done"

(* rdp/operations/deduplication.md: what is stored concerns members of the   *)
(* RDP, links individuals of the same program, and holds no system error.     *)
FindingsAreOwn ==
  \A r \in Rdps : \A f \in rdp[r].findings :
    /\ house[f.first] \in rdp[r].sel /\ f.code \in Affecting
    /\ f.second \notin Strangers

(* "The whole Household is excluded when any actual household member is      *)
(* affected": an RDP that is open is the last, so a clean RDP q replaces the  *)
(* one before it; when an engine finds again what it found there, none of     *)
(* the old pairs is within q.  What was found in an RDP that was cancelled    *)
(* earlier may be within it.                                                   *)
NoPairStays ==
  \A q \in Created : rdp[q].clean =>
    \A f \in rdp[q - 1].findings : {f.first, f.second} \cap Members(rdp[q].sel) = {}

(* "Any biometric finding in the replacement RDP requires manual review      *)
(* again": a clean RDP that nobody reviewed is pushed without findings.       *)
CleanIsSpotless ==
  \A r \in Rdps : rdp[r].clean /\ rdp[r].status = "PENDING" /\ rdp'[r].status = "PUSH_PENDING"
    => set[r].findings = {}

(* "Biometric results are also shown on the relevant Individual and          *)
(* Household pages": both individuals of a pair show each other, and the      *)
(* household of either shows a result.                                         *)
Mirrored ==
  \A c \in Contexts : \A i \in Listed(c) : \A j \in Links(c, i) :
    /\ i \in Links(c, j)
    /\ j \in Listed(c) => HouseAvailable(c, house[j]) /\ j \in Duplicates(c)

(* A pair that is shown on a page is shown on the counterpart's. *)
ShownTwice == \A c \in Contexts : \A i, j \in Listed(c) : j \in Links(c, i) /\ Available(c, i) => Available(c, j)

(* The link to a counterpart opens its page: a removed one is opened in the  *)
(* RDP that found it.                                                          *)
LinksOpen ==
  \A c \in Contexts : \A i \in Listed(c) : \A j \in Links(c, i) :
    IF house[j] \in removed THEN \A r \in LinkRdps(i, j) : Found(r, j) ELSE Found(0, j)

(* rdp/operations: the first of several readers of a result decides; what is *)
(* stored stays as it is, and so does the set it was found in.                *)
ResultStands ==
  \A r \in Rdps :
    /\ rdp[r].op = "SUCCESS" => rdp'[r].op = "SUCCESS" /\ rdp'[r].findings = rdp[r].findings
    /\ set[r].state # "none" => set'[r].photos = set[r].photos

(* "Biometric deduplication checks beneficiary photos ... before an RDP can  *)
(* be pushed to HOPE Core": the photos that are pushed are those.             *)
PushedPhotosChecked ==
  [][\A r \in Rdps : rdp[r].status = "PUSH_PENDING" /\ rdp'[r].status = "SUCCESS"
       => \A i \in Members(rdp[r].sel) : set[r].photos[i] = photo[i]]_vars

-----------------------------------------------------------------------------
(* What the properties rest on (Rdps_proofs).                                 *)

\* RDPs are numbered as they are created, and only the last is open.
Numbered ==
  /\ \E n \in 0..MaxRdps : Created = 1..n
  /\ \A r \in Rdps \ Created : rdp[r] = NoRdp /\ set[r] = NoSet
  /\ \A r, q \in Created : r < q => r \notin Open

\* What is stored is what the set holds, checked and with related individuals of the program.
ResultsHeld ==
  \A r \in Rdps :
    /\ IsFiniteSet(set[r].findings)
    /\ IF rdp[r].op = "SUCCESS"
       THEN /\ Parsable(r, set[r].findings) /\ \A f \in set[r].findings : f.code \notin SystemErrors
            /\ rdp[r].findings = Built(set[r].findings)
       ELSE rdp[r].findings = {}

\* What was read is still what the set holds.
ReadersHold ==
  \A k \in Readers : reader[k] # Idle =>
    LET r == reader[k].rdp IN
    r \in Created /\ set[r].state = "done" /\ reader[k].findings = set[r].findings

\* A clean RDP has what the one before it left, and no finding passes it by.
CleanFollows ==
  \A q \in Created : rdp[q].clean =>
    /\ q > 1 /\ rdp[q].limit = 0
    /\ rdp[q - 1].op = "SUCCESS" /\ rdp[q].sel = CleanSelection(q - 1)

FindingsInv == TypeOK /\ Numbered /\ ResultsHeld /\ ReadersHold /\ CleanFollows

=============================================================================
