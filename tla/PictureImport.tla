---------------------------- MODULE PictureImport ----------------------------
(***************************************************************************)
(* Pictures for the individuals of one batch, uploaded as a ZIP archive:    *)
(* the requests of the batch admin (match, then confirm), the draft they    *)
(* leave in Batch.picture_import_state, the archive in the media storage    *)
(* and the job that writes the pictures.                                    *)
(*                                                                          *)
(* A request works on the batch it read when it began, a job on the draft   *)
(* it finds when it begins: its configuration names the batch only.  The    *)
(* archive stored by a request is named by the request.                     *)
(***************************************************************************)
EXTENDS Naturals, FiniteSets, Sequences

CONSTANTS
  Requests,   \* requests of the batch admin; also the archives they store
  Users, Jobs, Records, Keys,
  NoKey,      \* the match key of a file or record that has none
  None,
  Files,      \* [Requests -> Seq(Keys \cup {NoKey})]: the files of an archive
  KeyOf,      \* [Records -> Keys \cup {NoKey}]: the raw data of the match field
  MaxCrashes  \* bound on the workers that die

PictureAssumption ==
  /\ Files \in [Requests -> Seq(Keys \cup {NoKey})]
  /\ KeyOf \in [Records -> Keys \cup {NoKey}]
  /\ NoKey \notin Keys /\ MaxCrashes \in Nat
  /\ None \notin Requests \cup [zip : Requests, by : Users] \cup (Requests \X Keys)

VARIABLES
  draft,    \* Batch.picture_import_state: None or [zip, by]
  zips,     \* the archives in the media storage
  req,      \* the requests
  job,      \* the jobs
  pic,      \* the picture of a record: None or <<archive, key>>
  removed,  \* the records that are no longer active
  reset,    \* the records a job changed that were not validated since
  due,      \* the records for which a validation job is scheduled
  crashes

vars == <<draft, zips, req, job, pic, removed, reset, due, crashes>>

Drafts   == {None} \cup [zip : Requests, by : Users]
Running  == {"reading", "applied", "clearing", "dropping"}
Results  == {"success", "unscheduled", "failure"}

(* extract_zip_images and build_preview: a key the archive has twice and a *)
(* key two active records have match nothing.                              *)
Once(z, k) == Cardinality({i \in DOMAIN Files[z] : Files[z][i] = k}) = 1

Matched(z) ==
  {r \in Records \ removed :
     /\ KeyOf[r] # NoKey
     /\ Once(z, KeyOf[r])
     /\ \A s \in Records \ removed : KeyOf[s] = KeyOf[r] => s = r}

Init ==
  /\ draft = None /\ zips = {} /\ crashes = 0
  /\ req = [q \in Requests |-> [st |-> "new", by |-> None, old |-> None]]
  /\ job = [j \in Jobs |-> [st |-> "none", confirmed |-> None, zip |-> None, changed |-> {}, res |-> "success"]]
  /\ pic = [r \in Records |-> None] /\ removed = {} /\ reset = {} /\ due = {}

-----------------------------------------------------------------------------
(* Requests *)

(* A request of user u reads the batch, its draft with it. *)
Open(q, u) ==
  /\ req[q].st = "new"
  /\ req' = [req EXCEPT ![q] = [st |-> "open", by |-> u, old |-> draft]]
  /\ UNCHANGED <<draft, zips, job, pic, removed, reset, due, crashes>>

(* "preview": the archive is stored ... *)
Store(q) ==
  /\ req[q].st = "open"
  /\ req' = [req EXCEPT ![q].st = "stored"]
  /\ zips' = zips \cup {q}
  /\ UNCHANGED <<draft, job, pic, removed, reset, due, crashes>>

(* ... and dropped when it has too many files, *)
Refuse(q) ==
  /\ req[q].st = "stored"
  /\ req' = [req EXCEPT ![q].st = "done"]
  /\ zips' = zips \ {q}
  /\ UNCHANGED <<draft, job, pic, removed, reset, due, crashes>>

(* or its matches become the draft of the batch; *)
Save(q) ==
  /\ req[q].st = "stored"
  /\ req' = [req EXCEPT ![q].st = "saved"]
  /\ draft' = [zip |-> q, by |-> req[q].by]
  /\ UNCHANGED <<zips, job, pic, removed, reset, due, crashes>>

(* the archive of the draft the request read goes. *)
DropOld(q) ==
  /\ req[q].st = "saved"
  /\ req' = [req EXCEPT ![q] = [@ EXCEPT !.st = "done", !.old = None]]
  /\ zips' = IF req[q].old = None THEN zips ELSE zips \ {req[q].old.zip}
  /\ UNCHANGED <<draft, job, pic, removed, reset, due, crashes>>

(* "confirm": a job is created for the draft the request read, if that is a *)
(* draft of its user; a draft without its archive is cleared.               *)
Confirm(q) ==
  /\ req[q].st = "open"
  /\ req' = [req EXCEPT ![q] = [@ EXCEPT !.st = "done", !.old = None]]
  /\ LET old == req[q].old IN
     \/ /\ ~(old # None /\ old.by = req[q].by)
        /\ UNCHANGED <<draft, job>>
     \/ /\ old # None /\ old.by = req[q].by /\ old.zip \notin zips
        /\ draft' = None
        /\ UNCHANGED job
     \/ /\ old # None /\ old.by = req[q].by /\ old.zip \in zips
        /\ \E j \in Jobs :
             /\ job[j].st = "none"
             /\ job' = [job EXCEPT ![j].st = "queued", ![j].confirmed = old.zip]
        /\ UNCHANGED draft
  /\ UNCHANGED <<zips, pic, removed, reset, due, crashes>>

-----------------------------------------------------------------------------
(* The job; one job of a batch runs at a time. *)

Begin(j) ==
  /\ job[j].st = "queued"
  /\ \A i \in Jobs : job[i].st \notin Running
  /\ job' = [job EXCEPT ![j] =
       IF draft = None THEN [@ EXCEPT !.st = "done", !.res = "failure"]
                       ELSE [@ EXCEPT !.st = "reading", !.zip = draft.zip]]
  /\ UNCHANGED <<draft, zips, req, pic, removed, reset, due, crashes>>

\* Mutant of Apply: every record of the batch is reset.
ApplyResetAll(j) ==
  /\ job[j].st = "reading" /\ job[j].zip \in zips
  /\ pic' = [r \in Records |-> IF r \in Matched(job[j].zip) THEN <<job[j].zip, KeyOf[r]>> ELSE pic[r]]
  /\ reset' = Records \ removed
  /\ job' = [job EXCEPT ![j] = [@ EXCEPT !.st = "applied"]]
  /\ UNCHANGED <<draft, zips, req, removed, due, crashes>>

(* build_preview again, then all the pictures in one transaction; what *)
(* raises goes straight to the finally clause.                          *)
Apply(j) ==
  /\ job[j].st = "reading"
  /\ \/ LET z == job[j].zip
            new == [r \in Records |-> IF r \in Matched(z) THEN <<z, KeyOf[r]>> ELSE pic[r]]
            changed == {r \in Records : new[r] # pic[r]}
        IN /\ z \in zips
           /\ pic' = new
           /\ reset' = reset \cup changed
           /\ job' = [job EXCEPT ![j] = [@ EXCEPT !.st = "applied", !.changed = changed]]
     \/ /\ job' = [job EXCEPT ![j] = [@ EXCEPT !.st = "clearing", !.res = "failure"]]
        /\ UNCHANGED <<pic, reset>>
  /\ UNCHANGED <<draft, zips, req, removed, due, crashes>>

(* _schedule_validation: a failure is reported in the result of the job. *)
Schedule(j) ==
  /\ job[j].st = "applied"
  /\ \E ok \in BOOLEAN :
       /\ due' = IF ok THEN due \cup job[j].changed ELSE due
       /\ job' = [job EXCEPT ![j] = [@ EXCEPT !.st = "clearing", !.res = IF ok THEN job[j].res ELSE "unscheduled"]]
  /\ UNCHANGED <<draft, zips, req, pic, removed, reset, crashes>>

\* Mutant of Clear: the draft stays.
KeepDraft(j) ==
  /\ job[j].st = "clearing"
  /\ job' = [job EXCEPT ![j].st = "dropping"]
  /\ UNCHANGED <<draft, zips, req, pic, removed, reset, due, crashes>>

(* finally: the draft of the batch is cleared, whichever it is now; *)
Clear(j) ==
  /\ job[j].st = "clearing"
  /\ draft' = None
  /\ job' = [job EXCEPT ![j].st = "dropping"]
  /\ UNCHANGED <<zips, req, pic, removed, reset, due, crashes>>

(* the archive the job read is deleted. *)
Drop(j) ==
  /\ job[j].st = "dropping"
  /\ zips' = zips \ {job[j].zip}
  /\ job' = [job EXCEPT ![j] = [@ EXCEPT !.st = "done", !.changed = {}]]
  /\ UNCHANGED <<draft, req, pic, removed, reset, due, crashes>>

(* The worker dies; the broker delivers the job again. *)
Crash(j) ==
  /\ job[j].st \in Running /\ crashes < MaxCrashes
  /\ crashes' = crashes + 1
  /\ job' = [job EXCEPT ![j] = [@ EXCEPT !.st = "queued", !.zip = None, !.changed = {}, !.res = "success"]]
  /\ UNCHANGED <<draft, zips, req, pic, removed, reset, due>>

-----------------------------------------------------------------------------
(* The records *)

(* A validation job checks a record. *)
Validate(r) ==
  /\ r \in due
  /\ due' = due \ {r} /\ reset' = reset \ {r}
  /\ UNCHANGED <<draft, zips, req, job, pic, removed, crashes>>

(* A record is pushed to HOPE, or its RDP is reset. *)
SetRemoved(r) ==
  /\ removed' = IF r \in removed THEN removed \ {r} ELSE removed \cup {r}
  /\ UNCHANGED <<draft, zips, req, job, pic, reset, due, crashes>>

RequestStep(q) == (\E u \in Users : Open(q, u)) \/ Store(q) \/ Refuse(q) \/ Save(q) \/ DropOld(q) \/ Confirm(q)
JobStep(j) == Begin(j) \/ Apply(j) \/ Schedule(j) \/ Clear(j) \/ Drop(j)

Next ==
  \/ \E q \in Requests : RequestStep(q)
  \/ \E j \in Jobs : JobStep(j) \/ Crash(j)
  \/ \E r \in Records : Validate(r) \/ SetRemoved(r)

Spec == Init /\ [][Next]_vars

-----------------------------------------------------------------------------
(* Properties *)

(* The type invariant; a job resets, and sends to validation, only records *)
(* it gave a picture, one under their own key.                             *)
TypeOK ==
  /\ draft \in Drafts /\ zips \subseteq Requests
  /\ req \in [Requests -> [st : {"new", "open", "stored", "saved", "done"},
                           by : Users \cup {None}, old : Drafts]]
  /\ job \in [Jobs -> [st : {"none", "queued", "done"} \cup Running, confirmed : Requests \cup {None},
                       zip : Requests \cup {None}, changed : SUBSET Records, res : Results]]
  /\ pic \in [Records -> {None} \cup (Requests \X Keys)]
  /\ removed \subseteq Records /\ due \subseteq Records /\ reset \subseteq Records
  /\ \A r \in reset \cup due : pic[r] # None /\ pic[r][2] = KeyOf[r]
  /\ crashes \in 0..MaxCrashes

(* The draft of the batch never names an archive that is gone: requests  *)
(* and jobs delete archives on the strength of a draft read earlier       *)
(* (DropOld, Drop), and none of them deletes the archive of a draft that  *)
(* is offered for confirmation, but the job that has just cleared it.     *)
DraftHasZip == draft # None => draft.zip \in zips

(* A file never becomes the picture of two persons, however the records   *)
(* that share its key are pushed to HOPE and taken back between matching,  *)
(* confirmations and jobs: an archive is applied once (a job that died is  *)
(* delivered again and matches anew).                                      *)
NotTwoPersons ==
  crashes = 0 => \A r, s \in Records : pic[r] # None /\ pic[r] = pic[s] => r = s

(* The archive a job works on.  It is removed in the end, when the job     *)
(* fails too (docs/src/data_import/picture_import.md), if its worker lives. *)
Reading(j, z) == job[j].zip = z
Stored(z)     == z \in zips

(* What docs/src/data_import/picture_import.md says of the archives: when  *)
(* every request and job has ended and there is no draft, none is stored.  *)
(* Two overlapping matchings, and a job that clears a draft newer than the *)
(* one it read, leave theirs behind.                                       *)
NoZipLeft ==
  /\ draft = None
  /\ \A q \in Requests : req[q].st \in {"new", "done"}
  /\ \A j \in Jobs : job[j].st \in {"none", "done"}
  => zips = {}

(* What is written was confirmed: a job applies the archive whose report   *)
(* the user confirmed.                                                     *)
ConfirmedIsApplied == \A j \in Jobs : job[j].zip # None => job[j].zip = job[j].confirmed

(* The records whose picture a job changed are validated, unless the job   *)
(* reported that it could not schedule that.                               *)
ValidationFollows ==
  (\A j \in Jobs : job[j].st \in {"none", "done"} /\ job[j].res = "success") => reset \subseteq due
=============================================================================
