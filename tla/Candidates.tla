---------------------------- MODULE Candidates ----------------------------
(***************************************************************************)
(* The candidate pool: CandidatesService (upload of a CV with its two      *)
(* duplicate checks, edits, deletion) and the bulk upload, which is        *)
(* CandidatesController.bulkUpload, a BullMQ queue and BulkCvProcessor.    *)
(*                                                                         *)
(* saveUploadedCv runs outside a transaction: the look-up of the file, the *)
(* parser, the look-up of the address, the insert of the resume and the    *)
(* write of the candidate are separate steps, and other saves come in      *)
(* between.  The application and its one worker share a process: a crash   *)
(* ends every save and the upload loop.  BullMQ redelivers a stalled job   *)
(* once (its default) and then gives it up.                                *)
(*                                                                         *)
(* A CV stands for its SHA-256; Address is what the parser finds in it.    *)
(***************************************************************************)
EXTENDS Integers, Sequences, FiniteSets, SequencesExt

CONSTANTS
    Cvs,            \* files
    Addresses,      \* real e-mail addresses
    Address,        \* CV |-> the address in it, NoAddress if it has none
    Placeholder,    \* CV |-> the address made up for it, at import.local
    Uploaders,      \* members who upload single CVs
    Worker,         \* the bulk_cv worker
    MaxSaves,       \* bound on single uploads
    MaxChanges,     \* bound on edits, deletions, restorations, direct creations
    MaxCrashes,     \* bound on crashes
    NoAddress

ASSUME CvsAssumption == IsFiniteSet(Cvs)
ASSUME AddressAssumption == Address \in [Cvs -> Addresses \cup {NoAddress}]
ASSUME PlaceholderAssumption == \A f \in Cvs : Placeholder[f] \notin Addresses \cup {NoAddress}
ASSUME WorkerAssumption == Worker \notin Uploaders /\ NoAddress \notin Addresses
ASSUME LimitsAssumption == {MaxSaves, MaxChanges, MaxCrashes} \subseteq Nat

VARIABLES
    people,         \* ats.candidates, in order of creation
    resumes,        \* ats.resumes, in order of creation
    save,           \* caller |-> the save in progress
    draft,          \* member |-> the edit in progress
    saves,          \* single uploads so far
    changes,        \* other requests so far
    batch,          \* the bulk upload: its counters, status and how far its loop is
    items,          \* status of the items created so far
    temp,           \* items whose temporary file exists
    jobs,           \* the queue of items
    stalls,         \* item |-> redeliveries
    worker,         \* what the worker is doing
    crashes

poolVars == <<people, resumes, save, draft, saves, changes>>
bulkVars == <<batch, items, temp, jobs, stalls, worker, crashes>>
candidateVars == <<poolVars, bulkVars>>

Callers == Uploaders \cup {Worker}
Files == SetToSeq(Cvs)                      \* the files of the bulk upload, in order
NoSave == [step |-> "none"]
Profiles == DOMAIN people

----------------------------------------------------------------------------
(* saveUploadedCv *)

\* findByHash: a live candidate whose resume has this hash.
FindByHash(f) == {i \in Profiles : people[i].live /\ resumes[people[i].resume].cv = f}

\* The identity the form gives: an address, or nothing; whether it names
\* somebody else; whether it fills in other fields.
Forms == [mail : Addresses \cup {NoAddress}, other : BOOLEAN, fields : BOOLEAN]
WorkerForm == [mail |-> NoAddress, other |-> FALSE, fields |-> FALSE]

OtherIdentity(form, i) ==
    IF form.mail # NoAddress THEN form.mail # people[i].mail ELSE form.other

\* The first duplicate check, on the hash of the file.
SaveBegin(c, f, form, item) ==
    /\ save[c] = NoSave
    /\ LET start == [step |-> "parse", cv |-> f, form |-> form, item |-> item, met |-> FALSE, id |-> 0,
                    resume |-> 0, mail |-> NoAddress, found |-> NoAddress]
       IN IF FindByHash(f) = {}
          THEN save' = [save EXCEPT ![c] = start]
          ELSE \E i \in FindByHash(f) :
                 IF ~OtherIdentity(form, i) /\ ~form.fields
                 THEN save' = [save EXCEPT ![c] = [start EXCEPT !.step = "done", !.id = i]]
                 ELSE save' = [save EXCEPT ![c] =
                        [start EXCEPT !.step = "lookup", !.found = resumes[people[i].resume].found]]
    /\ UNCHANGED <<people, resumes>>

\* parseResumeFile: the latest resume of the file, or the parser, which may fail.
Cached(f) == {r \in DOMAIN resumes : resumes[r].cv = f /\ resumes[r].kept}
SaveParse(c) ==
    /\ save[c].step = "parse"
    /\ LET f == save[c].cv
           last == CHOOSE r \in Cached(f) : \A s \in Cached(f) : s <= r
           known == IF resumes[last].found # NoAddress THEN resumes[last].found ELSE resumes[last].mail
       IN \E found \in IF Cached(f) # {} THEN {known} ELSE {Address[f], NoAddress} :
             save' = [save EXCEPT ![c].step = "lookup", ![c].found = found]
    /\ UNCHANGED <<people, resumes, draft, saves, changes>>

MailOf(s) == IF s.form.mail # NoAddress THEN s.form.mail
             ELSE IF s.found # NoAddress THEN s.found ELSE Placeholder[s.cv]

\* Mutant: deleted candidates are not looked up.
FindLiveByMail(mail) == {i \in Profiles : people[i].live /\ people[i].mail = mail}
FindByMail(mail) == {i \in Profiles : people[i].mail = mail}

\* Saves of one address that are between their look-up and their insert.
Meets(mail) == {c \in Callers : save[c].step \in {"create", "insert"} /\ save[c].mail = mail}

\* The second duplicate check, on the address, deleted candidates included.
SaveLookup(c) ==
    /\ save[c].step = "lookup"
    /\ LET mail == MailOf(save[c])
           met == Meets(mail)
           next == [save[c] EXCEPT !.mail = mail]
       IN IF mail \in Addresses /\ FindByMail(mail) # {}
          THEN \E i \in FindByMail(mail) : save' = [save EXCEPT ![c] = [next EXCEPT !.step = "attach", !.id = i]]
          ELSE save' = [o \in Callers |->
                 IF o = c THEN [next EXCEPT !.step = "create", !.met = met # {}]
                 ELSE IF o \in met THEN [save[o] EXCEPT !.met = TRUE] ELSE save[o]]
    /\ UNCHANGED <<people, resumes, draft, saves, changes>>

Resume(s) == [cv |-> s.cv, found |-> s.found, mail |-> s.mail, kept |-> TRUE]

\* The resume is inserted by itself, as it may be large.
SaveResume(c) ==
    /\ save[c].step \in {"attach", "create"}
    /\ resumes' = Append(resumes, Resume(save[c]))
    /\ save' = [save EXCEPT ![c].step = IF @ = "attach" THEN "update" ELSE "insert",
                            ![c].resume = Len(resumes) + 1]
    /\ UNCHANGED <<people, draft, saves, changes>>

\* The candidate found gets the new resume, and is live again.
SaveUpdate(c) ==
    /\ save[c].step = "update"
    /\ people' = [people EXCEPT ![save[c].id].resume = save[c].resume, ![save[c].id].live = TRUE,
                                ![save[c].id].replaced = TRUE, ![save[c].id].version = @ + 1]
    /\ save' = [save EXCEPT ![c].step = "done"]
    /\ UNCHANGED <<resumes, draft, saves, changes>>

Person(mail, resume, item, alone, origin) ==
    [mail |-> mail, resume |-> resume, item |-> item, alone |-> alone, origin |-> origin,
     live |-> TRUE, deleted |-> FALSE, replaced |-> FALSE, version |-> 1]

SaveInsert(c) ==
    /\ save[c].step = "insert"
    /\ people' = Append(people, Person(save[c].mail, save[c].resume, save[c].item, ~save[c].met, "cv"))
    /\ save' = [save EXCEPT ![c].step = "done", ![c].id = Len(people) + 1]
    /\ UNCHANGED <<resumes, draft, saves, changes>>

\* The insert fails: the resume is deleted again.
SaveFails(c) ==
    /\ save[c].step = "insert"
    /\ resumes' = [resumes EXCEPT ![save[c].resume].kept = FALSE]
    /\ save' = [save EXCEPT ![c].step = "failed"]
    /\ UNCHANGED <<people, draft, saves, changes>>

SaveStep(c) == SaveParse(c) \/ SaveLookup(c) \/ SaveResume(c) \/ SaveUpdate(c) \/ SaveInsert(c) \/ SaveFails(c)

----------------------------------------------------------------------------
(* Requests of members. *)

Upload(u) ==
    /\ saves < MaxSaves /\ saves' = saves + 1
    /\ \E f \in Cvs, form \in Forms : SaveBegin(u, f, form, 0)
    /\ UNCHANGED <<draft, changes>>

Answered(u) ==
    /\ save[u].step \in {"done", "failed"}
    /\ save' = [save EXCEPT ![u] = NoSave]
    /\ UNCHANGED <<people, resumes, draft, saves, changes>>

Change == changes < MaxChanges /\ changes' = changes + 1 /\ UNCHANGED <<save, saves>>

\* createCandidate, for profiles that come from elsewhere: no duplicate check.
CreateCandidate ==
    /\ Change
    /\ \E mail \in Addresses :
          /\ resumes' = Append(resumes, [cv |-> NoAddress, found |-> mail, mail |-> mail, kept |-> TRUE])
          /\ people' = Append(people, Person(mail, Len(resumes) + 1, 0, FALSE, "other"))
    /\ UNCHANGED draft

DeleteCandidate ==
    /\ Change
    /\ \E i \in Profiles : people[i].live /\ people' = [people EXCEPT ![i].live = FALSE, ![i].version = @ + 1, ![i].deleted = TRUE]
    /\ UNCHANGED <<resumes, draft>>

RestoreCandidate ==
    /\ Change
    /\ \E i \in Profiles : ~people[i].live /\ people' = [people EXCEPT ![i].live = TRUE, ![i].version = @ + 1]
    /\ UNCHANGED <<resumes, draft>>

\* updateCandidate: the edit of a new address counts if nobody wrote since it read.
EditRead(u) ==
    /\ Change /\ draft[u] = NoSave
    /\ \E i \in Profiles, mail \in Addresses :
          draft' = [draft EXCEPT ![u] = [step |-> "edit", id |-> i, mail |-> mail, version |-> people[i].version]]
    /\ UNCHANGED <<people, resumes>>

EditWrite(u) ==
    /\ draft[u].step = "edit"
    /\ LET d == draft[u]
       IN people' = IF people[d.id].version # d.version THEN people
                    ELSE [people EXCEPT ![d.id].mail = d.mail, ![d.id].origin = "other", ![d.id].version = @ + 1]
    /\ draft' = [draft EXCEPT ![u] = NoSave]
    /\ UNCHANGED <<resumes, save, saves, changes>>

----------------------------------------------------------------------------
(* The bulk upload. *)

\* One turn of the loop: the temporary file and the item, then the job.
BulkItem ==
    /\ batch.loop = "item" /\ Len(items) < Len(Files)
    /\ items' = Append(items, "queued")
    /\ temp' = temp \cup {Len(items) + 1}
    /\ batch' = [batch EXCEPT !.loop = "job"]
    /\ UNCHANGED <<poolVars, jobs, stalls, worker, crashes>>

BulkJob ==
    /\ batch.loop = "job"
    /\ jobs' = Append(jobs, Len(items))
    /\ batch' = [batch EXCEPT !.loop = IF Len(items) = Len(Files) THEN "over" ELSE "item"]
    /\ UNCHANGED <<poolVars, items, temp, stalls, worker, crashes>>

NoJob == [step |-> "idle"]

WorkerTakes ==
    /\ worker = NoJob /\ jobs # <<>>
    /\ worker' = [step |-> "read", item |-> Head(jobs)]
    /\ jobs' = Tail(jobs)
    /\ items' = [items EXCEPT ![Head(jobs)] = "processing"]
    /\ UNCHANGED <<poolVars, batch, temp, stalls, crashes>>

\* Mutant: an item whose file is gone is failed without counting it.
FileMissingUncounted ==
    /\ worker.step = "read" /\ worker.item \notin temp
    /\ items' = [items EXCEPT ![worker.item] = "failed"]
    /\ worker' = NoJob
    /\ UNCHANGED <<poolVars, batch, temp, jobs, stalls, crashes>>

FileMissing ==
    /\ worker.step = "read" /\ worker.item \notin temp
    /\ items' = [items EXCEPT ![worker.item] = "failed"]
    /\ worker' = [worker EXCEPT !.step = "count"]
    /\ UNCHANGED <<poolVars, batch, temp, jobs, stalls, crashes>>

FileRead ==
    /\ worker.step = "read" /\ worker.item \in temp
    /\ SaveBegin(Worker, Files[worker.item], WorkerForm, worker.item)
    /\ worker' = [worker EXCEPT !.step = "save"]
    /\ UNCHANGED <<draft, saves, changes, batch, items, temp, jobs, stalls, crashes>>

ItemSettled ==
    /\ worker.step = "save" /\ save[Worker].step \in {"done", "failed"}
    /\ items' = [items EXCEPT ![worker.item] = IF save[Worker].step = "done" THEN "completed" ELSE "failed"]
    /\ save' = [save EXCEPT ![Worker] = NoSave]
    /\ worker' = [worker EXCEPT !.step = "unlink"]
    /\ UNCHANGED <<people, resumes, draft, saves, changes, batch, temp, jobs, stalls, crashes>>

Unlink ==
    /\ worker.step = "unlink"
    /\ temp' = temp \ {worker.item}
    /\ worker' = [worker EXCEPT !.step = "count"]
    /\ UNCHANGED <<poolVars, batch, items, jobs, stalls, crashes>>

Count(status) == Cardinality({k \in DOMAIN items : items[k] = status})

\* updateBatchStatus counts the items there are, then writes the counters.
UpdateBatchRead ==
    /\ worker.step = "count"
    /\ worker' = [step |-> "write", item |-> worker.item, done |-> Count("completed"), failed |-> Count("failed"),
                  status |-> IF Count("completed") + Count("failed") >= Len(items) THEN "completed" ELSE "processing"]
    /\ UNCHANGED <<poolVars, batch, items, temp, jobs, stalls, crashes>>

UpdateBatchWrite ==
    /\ worker.step = "write"
    /\ batch' = [batch EXCEPT !.done = worker.done, !.failed = worker.failed, !.status = worker.status]
    /\ worker' = NoJob
    /\ UNCHANGED <<poolVars, items, temp, jobs, stalls, crashes>>

\* The process dies.  The job it had is stalled: redelivered once, then given up.
Crash ==
    /\ crashes < MaxCrashes /\ crashes' = crashes + 1
    /\ save' = [c \in Callers |-> NoSave]
    /\ worker' = NoJob
    /\ batch' = [batch EXCEPT !.loop = IF @ = "over" THEN "over" ELSE "lost"]
    /\ IF worker # NoJob /\ stalls[worker.item] < 1
       THEN /\ jobs' = <<worker.item>> \o jobs
            /\ stalls' = [stalls EXCEPT ![worker.item] = @ + 1]
       ELSE UNCHANGED <<jobs, stalls>>
    /\ draft' = [u \in Uploaders |-> NoSave]
    /\ UNCHANGED <<people, resumes, saves, changes, items, temp>>

----------------------------------------------------------------------------
CandidatesInit ==
    /\ people = <<>> /\ resumes = <<>> /\ saves = 0 /\ changes = 0
    /\ save = [c \in Callers |-> NoSave] /\ draft = [u \in Uploaders |-> NoSave]
    /\ batch = [loop |-> "item", done |-> 0, failed |-> 0, status |-> "processing"]
    /\ items = <<>> /\ temp = {} /\ jobs = <<>> /\ worker = NoJob /\ crashes = 0
    /\ stalls = [k \in 1..Len(Files) |-> 0]

MemberRequest ==
    \/ CreateCandidate \/ DeleteCandidate \/ RestoreCandidate
    \/ \E u \in Uploaders : Upload(u) \/ Answered(u) \/ EditRead(u) \/ EditWrite(u)

WorkerStep == WorkerTakes \/ FileMissing \/ FileRead \/ ItemSettled \/ Unlink
              \/ UpdateBatchRead \/ UpdateBatchWrite

CandidatesNext ==
    \/ MemberRequest /\ UNCHANGED bulkVars
    \/ \E c \in Callers : SaveStep(c) /\ UNCHANGED bulkVars
    \/ BulkItem \/ BulkJob \/ WorkerStep \/ Crash

CandidatesSpec == CandidatesInit /\ [][CandidatesNext]_candidateVars

CandidatesFairness ==
    /\ WF_candidateVars(WorkerStep)
    /\ WF_candidateVars(SaveStep(Worker) /\ UNCHANGED bulkVars)

----------------------------------------------------------------------------
(* A candidate is not doubled.  Two profiles saved from CVs share a real   *)
(* address only if the later save overlapped another one of that address   *)
(* between its look-up and its insert: deletion, restoration, a second CV, *)
(* or a copy under another name make none.  And a bulk item makes one      *)
(* profile, though its job is delivered again after a crash at any step    *)
(* and its CV may have no address: a second one comes about only if the    *)
(* first was deleted or readdressed in between, or was given another CV    *)
(* while its own is on record under another address.                       *)
ProfilesNotDoubled == \A i, j \in Profiles :
    i < j /\ people[i].origin = "cv" /\ people[j].origin = "cv" =>
        /\ people[i].mail = people[j].mail /\ people[j].mail \in Addresses => ~people[j].alone
        /\ people[i].item # 0 /\ people[i].item = people[j].item =>
              people[i].deleted \/ (people[i].replaced /\ people[i].mail # people[j].mail)

(* Once the loop has queued every file the batch settles: its status is    *)
(* completed and its counters are those of the items, for good, whatever   *)
(* fails and though the worker crashes.                                    *)
BatchSettles ==
    (batch.loop = "over") ~> [](/\ batch.status = "completed"
                                /\ batch.done + batch.failed = Len(Files)
                                /\ batch.done = Count("completed"))
=============================================================================
