---------------------------- MODULE MCBackground ----------------------------
(* The queues with their workers, for model checking: the candidate pool   *)
(* with its bulk upload and a mass mail campaign.  They share no           *)
(* variables, so each behaviour works on one of them.                      *)
EXTENDS Candidates, Campaigns

VARIABLE part

MCAddress == [f1 |-> "e1", f2 |-> NoAddress]
MCPlaceholder == [f1 |-> "i1", f2 |-> "i2"]

\* "pool": single uploads; "bulk": a bulk upload and single changes; "redelivery": a
\* bulk upload whose loop a crash ended after its first file.
MCInit ==
    /\ part \in {"pool", "bulk", "redelivery", "mail"}
    /\ people = <<>> /\ resumes = <<>>
    /\ changes = IF part = "redelivery" THEN MaxChanges ELSE 0
    /\ saves = IF part = "bulk" THEN MaxSaves ELSE 0
    /\ save = [c \in Callers |-> NoSave] /\ draft = [u \in Uploaders |-> NoSave]
    /\ batch = [loop |-> IF part = "bulk" THEN "item" ELSE "lost", done |-> 0, failed |-> 0, status |-> "processing"]
    /\ IF part = "redelivery" THEN items = <<"queued">> /\ temp = {1} /\ jobs = <<1>>
                              ELSE items = <<>> /\ temp = {} /\ jobs = <<>>
    /\ worker = NoJob /\ crashes = 0
    /\ stalls = [k \in 1..Len(Files) |-> 0]
    /\ CampaignsInit

\* The requests of the first two parts name one address.
Named(s, d) == (IF s = NoSave THEN {} ELSE {s.form.mail}) \cup (IF d = NoSave THEN {} ELSE {d.mail})
OneAddress ==
    /\ \A i \in DOMAIN people' : people'[i].mail # "e2"
    /\ \A u \in Uploaders : "e2" \notin Named(save'[u], draft'[u])

\* One member uploads the CV of the item under another address while it is saved, and any
\* CV after the crash, with an address in the form and nothing else.
AddressOnly(s) == IF s = NoSave THEN TRUE ELSE s.form \in [mail : Addresses, other : {FALSE}, fields : {FALSE}]
UploadsFollow ==
    /\ save'["v"] = NoSave
    /\ IF saves' = saves THEN TRUE
       ELSE IF saves = 0 THEN save[Worker] # NoSave /\ save'["u"].cv = Files[1] /\ save'["u"].form.mail = "e2"
       ELSE crashes = MaxCrashes
    /\ AddressOnly(save'["u"])

MCNext ==
    /\ UNCHANGED part
    /\ \/ part \in {"pool", "bulk"} /\ CandidatesNext /\ OneAddress /\ UNCHANGED campaignVars
       \/ part = "redelivery" /\ CandidatesNext /\ UploadsFollow /\ UNCHANGED campaignVars
       \/ part = "mail" /\ CampaignsNext /\ UNCHANGED candidateVars

\* The workers of the part that stands still have nothing to do.
MCSpec == /\ MCInit /\ [][MCNext]_<<part, candidateVars, campaignVars>>
          /\ CandidatesFairness /\ CampaignsFairness
=============================================================================
