----------------------------- MODULE ForebrainJobs -----------------------------
(***************************************************************************)
(* The forebrain's durable jobs (pete-higher-brain/src/job.rs and the      *)
(* worker and job-* commands of main.rs): one JSON record per job, changed *)
(* by atomic renames, a restricted inbox of envelopes, and the processes   *)
(* that read and write them with no lock between them: the worker service  *)
(* and an operator's command now and then.  Every process starts with      *)
(* ForebrainWorker::open, which marks running jobs interrupted.  A record  *)
(* is its status and whether it names a candidate; progress, detail and    *)
(* the transition log are left out.                                        *)
(***************************************************************************)
EXTENDS Integers

CONSTANTS
  Jobs,        \* the job ids, in the order run_once sorts them
  Refused,     \* those whose envelope does not validate on this forebrain
  Named,       \* bound: those clients come back to, by a command or a second delivery
  MaxRetries,  \* bound: retries and cancellations
  MaxDeaths    \* bound: processes killed or failed

NoJob == 0
ASSUME JobsAssumption ==
  /\ Jobs \subseteq Nat \ {NoJob} /\ Refused \subseteq Jobs /\ Named \subseteq Jobs
  /\ MaxRetries \in Nat /\ MaxDeaths \in Nat

VARIABLES
  disk,                    \* jobs/<id>.json
  inbox,                   \* the envelopes under jobs/incoming
  built,                   \* the jobs whose candidate is under candidates/
  pc, todo, held, copy,    \* each process: step, files listed, job, its record in memory
  target,                  \* the job an operator's command names
  credit,                  \* history: jobs first recorded and retries saved, less the runs begun
  overlapped,              \* history: jobs two submissions found no record of before either saved one
  retries, deaths          \* history: retries and cancellations asked for, processes that have died

durableVars == <<disk, inbox, built>>
processVars == <<pc, todo, held, copy, target>>
jobHistory == <<credit, overlapped, retries, deaths>>
jobVars == <<durableVars, processVars, jobHistory>>

Statuses == {"absent", "queued", "running", "succeeded", "failed", "cancelled", "interrupted"}
Processes == {"worker", "cli"}
Commands == {"submit", "status", "retry", "cancel"}
Record(status, candidate) == [status |-> status, candidate |-> candidate]
Absent == Record("absent", FALSE)
OnDisk == {j \in Jobs : disk[j].status # "absent"}

JobInit ==
  /\ disk = [j \in Jobs |-> Absent] /\ inbox = {} /\ built = {}
  /\ pc = [p \in Processes |-> "down"] /\ todo = [p \in Processes |-> {}]
  /\ held = [p \in Processes |-> NoJob] /\ copy = [p \in Processes |-> Absent]
  /\ target = [command |-> "status", job |-> NoJob]
  /\ credit = [j \in Jobs |-> 0] /\ overlapped = {} /\ retries = 0 /\ deaths = 0

-----------------------------------------------------------------------------
Go(p, step) == pc' = [pc EXCEPT ![p] = step]
Hold(p, j, record) == held' = [held EXCEPT ![p] = j] /\ copy' = [copy EXCEPT ![p] = record]
Release(p) == Hold(p, NoJob, Absent)
Keep == UNCHANGED <<held, copy>>
\* DurableJob::transition, on the copy in memory.
Transition(record, status) == [record EXCEPT !.status = status]
\* save: the copy replaces the record on disk, whatever that is by now.
Save(p, record) == disk' = [disk EXCEPT ![held[p]] = record]

\* A process starts: the worker service, or one of the job commands.
Open(p) ==
  /\ pc[p] = "down"
  /\ Go(p, "recover")
  /\ todo' = [todo EXCEPT ![p] = OnDisk]
  /\ UNCHANGED <<durableVars, held, copy, credit, overlapped, deaths>>
StartWorker == Open("worker") /\ UNCHANGED <<target, retries>>
RunCommand(command, j) ==
  /\ Open("cli")
  /\ command \in {"retry", "cancel"} => retries < MaxRetries
  /\ retries' = IF command \in {"retry", "cancel"} THEN retries + 1 ELSE retries
  /\ target' = [command |-> command, job |-> j]

\* recover_interrupted, one record at a time, in whatever order the directory
\* lists them: read it, and save it if it ran.
RecoverRead(p, j) ==
  /\ pc[p] = "recover" /\ j \in todo[p]
  /\ todo' = [todo EXCEPT ![p] = @ \ {j}]
  /\ IF disk[j].status = "running"
     THEN Hold(p, j, Transition(disk[j], "interrupted")) /\ Go(p, "recover_save")
     ELSE Keep /\ UNCHANGED pc
  /\ UNCHANGED <<durableVars, target, jobHistory>>
RecoverSave(p) ==
  /\ pc[p] = "recover_save"
  /\ Save(p, copy[p])
  /\ Go(p, "recover") /\ Release(p)
  /\ UNCHANGED <<inbox, built, todo, target, jobHistory>>
\* Mutant: the store is in use before its jobs are recovered.
Opened_Early(p) ==
  /\ pc[p] = "recover"
  /\ Go(p, IF p = "worker" THEN "poll" ELSE target.command)
  /\ UNCHANGED <<durableVars, todo, held, copy, target, jobHistory>>
Opened(p) ==
  /\ pc[p] = "recover" /\ todo[p] = {}
  /\ Go(p, IF p = "worker" THEN "poll" ELSE target.command)
  /\ UNCHANGED <<durableVars, todo, held, copy, target, jobHistory>>

\* Mutant: which envelope was answered is not remembered.
EnqueueCheck_Nameless(p, j, done) ==
  /\ IF j \in Refused \/ disk[j].status # "absent"
     THEN Go(p, done) /\ Keep
     ELSE Go(p, "enqueue_save") /\ Hold(p, j, Record("queued", FALSE))
  /\ UNCHANGED <<durableVars, target, jobHistory>>
\* Mutant: an envelope is saved whether or not its job has a record.
EnqueueCheck_Blind(p, j, done) ==
  /\ IF j \in Refused
     THEN Go(p, done) /\ IF p = "cli" THEN Keep ELSE Hold(p, j, Absent)
     ELSE Go(p, "enqueue_save") /\ Hold(p, j, Record("queued", FALSE))
  /\ UNCHANGED <<durableVars, target, jobHistory>>
\* enqueue, for the inbox and for job-submit: an envelope that does not
\* validate is refused, a record that exists is returned as it is, and
\* otherwise a fresh one is saved.
EnqueueCheck(p, j, done) ==
  /\ IF j \in Refused \/ disk[j].status # "absent"
     THEN Go(p, done) /\ IF p = "cli" THEN Keep ELSE Hold(p, j, Absent)
     ELSE Go(p, "enqueue_save") /\ Hold(p, j, Record("queued", FALSE))
  /\ UNCHANGED <<durableVars, target, jobHistory>>
\* Some other process has found no record of j and is about to save one.
AlsoSubmits(p, j) == \E q \in Processes \ {p} : pc[q] = "enqueue_save" /\ held[q] = j
EnqueueSave(p, done) ==
  /\ pc[p] = "enqueue_save"
  /\ Save(p, copy[p])
  /\ IF disk[held[p]].status = "absent"
     THEN /\ credit' = [credit EXCEPT ![held[p]] = @ + 1]
          /\ overlapped' = IF AlsoSubmits(p, held[p]) THEN overlapped \cup {held[p]} ELSE overlapped
     ELSE UNCHANGED <<credit, overlapped>>
  /\ Go(p, done) /\ IF p = "cli" THEN Release(p) ELSE Hold(p, held[p], Absent)
  /\ UNCHANGED <<inbox, built, todo, target, retries, deaths>>

\* A client puts an envelope in the restricted SFTP inbox, maybe once more.
Deliver(j) == /\ j \notin inbox
              /\ disk[j].status = "absent" \/ j \in Named
              /\ inbox' = inbox \cup {j}
              /\ UNCHANGED <<disk, built, processVars, jobHistory>>

-----------------------------------------------------------------------------
(* The worker: run_once.                                                   *)

\* ingest_incoming: every envelope is enqueued and its file then renamed.
ListInbox ==
  /\ pc["worker"] = "poll"
  /\ todo' = [todo EXCEPT !["worker"] = inbox]
  /\ Go("worker", "ingest")
  /\ UNCHANGED <<durableVars, held, copy, target, jobHistory>>
Ingest(j) ==
  /\ pc["worker"] = "ingest" /\ j \in todo["worker"]
  /\ todo' = [todo EXCEPT !["worker"] = @ \ {j}]
  /\ EnqueueCheck("worker", j, "ingested")
IngestSave == EnqueueSave("worker", "ingested")
Ingested ==
  /\ pc["worker"] = "ingested"
  /\ inbox' = inbox \ {held["worker"]}
  /\ Go("worker", "ingest") /\ Release("worker")
  /\ UNCHANGED <<disk, built, todo, target, jobHistory>>

\* The queued job with the lowest id; none, and the worker sleeps.
First(files) == CHOOSE j \in files : \A k \in files : j <= k
Queued == {j \in Jobs : disk[j].status = "queued"}
\* Mutant: the first record is looked at, queued or not.
Pick_FirstFile ==
  /\ pc["worker"] = "ingest" /\ todo["worker"] = {}
  /\ IF OnDisk = {} \/ First(OnDisk) \notin Queued
     THEN Go("worker", "poll") /\ Keep
     ELSE /\ Hold("worker", First(Queued), Transition(disk[First(Queued)], "running"))
          /\ Go("worker", "start")
  /\ UNCHANGED <<durableVars, todo, target, jobHistory>>
Pick ==
  /\ pc["worker"] = "ingest" /\ todo["worker"] = {}
  /\ IF Queued = {}
     THEN Go("worker", "poll") /\ Keep
     ELSE /\ Hold("worker", First(Queued), Transition(disk[First(Queued)], "running"))
          /\ Go("worker", "start")
  /\ UNCHANGED <<durableVars, todo, target, jobHistory>>

\* The saves of the running record, at 5 percent and then, from the same copy in
\* memory, with the progress made (35 and 80 percent, one step here).
SaveRunning(step, next) ==
  /\ pc["worker"] = step
  /\ Save("worker", copy["worker"])
  /\ Go("worker", next)
  /\ UNCHANGED <<inbox, built, todo, held, copy, target, overlapped, retries, deaths>>
StartRun == SaveRunning("start", "train") /\ credit' = [credit EXCEPT ![held["worker"]] = @ - 1]
Train == SaveRunning("train", "build") /\ UNCHANGED credit
\* create_candidate renames the complete candidate into place and validates it.
Build ==
  /\ pc["worker"] = "build"
  /\ built' = built \cup {held["worker"]}
  /\ Go("worker", "succeed")
  /\ UNCHANGED <<disk, inbox, todo, held, copy, target, jobHistory>>
\* execute returned an error, from the bundles, the trainer or the candidate.
ExecuteFails ==
  /\ pc["worker"] \in {"train", "build"}
  /\ Go("worker", "fail")
  /\ UNCHANGED <<durableVars, todo, held, copy, target, jobHistory>>
SaveResult ==
  /\ pc["worker"] \in {"succeed", "fail"}
  /\ Save("worker", IF pc["worker"] = "succeed" THEN Record("succeeded", TRUE)
                    ELSE Transition(copy["worker"], "failed"))
  /\ Go("worker", "poll") /\ Release("worker")
  /\ UNCHANGED <<inbox, built, todo, target, jobHistory>>

-----------------------------------------------------------------------------
(* An operator's command, once its worker is open.                         *)

Submit ==
  /\ pc["cli"] = "submit"
  /\ EnqueueCheck("cli", target.job, "down")
  /\ UNCHANGED todo
SubmitSave == EnqueueSave("cli", "down")

\* retry_interrupted and cancel load the record, judge it, and save theirs;
\* the status command only loads it.
Retryable == {"interrupted", "failed"}
Cancellable == {"queued", "running", "interrupted"}
Judge ==
  /\ pc["cli"] \in {"retry", "cancel", "status"}
  /\ LET record == disk[target.job]
         status == IF target.command = "retry" THEN "queued" ELSE "cancelled"
     IN  IF \/ target.command = "retry" /\ record.status \in Retryable
            \/ target.command = "cancel" /\ record.status \in Cancellable
         THEN Hold("cli", target.job, Transition(record, status)) /\ Go("cli", "save")
         ELSE Go("cli", "down") /\ Keep
  /\ UNCHANGED <<durableVars, todo, target, jobHistory>>
SaveJudged ==
  /\ pc["cli"] = "save"
  /\ Save("cli", copy["cli"])
  /\ credit' = IF copy["cli"].status = "queued" THEN [credit EXCEPT ![held["cli"]] = @ + 1] ELSE credit
  /\ Go("cli", "down") /\ Release("cli")
  /\ UNCHANGED <<inbox, built, todo, target, overlapped, retries, deaths>>

\* A process is killed, or an I/O error ends it; what it held is lost.
Die(p) ==
  /\ pc[p] # "down" /\ deaths < MaxDeaths
  /\ Go(p, "down") /\ Release(p)
  /\ todo' = [todo EXCEPT ![p] = {}]
  /\ deaths' = deaths + 1
  /\ UNCHANGED <<durableVars, target, credit, overlapped, retries>>

WorkerStep ==
  \/ StartWorker \/ ListInbox \/ IngestSave \/ Ingested \/ Pick \/ StartRun \/ Train
  \/ Build \/ ExecuteFails \/ SaveResult
  \/ \E j \in Jobs : RecoverRead("worker", j) \/ Ingest(j)
  \/ RecoverSave("worker") \/ Opened("worker")
CliStep ==
  \/ Submit \/ SubmitSave \/ Judge \/ SaveJudged \/ RecoverSave("cli") \/ Opened("cli")
  \/ \E j \in Jobs : RecoverRead("cli", j)
  \/ \E j \in Named, c \in Commands : RunCommand(c, j)
JobNext ==
  \/ WorkerStep \/ CliStep
  \/ \E j \in Jobs : Deliver(j)
  \/ \E p \in Processes : Die(p)
\* The worker service is restarted and keeps polling; operators need do nothing.
JobFairness == WF_jobVars(WorkerStep)
JobSpec == JobInit /\ [][JobNext]_jobVars /\ JobFairness

-----------------------------------------------------------------------------
(* Properties.                                                             *)

JobTypeOK ==
  /\ disk \in [Jobs -> [status : Statuses, candidate : BOOLEAN]]
  /\ inbox \subseteq Jobs /\ built \subseteq Jobs
  /\ \A p \in Processes : /\ todo[p] \subseteq Jobs /\ held[p] \in Jobs \cup {NoJob}
                          /\ copy[p] \in [status : Statuses, candidate : BOOLEAN]
  /\ pc["worker"] \in {"enqueue_save", "ingested", "start", "train", "build", "succeed", "fail"} =>
       held["worker"] # NoJob
  /\ target \in [command : Commands, job : Jobs \cup {NoJob}]
  /\ credit \in [Jobs -> Int] /\ overlapped \subseteq Jobs /\ retries \in 0..MaxRetries /\ deaths \in 0..MaxDeaths

\* A job runs once however often its envelope is delivered or submitted, and
\* once more for every authorized retry, whatever is recovered, cancelled or saved
\* from a stale copy in between.  Only if two submissions overlapped, each looking
\* for a record before the other had saved one, may it run one time too many: the
\* second save then puts a fresh record over what may be a finished one.
RunsAreAuthorised ==
  \A j \in Jobs : credit[j] >= IF j \in overlapped THEN -1 ELSE 0

\* A record tells the truth, whichever process wrote it last and wherever one
\* died: succeeded names a candidate that is there, and once the worker is open
\* running means that the worker runs that job ("A worker restart turns a
\* durable running record into interrupted").
RecordsTruthful ==
  \A j \in Jobs :
    /\ disk[j].status = "succeeded" => disk[j].candidate /\ j \in built
    /\ disk[j].status = "running" =>
         pc["worker"] \in {"down", "recover", "recover_save"} \/ held["worker"] = j

\* What is queued is run or taken back, also behind jobs that sort before it,
\* and an envelope in the inbox becomes a job unless it is refused: the worker,
\* restarted when it dies, comes to every one of them.
JobsAreServed ==
  \A j \in Jobs :
    /\ (disk[j].status = "queued") ~> (disk[j].status # "queued")
    /\ (j \in inbox) ~> (disk[j].status # "absent" \/ j \in Refused)
================================================================================
