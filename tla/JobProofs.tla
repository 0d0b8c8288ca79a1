------------------------------- MODULE JobProofs -------------------------------
(***************************************************************************)
(* Proofs about ForebrainJobs, for any jobs and any order of deliveries,   *)
(* commands and deaths of two processes that share the records without a   *)
(* lock: its types, that every run of a job was authorised (one more only  *)
(* where two submissions overlapped), and that the records tell the truth. *)
(***************************************************************************)
EXTENDS ForebrainJobs, TLAPS, WellFoundedInduction

WorkerPcs == {"down", "recover", "recover_save", "poll", "ingest", "enqueue_save", "ingested", "start",
              "train", "build", "succeed", "fail"}
CliPcs == {"down", "recover", "recover_save", "submit", "status", "retry", "cancel", "enqueue_save", "save"}
Records == [status : Statuses, candidate : BOOLEAN]
\* The steps at which a process holds a job.
HoldPcs == {"recover_save", "enqueue_save", "ingested", "start", "train", "build", "succeed", "fail", "save"}

\* The types, with where each process may stand and what it then holds.
JobTypes ==
  /\ disk \in [Jobs -> Records] /\ inbox \subseteq Jobs /\ built \subseteq Jobs
  /\ pc \in [Processes -> WorkerPcs \cup CliPcs] /\ pc["worker"] \in WorkerPcs /\ pc["cli"] \in CliPcs
  /\ todo \in [Processes -> SUBSET Jobs] /\ held \in [Processes -> Jobs \cup {NoJob}]
  /\ copy \in [Processes -> Records]
  /\ \A p \in Processes : pc[p] \in HoldPcs => held[p] \in Jobs
  /\ target \in [command : Commands, job : Jobs \cup {NoJob}]
  /\ pc["cli"] # "down" => target.job \in Jobs
  /\ credit \in [Jobs -> Int] /\ overlapped \subseteq Jobs
  /\ retries \in 0..MaxRetries /\ deaths \in 0..MaxDeaths

\* The record a process is about to save.
CopiesFollow ==
  /\ \A p \in Processes : /\ pc[p] = "recover_save" => copy[p].status = "interrupted"
                          /\ pc[p] = "enqueue_save" => copy[p].status = "queued"
  /\ pc["worker"] \in {"start", "train"} => copy["worker"].status = "running"
  /\ pc["worker"] \in {"build", "fail", "succeed"} => copy["worker"].status = "running"
  /\ pc["worker"] = "succeed" => held["worker"] \in built
  /\ pc["cli"] = "save" => copy["cli"].status \in {"queued", "cancelled"}

\* A process has found no record of j and is about to save a fresh one.
Submitting(p, j) == pc[p] = "enqueue_save" /\ held[p] = j
\* The steps at which a process has read the record that it will save.
SavingPcs == {"recover_save", "start", "train", "build", "succeed", "fail", "save"}
\* A submission that another one's save has overtaken is told of in overlapped,
\* and no third can be under way; what else is saved has a record already.
OverlapsTold ==
  \A j \in Jobs :
    /\ j \in overlapped => disk[j].status # "absent"
    /\ disk[j].status # "absent" =>
         \A p \in Processes : Submitting(p, j) => j \in overlapped /\ ~ AlsoSubmits(p, j)
    /\ \A p \in Processes : pc[p] \in SavingPcs /\ held[p] = j => disk[j].status # "absent"

\* The one run too many that overlapping submissions are allowed, once the
\* second of them is through.
Extra(j) == IF j \in overlapped /\ ~ \E p \in Processes : Submitting(p, j) THEN 1 ELSE 0
\* A record that may be picked, and the one that was, has a run to its credit.
RunsCredited ==
  \A j \in Jobs : /\ credit[j] + Extra(j) >= 0
                  /\ disk[j].status = "queued" => credit[j] + Extra(j) >= 1
                  /\ pc["worker"] = "start" /\ held["worker"] = j => credit[j] + Extra(j) >= 1

\* A record says running while the worker runs its job; after a death the next
\* worker still has it to recover.
RunningAccounted ==
  \A j \in Jobs : disk[j].status = "running" =>
    \/ pc["worker"] = "down"
    \/ pc["worker"] \in {"recover", "recover_save"} /\ j \in todo["worker"]
    \/ pc["worker"] \in {"recover_save", "train", "build", "succeed", "fail"} /\ held["worker"] = j

SucceededBuilt ==
  \A j \in Jobs : disk[j].status = "succeeded" => disk[j].candidate /\ j \in built

JobInv == JobTypes /\ CopiesFollow /\ OverlapsTold /\ RunsCredited /\ RunningAccounted /\ SucceededBuilt

-----------------------------------------------------------------------------
(* The files listed, and the steps.                                        *)

LEMMA JobCases ==
  ASSUME [JobNext]_jobVars
  PROVE  \/ StartWorker \/ ListInbox \/ IngestSave \/ Ingested \/ Pick \/ StartRun \/ Train \/ Build
         \/ ExecuteFails \/ SaveResult \/ Submit \/ SubmitSave \/ Judge \/ SaveJudged
         \/ \E j \in Jobs : Ingest(j)
         \/ \E j \in Named, c \in Commands : RunCommand(c, j)
         \/ \E p \in Processes, j \in Jobs : RecoverRead(p, j)
         \/ \E p \in Processes : RecoverSave(p) \/ Opened(p) \/ Die(p)
         \/ \E j \in Jobs : Deliver(j)
         \/ UNCHANGED jobVars
BY DEF JobNext, WorkerStep, CliStep, Processes

\* The first of the files there are is one of them.
LEMMA FirstListed ==
  ASSUME NEW files \in SUBSET Nat, files # {}
  PROVE  First(files) \in files
<1> DEFINE R == OpToRel(<, Nat)
<1>1. IsWellFoundedOn(R, Nat)
  BY NatLessThanWellFounded
<1> HIDE DEF R
<1>2. PICK x \in files : \A y \in files : ~(<<y, x>> \in R)
  BY <1>1, WFMin
<1>3. \A y \in files : x <= y
  <2> SUFFICES ASSUME NEW y \in files PROVE x <= y
    OBVIOUS
  <2>1. ~(<<y, x>> \in R)
    BY <1>2
  <2> QED BY <2>1 DEF R, OpToRel
<1> QED BY <1>3 DEF First

\* A transition changes the status of a record and nothing else of it.
LEMMA Transitioned ==
  ASSUME NEW r \in Records, NEW status \in Statuses
  PROVE  /\ Transition(r, status) \in Records
         /\ Transition(r, status).status = status /\ Transition(r, status).candidate = r.candidate
BY DEF Transition, Records

\* The credit of a job is a number whatever is added to it or taken from it.
LEMMA CreditTyped ==
  ASSUME NEW c \in [Jobs -> Int], NEW j \in Jobs
  PROVE  [c EXCEPT ![j] = @ + 1] \in [Jobs -> Int] /\ [c EXCEPT ![j] = @ - 1] \in [Jobs -> Int]
OBVIOUS

\* The save of a fresh record may be told to overlap another.
LEMMA Enqueued ==
  ASSUME NEW p, NEW done, EnqueueSave(p, done)
  PROVE  UNCHANGED overlapped \/ overlapped' = overlapped \cup {held[p]}
<1>1. CASE disk[held[p]].status = "absent"
  <2>1. overlapped' = IF AlsoSubmits(p, held[p]) THEN overlapped \cup {held[p]} ELSE overlapped
    BY <1>1 DEF EnqueueSave
  <2> QED BY <2>1
<1>2. CASE disk[held[p]].status # "absent"
  BY <1>2 DEF EnqueueSave
<1> QED BY <1>1, <1>2

\* enqueue answers at once, or holds a fresh record to save.
LEMMA EnqueueChecked ==
  ASSUME NEW p, NEW j, NEW done, EnqueueCheck(p, j, done)
  PROVE  /\ \/ Go(p, done) /\ p = "cli" /\ UNCHANGED <<held, copy>>
            \/ Go(p, done) /\ p # "cli" /\ Hold(p, j, Absent)
            \/ Go(p, "enqueue_save") /\ Hold(p, j, Record("queued", FALSE))
         /\ UNCHANGED <<disk, inbox, built, target, credit, overlapped, retries, deaths>>
<1>1. CASE j \in Refused \/ disk[j].status # "absent"
  BY <1>1 DEF EnqueueCheck, Keep, durableVars, jobHistory
<1>2. CASE ~(j \in Refused \/ disk[j].status # "absent")
  BY <1>2 DEF EnqueueCheck, durableVars, jobHistory
<1> QED BY <1>1, <1>2

-----------------------------------------------------------------------------
(* The types.                                                              *)

LEMMA JobTypesInit == JobInit => JobTypes
BY JobsAssumption DEF JobInit, JobTypes, Records, Record, Absent, Statuses, Processes, WorkerPcs, CliPcs,
   HoldPcs, Commands

LEMMA JobTypesStep == JobTypes /\ [JobNext]_jobVars => JobTypes'
<1> SUFFICES ASSUME JobTypes, [JobNext]_jobVars PROVE JobTypes'
  OBVIOUS
<1>n. Jobs \subseteq Nat /\ NoJob \notin Jobs /\ Named \subseteq Jobs /\ MaxRetries \in Nat /\ MaxDeaths \in Nat
  BY JobsAssumption
<1>a. Absent \in Records /\ Record("queued", FALSE) \in Records /\ Record("succeeded", TRUE) \in Records
  BY DEF Absent, Record, Records, Statuses
<1>m. \A r \in Records : \A status \in Statuses : Transition(r, status) \in Records
  BY Transitioned
<1>q. Queued # {} => First(Queued) \in Jobs
  BY <1>n, FirstListed DEF Queued
<1>p. Processes = {"worker", "cli"}
  BY DEF Processes
<1> USE <1>n, <1>a, <1>m, <1>p DEF JobTypes, durableVars, processVars, jobHistory, Go, Hold, Release, Keep, Save,
        WorkerPcs, CliPcs, HoldPcs
<1>1. CASE StartWorker
  BY <1>1 DEF StartWorker, Open, OnDisk
<1>2. CASE ListInbox
  BY <1>2 DEF ListInbox
<1>3. ASSUME NEW j \in Jobs, Ingest(j) PROVE JobTypes'
  <2>1. EnqueueCheck("worker", j, "ingested") /\ todo' = [todo EXCEPT !["worker"] = @ \ {j}]
    BY <1>3 DEF Ingest
  <2>2. /\ \/ Go("worker", "ingested") /\ Hold("worker", j, Absent)
           \/ Go("worker", "enqueue_save") /\ Hold("worker", j, Record("queued", FALSE))
        /\ UNCHANGED <<disk, inbox, built, target, credit, overlapped, retries, deaths>>
    BY ONLY <2>1, EnqueueChecked
  <2>3. CASE Go("worker", "ingested") /\ Hold("worker", j, Absent)
    BY <2>1, <2>2, <2>3
  <2>4. CASE Go("worker", "enqueue_save") /\ Hold("worker", j, Record("queued", FALSE))
    BY <2>1, <2>2, <2>4
  <2> QED BY <2>2, <2>3, <2>4
<1>4. CASE IngestSave
  <2>1. held["worker"] \in Jobs /\ (UNCHANGED credit \/ credit' = [credit EXCEPT ![held["worker"]] = @ + 1])
    BY <1>4 DEF IngestSave, EnqueueSave
  <2>2. credit' \in [Jobs -> Int]
    BY <2>1, CreditTyped
  <2>3. EnqueueSave("worker", "ingested")
    BY <1>4 DEF IngestSave
  <2>4. UNCHANGED overlapped \/ overlapped' = overlapped \cup {held["worker"]}
    BY ONLY <2>3, Enqueued
  <2>5. overlapped \subseteq Jobs
    BY DEF JobTypes
  <2>6. overlapped' \subseteq Jobs
    BY ONLY <2>1, <2>4, <2>5
  <2>7. disk' = [disk EXCEPT ![held["worker"]] = copy["worker"]] /\ Go("worker", "ingested")
    BY <1>4 DEF IngestSave, EnqueueSave
  <2>8. Hold("worker", held["worker"], Absent) /\ UNCHANGED <<inbox, built, todo, target, retries, deaths>>
    BY <1>4 DEF IngestSave, EnqueueSave
  <2> QED BY <2>1, <2>2, <2>6, <2>7, <2>8
<1>5. CASE Ingested
  BY <1>5 DEF Ingested
<1>6. CASE Pick
  <2>1. CASE Queued = {}
    BY <1>6, <2>1 DEF Pick
  <2>2. CASE Queued # {}
    <3>1. First(Queued) \in Jobs /\ Transition(disk[First(Queued)], "running") \in Records
      BY <1>q, <2>2 DEF Statuses
    <3> QED BY <1>6, <2>2, <3>1 DEF Pick
  <2> QED BY <2>1, <2>2
<1>7. CASE StartRun
  <2>1. held["worker"] \in Jobs /\ credit' = [credit EXCEPT ![held["worker"]] = @ - 1]
    BY <1>7 DEF StartRun, SaveRunning
  <2>2. credit' \in [Jobs -> Int]
    BY <2>1, CreditTyped
  <2>3. /\ disk' = [disk EXCEPT ![held["worker"]] = copy["worker"]] /\ Go("worker", "train")
        /\ UNCHANGED <<inbox, built, todo, held, copy, target, overlapped, retries, deaths>>
    BY <1>7 DEF StartRun, SaveRunning
  <2> QED BY <2>1, <2>2, <2>3
<1>8. CASE Train
  BY <1>8 DEF Train, SaveRunning
<1>9. CASE Build
  BY <1>9 DEF Build
<1>10. CASE ExecuteFails
  BY <1>10 DEF ExecuteFails
<1>11. CASE SaveResult
  BY <1>11 DEF SaveResult, Statuses
<1>12. CASE Submit
  <2>1. target.job \in Jobs /\ EnqueueCheck("cli", target.job, "down") /\ UNCHANGED todo
    BY <1>12 DEF Submit
  <2>2. /\ \/ Go("cli", "down") /\ UNCHANGED <<held, copy>>
           \/ Go("cli", "enqueue_save") /\ Hold("cli", target.job, Record("queued", FALSE))
        /\ UNCHANGED <<disk, inbox, built, target, credit, overlapped, retries, deaths>>
    BY ONLY <2>1, EnqueueChecked
  <2>3. CASE Go("cli", "down") /\ UNCHANGED <<held, copy>>
    BY <2>1, <2>2, <2>3
  <2>4. CASE Go("cli", "enqueue_save") /\ Hold("cli", target.job, Record("queued", FALSE))
    BY <2>1, <2>2, <2>4
  <2> QED BY <2>2, <2>3, <2>4
<1>13. CASE SubmitSave
  <2>1. held["cli"] \in Jobs /\ (UNCHANGED credit \/ credit' = [credit EXCEPT ![held["cli"]] = @ + 1])
    BY <1>13 DEF SubmitSave, EnqueueSave
  <2>2. credit' \in [Jobs -> Int]
    BY <2>1, CreditTyped
  <2>3. EnqueueSave("cli", "down")
    BY <1>13 DEF SubmitSave
  <2>4. UNCHANGED overlapped \/ overlapped' = overlapped \cup {held["cli"]}
    BY ONLY <2>3, Enqueued
  <2>5. overlapped \subseteq Jobs
    BY DEF JobTypes
  <2>6. overlapped' \subseteq Jobs
    BY ONLY <2>1, <2>4, <2>5
  <2>7. disk' = [disk EXCEPT ![held["cli"]] = copy["cli"]] /\ Go("cli", "down") /\ Release("cli")
    BY <1>13 DEF SubmitSave, EnqueueSave
  <2>8. UNCHANGED <<inbox, built, todo, target, retries, deaths>>
    BY <1>13 DEF SubmitSave, EnqueueSave
  <2> QED BY <2>1, <2>2, <2>6, <2>7, <2>8
<1>14. CASE Judge
  <2>0. target.job \in Jobs
    BY <1>14 DEF Judge
  <2>1. PICK status \in {"queued", "cancelled"} :
          \/ Hold("cli", target.job, Transition(disk[target.job], status)) /\ Go("cli", "save")
          \/ Go("cli", "down") /\ Keep
    BY <1>14 DEF Judge
  <2>2. Transition(disk[target.job], status) \in Records
    BY <2>0 DEF Statuses
  <2>3. UNCHANGED <<disk, inbox, built, todo, target, credit, overlapped, retries, deaths>>
    BY <1>14 DEF Judge
  <2> QED BY <2>0, <2>1, <2>2, <2>3
<1>15. CASE SaveJudged
  <2>1. held["cli"] \in Jobs /\ (UNCHANGED credit \/ credit' = [credit EXCEPT ![held["cli"]] = @ + 1])
    BY <1>15 DEF SaveJudged
  <2>2. credit' \in [Jobs -> Int]
    BY <2>1, CreditTyped
  <2>3. disk' = [disk EXCEPT ![held["cli"]] = copy["cli"]] /\ Go("cli", "down") /\ Release("cli")
    BY <1>15 DEF SaveJudged
  <2>4. UNCHANGED <<inbox, built, todo, target, overlapped, retries, deaths>>
    BY <1>15 DEF SaveJudged
  <2> QED BY <2>1, <2>2, <2>3, <2>4
<1>16. ASSUME NEW j \in Named, NEW c \in Commands, RunCommand(c, j) PROVE JobTypes'
  BY <1>16 DEF RunCommand, Open, OnDisk, Commands
<1>17. ASSUME NEW p \in Processes, NEW j \in Jobs, RecoverRead(p, j) PROVE JobTypes'
  BY <1>17 DEF RecoverRead, Statuses
<1>18. ASSUME NEW p \in Processes, RecoverSave(p) PROVE JobTypes'
  BY <1>18 DEF RecoverSave
<1>19. ASSUME NEW p \in Processes, Opened(p) PROVE JobTypes'
  BY <1>19 DEF Opened, Commands
<1>20. ASSUME NEW p \in Processes, Die(p) PROVE JobTypes'
  BY <1>20 DEF Die
<1>21. ASSUME NEW j \in Jobs, Deliver(j) PROVE JobTypes'
  BY <1>21 DEF Deliver
<1>22. CASE UNCHANGED jobVars
  BY <1>22 DEF jobVars
<1> QED BY JobCases, <1>1, <1>2, <1>3, <1>4, <1>5, <1>6, <1>7, <1>8, <1>9, <1>10, <1>11, <1>12, <1>13,
           <1>14, <1>15, <1>16, <1>17, <1>18, <1>19, <1>20, <1>21, <1>22

-----------------------------------------------------------------------------
(* The records in memory.                                                *)

LEMMA CopiesFollowStep == JobTypes /\ CopiesFollow /\ [JobNext]_jobVars => CopiesFollow'
<1> SUFFICES ASSUME JobTypes, CopiesFollow, [JobNext]_jobVars PROVE CopiesFollow'
  OBVIOUS
<1>p. Processes = {"worker", "cli"}
  BY DEF Processes
<1>t. /\ pc \in [Processes -> WorkerPcs \cup CliPcs] /\ pc["worker"] \in WorkerPcs /\ pc["cli"] \in CliPcs
      /\ held \in [Processes -> Jobs \cup {NoJob}] /\ copy \in [Processes -> Records]
  BY DEF JobTypes
<1> USE <1>p, <1>t DEF CopiesFollow, WorkerPcs, CliPcs, durableVars, processVars, jobHistory, Go, Hold, Release,
        Keep
<1>1. CASE StartWorker
  BY <1>1 DEF StartWorker, Open
<1>2. CASE ListInbox
  BY <1>2 DEF ListInbox
<1>3. ASSUME NEW j \in Jobs, Ingest(j) PROVE CopiesFollow'
  <2>1. EnqueueCheck("worker", j, "ingested")
    BY <1>3 DEF Ingest
  <2>2. /\ \/ Go("worker", "ingested") /\ Hold("worker", j, Absent)
           \/ Go("worker", "enqueue_save") /\ Hold("worker", j, Record("queued", FALSE))
        /\ UNCHANGED built
    BY ONLY <2>1, EnqueueChecked
  <2>3. CASE Go("worker", "ingested") /\ Hold("worker", j, Absent)
    BY <2>2, <2>3
  <2>4. CASE Go("worker", "enqueue_save") /\ Hold("worker", j, Record("queued", FALSE))
    BY <2>2, <2>4 DEF Record
  <2> QED BY <2>2, <2>3, <2>4
<1>4. CASE IngestSave
  BY <1>4 DEF IngestSave, EnqueueSave
<1>5. CASE Ingested
  BY <1>5 DEF Ingested
<1>6. CASE Pick
  <2>1. CASE Queued = {}
    BY <1>6, <2>1 DEF Pick
  <2>2. CASE Queued # {}
    <3>1. First(Queued) \in Jobs
      BY <2>2, JobsAssumption, FirstListed DEF Queued
    <3>2. Transition(disk[First(Queued)], "running").status = "running"
      BY <3>1, Transitioned DEF JobTypes, Statuses
    <3> QED BY <1>6, <2>2, <3>2 DEF Pick
  <2> QED BY <2>1, <2>2
<1>7. CASE StartRun
  BY <1>7 DEF StartRun, SaveRunning
<1>8. CASE Train
  BY <1>8 DEF Train, SaveRunning
<1>9. CASE Build
  BY <1>9 DEF Build
<1>10. CASE ExecuteFails
  BY <1>10 DEF ExecuteFails
<1>11. CASE SaveResult
  BY <1>11 DEF SaveResult
<1>12. CASE Submit
  <2>1. EnqueueCheck("cli", target.job, "down")
    BY <1>12 DEF Submit
  <2>2. /\ \/ Go("cli", "down") /\ UNCHANGED <<held, copy>>
           \/ Go("cli", "enqueue_save") /\ Hold("cli", target.job, Record("queued", FALSE))
        /\ UNCHANGED built
    BY ONLY <2>1, EnqueueChecked
  <2>3. CASE Go("cli", "down") /\ UNCHANGED <<held, copy>>
    BY <2>2, <2>3
  <2>4. CASE Go("cli", "enqueue_save") /\ Hold("cli", target.job, Record("queued", FALSE))
    BY <2>2, <2>4 DEF Record
  <2> QED BY <2>2, <2>3, <2>4
<1>13. CASE SubmitSave
  BY <1>13 DEF SubmitSave, EnqueueSave
<1>14. CASE Judge
  <2>0. target.job \in Jobs
    BY <1>14 DEF Judge, JobTypes
  <2>1. PICK status \in {"queued", "cancelled"} :
          \/ Hold("cli", target.job, Transition(disk[target.job], status)) /\ Go("cli", "save")
          \/ Go("cli", "down") /\ Keep
    BY <1>14 DEF Judge
  <2>2. Transition(disk[target.job], status).status = status
    BY <2>0, Transitioned DEF Statuses, JobTypes
  <2>3. UNCHANGED built
    BY <1>14 DEF Judge
  <2>4. CASE Hold("cli", target.job, Transition(disk[target.job], status)) /\ Go("cli", "save")
    BY <2>2, <2>3, <2>4
  <2>5. CASE Go("cli", "down") /\ Keep
    BY <2>3, <2>5
  <2> QED BY <2>1, <2>4, <2>5
<1>15. CASE SaveJudged
  BY <1>15 DEF SaveJudged
<1>16. ASSUME NEW j \in Named, NEW c \in Commands, RunCommand(c, j) PROVE CopiesFollow'
  BY <1>16 DEF RunCommand, Open
<1>17. ASSUME NEW p \in Processes, NEW j \in Jobs, RecoverRead(p, j) PROVE CopiesFollow'
  <2>1. CASE disk[j].status = "running"
    <3>1. Transition(disk[j], "interrupted").status = "interrupted"
      BY Transitioned DEF JobTypes, Statuses
    <3> QED BY <1>17, <2>1, <3>1 DEF RecoverRead
  <2>2. CASE disk[j].status # "running"
    BY <1>17, <2>2 DEF RecoverRead
  <2> QED BY <2>1, <2>2
<1>18. ASSUME NEW p \in Processes, RecoverSave(p) PROVE CopiesFollow'
  BY <1>18 DEF RecoverSave
<1>19. ASSUME NEW p \in Processes, Opened(p) PROVE CopiesFollow'
  BY <1>19 DEF Opened, Commands, JobTypes
<1>20. ASSUME NEW p \in Processes, Die(p) PROVE CopiesFollow'
  BY <1>20 DEF Die
<1>21. ASSUME NEW j \in Jobs, Deliver(j) PROVE CopiesFollow'
  BY <1>21 DEF Deliver
<1>22. CASE UNCHANGED jobVars
  BY <1>22 DEF jobVars
<1> QED BY JobCases, <1>1, <1>2, <1>3, <1>4, <1>5, <1>6, <1>7, <1>8, <1>9, <1>10, <1>11, <1>12, <1>13,
           <1>14, <1>15, <1>16, <1>17, <1>18, <1>19, <1>20, <1>21, <1>22

-----------------------------------------------------------------------------
(* The records on disk.                                                  *)

\* save replaces one record.
LEMMA DiskAfter ==
  ASSUME JobTypes, NEW p \in Processes, held[p] \in Jobs, NEW r, Save(p, r), NEW j \in Jobs
  PROVE  disk'[j] = IF j = held[p] THEN r ELSE disk[j]
BY DEF Save, JobTypes

\* A step that saves nothing leaves every record alone.
Saving == \/ IngestSave \/ SubmitSave \/ StartRun \/ Train \/ SaveResult \/ SaveJudged
          \/ \E p \in Processes : RecoverSave(p)
LEMMA DiskKept ==
  ASSUME [JobNext]_jobVars, ~Saving
  PROVE  UNCHANGED <<disk, credit, overlapped>>
<1>1. (\E j \in Jobs : Ingest(j)) \/ Submit => UNCHANGED <<disk, credit, overlapped>>
  BY EnqueueChecked DEF Ingest, Submit
<1> QED BY JobCases, <1>1 DEF Saving, StartWorker, Open, ListInbox, Ingested, Pick, Build, ExecuteFails, Judge,
           RunCommand, RecoverRead, Opened, Die, Deliver, jobVars, durableVars, jobHistory

\* What each save writes, and what it adds to the credit of the job.
Submits(p) ==
  /\ pc[p] = "enqueue_save" /\ pc'[p] \notin SavingPcs /\ disk'[held[p]].status = "queued"
  /\ disk[held[p]].status = "absent" =>
       /\ credit'[held[p]] = credit[held[p]] + 1
       /\ AlsoSubmits(p, held[p]) => held[p] \in overlapped'
  /\ disk[held[p]].status # "absent" => UNCHANGED <<credit, overlapped>>
Rewrites(p) ==
  /\ pc[p] \in SavingPcs /\ UNCHANGED overlapped
  /\ pc'[p] \in SavingPcs => held'[p] = held[p]
  /\ \/ disk'[held[p]].status = "queued" /\ credit'[held[p]] = credit[held[p]] + 1
     \/ disk'[held[p]].status \in {"interrupted", "cancelled"} /\ credit'[held[p]] = credit[held[p]]
     \/ /\ p = "worker" /\ pc["worker"] = "start" /\ pc'["worker"] = "train"
        /\ disk'[held[p]].status = "running" /\ credit'[held[p]] = credit[held[p]] - 1
     \/ /\ p = "worker" /\ pc["worker"] = "train" /\ pc'["worker"] = "build"
        /\ disk'[held[p]].status = "running" /\ credit'[held[p]] = credit[held[p]]
     \/ /\ p = "worker" /\ pc["worker"] = "succeed" /\ disk'[held[p]] = Record("succeeded", TRUE)
        /\ credit'[held[p]] = credit[held[p]]
     \/ /\ p = "worker" /\ pc["worker"] = "fail" /\ disk'[held[p]].status = "failed"
        /\ credit'[held[p]] = credit[held[p]]
Writes(p) ==
  /\ held[p] \in Jobs /\ pc'[p] # "enqueue_save"
  /\ \A j \in Jobs \ {held[p]} : /\ disk'[j] = disk[j] /\ credit'[j] = credit[j]
                                 /\ j \in overlapped' <=> j \in overlapped
  /\ \A q \in Processes \ {p} : pc'[q] = pc[q] /\ held'[q] = held[q]
  /\ Submits(p) \/ Rewrites(p)
\* A save is of the process's own record, and leaves the other process alone.
LEMMA SaveAlone ==
  ASSUME JobTypes, NEW p \in Processes, held[p] \in Jobs, NEW r \in Records, Save(p, r),
         NEW step, step # "enqueue_save", Go(p, step), NEW k, NEW c, Hold(p, k, c),
         \/ UNCHANGED credit \/ credit' = [credit EXCEPT ![held[p]] = @ + 1]
         \/ credit' = [credit EXCEPT ![held[p]] = @ - 1],
         UNCHANGED overlapped \/ overlapped' = overlapped \cup {held[p]},
         Submits(p) \/ Rewrites(p)
  PROVE  Writes(p)
<1>1. \A j \in Jobs \ {held[p]} : disk'[j] = disk[j]
  BY DiskAfter
<1>2. \A j \in Jobs \ {held[p]} : credit'[j] = credit[j]
  BY DEF JobTypes
<1>3. \A j \in Jobs \ {held[p]} : j \in overlapped' <=> j \in overlapped
  OBVIOUS
<1>4. pc'[p] = step /\ \A q \in Processes \ {p} : pc'[q] = pc[q] /\ held'[q] = held[q]
  BY DEF JobTypes, Go, Hold
<1> QED BY <1>1, <1>2, <1>3, <1>4 DEF Writes
LEMMA SaveWrites ==
  ASSUME JobTypes, CopiesFollow, [JobNext]_jobVars, Saving
  PROVE  \E p \in Processes : Writes(p)
<1>w. "worker" \in Processes /\ "cli" \in Processes
  BY DEF Processes
<1>h. \A p \in Processes : pc[p] \in HoldPcs => held[p] \in Jobs
  BY DEF JobTypes
<1>c. credit \in [Jobs -> Int] /\ pc \in [Processes -> WorkerPcs \cup CliPcs]
      /\ held \in [Processes -> Jobs \cup {NoJob}] /\ copy \in [Processes -> Records]
  BY DEF JobTypes
<1>q. ASSUME NEW p \in Processes, NEW done \in {"ingested", "down"}, EnqueueSave(p, done) PROVE Writes(p)
  <2>1. pc[p] = "enqueue_save" /\ Save(p, copy[p]) /\ Go(p, done)
    BY <1>q DEF EnqueueSave
  <2>2. held[p] \in Jobs /\ copy[p].status = "queued" /\ copy[p] \in Records
    BY <2>1, <1>h, <1>c DEF HoldPcs, CopiesFollow
  <2>3. disk'[held[p]] = copy[p]
    BY <2>1, <2>2, DiskAfter
  <2>6. pc'[p] \notin SavingPcs
    BY <2>1, <1>c DEF Go, SavingPcs
  <2>4. CASE disk[held[p]].status = "absent"
    <3>1. /\ credit' = [credit EXCEPT ![held[p]] = @ + 1]
          /\ overlapped' = IF AlsoSubmits(p, held[p]) THEN overlapped \cup {held[p]} ELSE overlapped
      BY <1>q, <2>4 DEF EnqueueSave
    <3>2. Submits(p)
      BY <3>1, <2>1, <2>2, <2>3, <2>4, <2>6, <1>c DEF Submits
    <3>3. \E k, c : Hold(p, k, c)
      BY <1>q DEF EnqueueSave, Release
    <3> QED BY <3>1, <3>2, <3>3, <2>1, <2>2, SaveAlone
  <2>5. CASE disk[held[p]].status # "absent"
    <3>1. UNCHANGED <<credit, overlapped>>
      BY <1>q, <2>5 DEF EnqueueSave
    <3>2. Submits(p)
      BY <3>1, <2>1, <2>2, <2>3, <2>5, <2>6 DEF Submits
    <3>3. \E k, c : Hold(p, k, c)
      BY <1>q DEF EnqueueSave, Release
    <3> QED BY <3>1, <3>2, <3>3, <2>1, <2>2, SaveAlone
  <2> QED BY <2>4, <2>5
<1>r. ASSUME NEW step \in {"start", "train"}, NEW next \in {"train", "build"}, SaveRunning(step, next)
      PROVE  /\ pc["worker"] = step /\ Save("worker", copy["worker"]) /\ Go("worker", next)
             /\ UNCHANGED <<held, overlapped>> /\ \E k, c : Hold("worker", k, c)
             /\ held["worker"] \in Jobs /\ copy["worker"].status = "running" /\ copy["worker"] \in Records
             /\ disk'[held["worker"]] = copy["worker"] /\ pc'["worker"] = next /\ held'["worker"] = held["worker"]
  <2>1. pc["worker"] = step /\ Save("worker", copy["worker"]) /\ Go("worker", next) /\ UNCHANGED <<held, copy, overlapped>>
    BY <1>r DEF SaveRunning
  <2>2. held["worker"] \in Jobs /\ copy["worker"].status = "running" /\ copy["worker"] \in Records
    BY <2>1, <1>h, <1>w, <1>c DEF HoldPcs, CopiesFollow
  <2>3. disk'[held["worker"]] = copy["worker"]
    BY <2>1, <2>2, <1>w, DiskAfter
  <2>4. pc'["worker"] = next
    BY <2>1, <1>w, <1>c DEF Go
  <2>5. Hold("worker", held["worker"], copy["worker"])
    BY <2>1, <1>w, <1>c DEF Hold
  <2> QED BY <2>1, <2>2, <2>3, <2>4, <2>5
<1>1. CASE IngestSave
  BY <1>1, <1>w, <1>q DEF IngestSave
<1>2. CASE SubmitSave
  BY <1>2, <1>w, <1>q DEF SubmitSave
<1>3. CASE StartRun
  <2>1. SaveRunning("start", "train") /\ credit' = [credit EXCEPT ![held["worker"]] = @ - 1]
    BY <1>3 DEF StartRun
  <2>2. Rewrites("worker")
    BY <2>1, <1>r, <1>c DEF Rewrites, SavingPcs
  <2>3. Writes("worker")
    BY <2>1, <2>2, <1>r, <1>w, SaveAlone
  <2> QED BY <2>3, <1>w
<1>4. CASE Train
  <2>1. SaveRunning("train", "build") /\ UNCHANGED credit
    BY <1>4 DEF Train
  <2>2. Rewrites("worker")
    BY <2>1, <1>r, <1>c DEF Rewrites, SavingPcs
  <2>3. Writes("worker")
    BY <2>1, <2>2, <1>r, <1>w, SaveAlone
  <2> QED BY <2>3, <1>w
<1>5. CASE SaveResult
  <2> DEFINE r == IF pc["worker"] = "succeed" THEN Record("succeeded", TRUE) ELSE Transition(copy["worker"], "failed")
  <2>1. /\ pc["worker"] \in {"succeed", "fail"} /\ Save("worker", r) /\ UNCHANGED <<credit, overlapped>>
        /\ Go("worker", "poll") /\ Hold("worker", NoJob, Absent)
    BY <1>5 DEF SaveResult, jobHistory, Release
  <2>2. held["worker"] \in Jobs
    BY <2>1, <1>h, <1>w DEF HoldPcs
  <2>3. Transition(copy["worker"], "failed").status = "failed" /\ Transition(copy["worker"], "failed") \in Records
    BY <1>w, <1>c, Transitioned DEF Statuses
  <2>4. r \in Records
    BY <2>3 DEF Record, Records, Statuses
  <2> HIDE DEF r
  <2>5. disk'[held["worker"]] = r
    BY <2>1, <2>2, <1>w, DiskAfter
  <2>6. pc'["worker"] = "poll"
    BY <2>1, <1>w, <1>c DEF Go
  <2>7. Rewrites("worker")
    BY <2>1, <2>2, <2>3, <2>5, <2>6 DEF r, Rewrites, SavingPcs
  <2>8. Writes("worker")
    BY <2>1, <2>2, <2>4, <2>7, <1>w, SaveAlone
  <2> QED BY <2>8, <1>w
<1>6. CASE SaveJudged
  <2>1. /\ pc["cli"] = "save" /\ Save("cli", copy["cli"])
        /\ credit' = IF copy["cli"].status = "queued" THEN [credit EXCEPT ![held["cli"]] = @ + 1] ELSE credit
        /\ Go("cli", "down") /\ Hold("cli", NoJob, Absent) /\ UNCHANGED overlapped
    BY <1>6 DEF SaveJudged, Release
  <2>2. held["cli"] \in Jobs /\ copy["cli"].status \in {"queued", "cancelled"} /\ copy["cli"] \in Records
    BY <2>1, <1>h, <1>w, <1>c DEF HoldPcs, CopiesFollow
  <2>3. disk'[held["cli"]] = copy["cli"]
    BY <2>1, <2>2, <1>w, DiskAfter
  <2>4. pc'["cli"] = "down"
    BY <2>1, <1>w, <1>c DEF Go
  <2>5. Rewrites("cli")
    BY <2>1, <2>2, <2>3, <2>4, <1>c DEF Rewrites, SavingPcs
  <2>6. Writes("cli")
    BY <2>1, <2>2, <2>5, <1>w, SaveAlone
  <2> QED BY <2>6, <1>w
<1>7. ASSUME NEW p \in Processes, RecoverSave(p) PROVE Writes(p)
  <2>1. /\ pc[p] = "recover_save" /\ Save(p, copy[p]) /\ UNCHANGED <<credit, overlapped>>
        /\ Go(p, "recover") /\ Hold(p, NoJob, Absent)
    BY <1>7 DEF RecoverSave, jobHistory, Release
  <2>2. held[p] \in Jobs /\ copy[p].status = "interrupted" /\ copy[p] \in Records
    BY <2>1, <1>h, <1>c DEF HoldPcs, CopiesFollow
  <2>3. disk'[held[p]] = copy[p]
    BY <2>1, <2>2, DiskAfter
  <2>4. pc'[p] = "recover"
    BY <2>1, <1>c DEF Go
  <2>5. Rewrites(p)
    BY <2>1, <2>2, <2>3, <2>4 DEF Rewrites, SavingPcs
  <2> QED BY <2>1, <2>2, <2>5, SaveAlone
<1> QED BY <1>1, <1>2, <1>3, <1>4, <1>5, <1>6, <1>7 DEF Saving

-----------------------------------------------------------------------------
(* What the records say.                                                 *)

\* The worker comes to start a job by picking it.
LEMMA StartsPicked ==
  ASSUME JobTypes, [JobNext]_jobVars, pc'["worker"] = "start"
  PROVE  \/ pc["worker"] = "start" /\ held'["worker"] = held["worker"]
         \/ /\ held'["worker"] \in Jobs /\ disk[held'["worker"]].status = "queued"
            /\ UNCHANGED <<disk, credit>>
<1>t. /\ pc \in [Processes -> WorkerPcs \cup CliPcs] /\ held \in [Processes -> Jobs \cup {NoJob}]
      /\ Processes = {"worker", "cli"}
  BY DEF JobTypes, Processes
<1>1. CASE Pick
  <2>1. CASE Queued = {}
    BY <1>1, <2>1, <1>t DEF Pick, Go, Keep
  <2>2. CASE Queued # {}
    <3>1. First(Queued) \in Queued
      BY <2>2, JobsAssumption, FirstListed DEF Queued
    <3>2. held'["worker"] = First(Queued)
      BY <1>1, <2>2, <1>t DEF Pick, Hold
    <3> QED BY <1>1, <3>1, <3>2 DEF Pick, Queued, durableVars, jobHistory
  <2> QED BY <2>1, <2>2
<1>2. ASSUME NEW j \in Jobs, Ingest(j) PROVE FALSE
  <2>1. EnqueueCheck("worker", j, "ingested")
    BY <1>2 DEF Ingest
  <2>2. Go("worker", "ingested") \/ Go("worker", "enqueue_save")
    BY ONLY <2>1, EnqueueChecked
  <2> QED BY <2>2, <1>t DEF Go
<1>3. CASE Submit
  <2>1. EnqueueCheck("cli", target.job, "down")
    BY <1>3 DEF Submit
  <2>2. \/ Go("cli", "down") /\ UNCHANGED held
        \/ Go("cli", "enqueue_save") /\ Hold("cli", target.job, Record("queued", FALSE))
    BY ONLY <2>1, EnqueueChecked
  <2> QED BY <2>2, <1>t DEF Go, Hold
<1>4. ASSUME NEW p \in Processes, NEW j \in Jobs, RecoverRead(p, j)
      PROVE  pc["worker"] = "start" /\ held'["worker"] = held["worker"]
  <2>1. CASE disk[j].status = "running"
    BY <1>4, <2>1, <1>t DEF RecoverRead, Hold, Go
  <2>2. CASE disk[j].status # "running"
    BY <1>4, <2>2, <1>t DEF RecoverRead, Keep
  <2> QED BY <2>1, <2>2
<1>5. CASE Judge
  BY <1>5, <1>t DEF Judge, Go, Hold, Keep
<1>6. ASSUME NEW p \in Processes, RecoverSave(p) \/ Opened(p) \/ Die(p)
      PROVE  pc["worker"] = "start" /\ held'["worker"] = held["worker"]
  BY <1>6, <1>t DEF RecoverSave, Opened, Die, Go, Release, Hold, Commands, JobTypes
<1>7. CASE IngestSave \/ SubmitSave
  BY <1>7, <1>t DEF IngestSave, SubmitSave, EnqueueSave, Go, Release, Hold
<1>8. ASSUME NEW j \in Named, NEW c \in Commands, RunCommand(c, j)
      PROVE  pc["worker"] = "start" /\ held'["worker"] = held["worker"]
  BY <1>8, <1>t DEF RunCommand, Open, Go
<1>9. CASE \E j \in Jobs : Deliver(j)
  BY <1>9 DEF Deliver, processVars
<1>10. CASE UNCHANGED jobVars
  BY <1>10 DEF jobVars, processVars
<1>11. CASE \/ StartWorker \/ ListInbox \/ Ingested \/ StartRun \/ Train \/ Build \/ ExecuteFails \/ SaveResult
            \/ SaveJudged
  BY <1>11, <1>t DEF StartWorker, Open, ListInbox, Ingested, StartRun, Train, SaveRunning, Build, ExecuteFails,
     SaveResult, SaveJudged, Go, Release, Hold
<1> QED BY JobCases, <1>1, <1>2, <1>3, <1>4, <1>5, <1>6, <1>7, <1>8, <1>9, <1>10, <1>11

\* A submission starts where there is no record, and another record to save is one
\* that was there.
LEMMA HeldWhenRead ==
  ASSUME JobTypes, [JobNext]_jobVars, ~Saving, NEW p \in Processes, NEW j \in Jobs
  PROVE  /\ Submitting(p, j)' => Submitting(p, j) \/ disk[j].status = "absent"
         /\ pc'[p] \in SavingPcs /\ held'[p] = j =>
              (pc[p] \in SavingPcs /\ held[p] = j) \/ disk[j].status # "absent"
<1>t. /\ pc \in [Processes -> WorkerPcs \cup CliPcs] /\ held \in [Processes -> Jobs \cup {NoJob}]
      /\ Processes = {"worker", "cli"}
  BY DEF JobTypes, Processes
<1> DEFINE Goal == /\ Submitting(p, j)' => Submitting(p, j) \/ disk[j].status = "absent"
                   /\ pc'[p] \in SavingPcs /\ held'[p] = j =>
                        (pc[p] \in SavingPcs /\ held[p] = j) \/ disk[j].status # "absent"
<1>e. ASSUME NEW q \in Processes, NEW k, NEW done \in {"ingested", "down"}, EnqueueCheck(q, k, done) PROVE Goal
  <2>1. CASE k \in Refused \/ disk[k].status # "absent"
    <3>1. Go(q, done) /\ (UNCHANGED held \/ held' = [held EXCEPT ![q] = k])
      BY <1>e, <2>1 DEF EnqueueCheck, Keep, Hold
    <3> QED BY <3>1, <1>t DEF Go, Submitting, SavingPcs
  <2>2. CASE ~(k \in Refused \/ disk[k].status # "absent")
    <3>1. Go(q, "enqueue_save") /\ held' = [held EXCEPT ![q] = k] /\ disk[k].status = "absent"
      BY <1>e, <2>2 DEF EnqueueCheck, Hold
    <3> QED BY <3>1, <1>t DEF Go, Submitting, SavingPcs
  <2> QED BY <2>1, <2>2
<1>1. CASE Submit \/ \E k \in Jobs : Ingest(k)
  BY <1>1, <1>e, <1>t DEF Submit, Ingest
<1>2. CASE Pick
  <2>1. CASE Queued = {}
    BY <1>2, <2>1, <1>t DEF Pick, Go, Keep, Submitting, SavingPcs
  <2>2. CASE Queued # {}
    <3>1. First(Queued) \in Queued
      BY <2>2, JobsAssumption, FirstListed DEF Queued
    <3>2. Go("worker", "start") /\ held' = [held EXCEPT !["worker"] = First(Queued)]
      BY <1>2, <2>2 DEF Pick, Hold
    <3> QED BY <3>1, <3>2, <1>t DEF Queued, Go, Submitting, SavingPcs
  <2> QED BY <2>1, <2>2
<1>3. ASSUME NEW q \in Processes, NEW k \in Jobs, RecoverRead(q, k) PROVE Goal
  <2>1. CASE disk[k].status = "running"
    <3>1. Go(q, "recover_save") /\ held' = [held EXCEPT ![q] = k]
      BY <1>3, <2>1 DEF RecoverRead, Hold
    <3> QED BY <3>1, <2>1, <1>t DEF Go, Submitting, SavingPcs
  <2>2. CASE disk[k].status # "running"
    BY <1>3, <2>2, <1>t DEF RecoverRead, Keep, Submitting
  <2> QED BY <2>1, <2>2
<1>4. CASE Judge
  <2>1. CASE Go("cli", "down") /\ Keep
    BY <2>1, <1>t DEF Go, Keep, Submitting, SavingPcs
  <2>2. CASE ~(Go("cli", "down") /\ Keep)
    <3>1. disk[target.job].status \in Retryable \cup Cancellable
      BY <1>4, <2>2 DEF Judge
    <3>2. Go("cli", "save") /\ held' = [held EXCEPT !["cli"] = target.job]
      BY <1>4, <2>2 DEF Judge, Hold
    <3>3. disk[target.job].status # "absent"
      BY <3>1 DEF Retryable, Cancellable
    <3> QED BY <3>2, <3>3, <1>t DEF Go, Submitting, SavingPcs
  <2> QED BY <2>1, <2>2
<1>5. ASSUME NEW q \in Processes, Opened(q) \/ Die(q) PROVE Goal
  BY <1>5, <1>t DEF Opened, Die, Go, Release, Hold, Commands, JobTypes, Submitting, SavingPcs
<1>6. CASE StartWorker \/ \E k \in Named, c \in Commands : RunCommand(c, k)
  BY <1>6, <1>t DEF StartWorker, RunCommand, Open, Go, Submitting, SavingPcs
<1>7. CASE ListInbox \/ Ingested \/ Build \/ ExecuteFails
  BY <1>7, <1>t DEF ListInbox, Ingested, Build, ExecuteFails, Go, Release, Hold, Submitting, SavingPcs
<1>8. CASE (\E k \in Jobs : Deliver(k)) \/ UNCHANGED jobVars
  BY <1>8 DEF Deliver, jobVars, processVars, Submitting
<1> QED BY JobCases, <1>1, <1>2, <1>3, <1>4, <1>5, <1>6, <1>7, <1>8 DEF Saving

LEMMA OverlapsToldStep ==
  JobTypes /\ CopiesFollow /\ OverlapsTold /\ [JobNext]_jobVars => OverlapsTold'
<1> SUFFICES ASSUME JobTypes, CopiesFollow, OverlapsTold, [JobNext]_jobVars, NEW j \in Jobs
             PROVE  /\ j \in overlapped' => disk'[j].status # "absent"
                    /\ disk'[j].status # "absent" =>
                         \A p \in Processes : Submitting(p, j)' => j \in overlapped' /\ ~ AlsoSubmits(p, j)'
                    /\ \A p \in Processes : pc'[p] \in SavingPcs /\ held'[p] = j => disk'[j].status # "absent"
  BY DEF OverlapsTold
<1>a. Processes = {"worker", "cli"}
  BY DEF Processes
<1>b. \A p \in Processes : AlsoSubmits(p, j) <=> \E q \in Processes \ {p} : Submitting(q, j)
  BY DEF AlsoSubmits, Submitting
<1>c. \A p \in Processes : AlsoSubmits(p, j)' <=> \E q \in Processes \ {p} : Submitting(q, j)'
  BY DEF AlsoSubmits, Submitting
<1>i. /\ j \in overlapped => disk[j].status # "absent"
      /\ disk[j].status # "absent" =>
           \A p \in Processes : Submitting(p, j) => j \in overlapped /\ ~ AlsoSubmits(p, j)
      /\ \A p \in Processes : pc[p] \in SavingPcs /\ held[p] = j => disk[j].status # "absent"
  BY DEF OverlapsTold
<1>1. CASE ~Saving
  <2>1. UNCHANGED <<disk, overlapped>>
    BY <1>1, DiskKept
  <2>2. \A p \in Processes : Submitting(p, j)' => Submitting(p, j) \/ disk[j].status = "absent"
    BY <1>1, HeldWhenRead
  <2>3. \A p \in Processes : pc'[p] \in SavingPcs /\ held'[p] = j =>
          (pc[p] \in SavingPcs /\ held[p] = j) \/ disk[j].status # "absent"
    BY <1>1, HeldWhenRead
  <2> QED BY <2>1, <2>2, <2>3, <1>b, <1>c, <1>i
<1>2. CASE Saving
  <2>1. PICK p \in Processes : Writes(p)
    BY <1>2, SaveWrites
  <2>2. /\ pc'[p] # "enqueue_save" /\ \A q \in Processes \ {p} : pc'[q] = pc[q] /\ held'[q] = held[q]
        /\ j # held[p] => disk'[j] = disk[j] /\ (j \in overlapped' <=> j \in overlapped)
    BY <2>1 DEF Writes
  <2>3. /\ ~ Submitting(p, j)'
        /\ \A q \in Processes \ {p} : Submitting(q, j)' <=> Submitting(q, j)
    BY <2>2 DEF Submitting
  <2>4. CASE j # held[p]
    <3>1. pc'[p] \in SavingPcs => held'[p] # j
      <4>1. CASE Submits(p)
        BY <4>1 DEF Submits
      <4>2. CASE Rewrites(p)
        BY <4>2, <2>4 DEF Rewrites
      <4> QED BY <2>1, <4>1, <4>2 DEF Writes
    <3> QED BY <3>1, <2>2, <2>3, <2>4, <1>b, <1>c, <1>i
  <2>5. CASE j = held[p]
    <3>1. disk'[j].status # "absent"
      BY <2>1, <2>5 DEF Writes, Submits, Rewrites, Record
    <3>2. CASE Submits(p) /\ disk[j].status = "absent"
      BY <3>1, <3>2, <2>3, <2>5, <1>a, <1>b, <1>c DEF Submits
    <3>3. CASE Submits(p) /\ disk[j].status # "absent"
      <4>1. Submitting(p, j) /\ UNCHANGED overlapped
        BY <3>3, <2>5 DEF Submits, Submitting
      <4> QED BY <3>1, <3>3, <4>1, <2>3, <1>a, <1>b, <1>c, <1>i
    <3>4. CASE Rewrites(p)
      <4>1. disk[j].status # "absent" /\ UNCHANGED overlapped
        BY <3>4, <2>5, <1>i DEF Rewrites
      <4> QED BY <3>1, <4>1, <2>3, <1>b, <1>c, <1>i
    <3> QED BY <2>1, <3>2, <3>3, <3>4 DEF Writes
  <2> QED BY <2>4, <2>5
<1> QED BY <1>1, <1>2

LEMMA RunsCreditedStep ==
  JobTypes /\ CopiesFollow /\ OverlapsTold /\ RunsCredited /\ [JobNext]_jobVars => RunsCredited'
<1> SUFFICES ASSUME JobTypes, CopiesFollow, OverlapsTold, RunsCredited, [JobNext]_jobVars, NEW j \in Jobs
             PROVE  /\ credit'[j] + Extra(j)' >= 0
                    /\ disk'[j].status = "queued" => credit'[j] + Extra(j)' >= 1
                    /\ pc'["worker"] = "start" /\ held'["worker"] = j => credit'[j] + Extra(j)' >= 1
  BY DEF RunsCredited
<1>c. credit[j] \in Int /\ Extra(j) \in {0, 1} /\ Extra(j)' \in {0, 1}
  BY DEF JobTypes, Extra
<1>x. /\ Extra(j) = 1 <=> j \in overlapped /\ ~ \E p \in Processes : Submitting(p, j)
      /\ Extra(j)' = 1 <=> j \in overlapped' /\ ~ \E p \in Processes : Submitting(p, j)'
  BY DEF Extra
<1>o. /\ j \in overlapped => disk[j].status # "absent"
      /\ disk[j].status # "absent" =>
           \A p \in Processes : Submitting(p, j) =>
             j \in overlapped /\ \A q \in Processes \ {p} : ~ Submitting(q, j)
  BY DEF OverlapsTold, AlsoSubmits, Submitting
<1>i. /\ credit[j] + Extra(j) >= 0
      /\ disk[j].status = "queued" => credit[j] + Extra(j) >= 1
      /\ pc["worker"] = "start" /\ held["worker"] = j => credit[j] + Extra(j) >= 1
  BY DEF RunsCredited
<1>s. pc'["worker"] = "start" /\ held'["worker"] = j =>
        \/ pc["worker"] = "start" /\ held["worker"] = j
        \/ disk[j].status = "queued" /\ UNCHANGED <<disk, credit>>
  BY StartsPicked
<1>1. CASE ~Saving
  <2>1. UNCHANGED <<disk, credit, overlapped>>
    BY <1>1, DiskKept
  <2>2. \A p \in Processes : Submitting(p, j)' => Submitting(p, j) \/ disk[j].status = "absent"
    BY <1>1, HeldWhenRead
  <2>3. Extra(j)' >= Extra(j)
    BY <2>1, <2>2, <1>c, <1>x, <1>o
  <2> QED BY <2>1, <2>3, <1>c, <1>i, <1>s
<1>2. CASE Saving
  <2>1. PICK p \in Processes : Writes(p)
    BY <1>2, SaveWrites
  <2>2. /\ ~ Submitting(p, j)'
        /\ \A q \in Processes \ {p} : Submitting(q, j)' <=> Submitting(q, j)
    BY <2>1 DEF Writes, Submitting
  <2>3. CASE j # held[p]
    <3>1. /\ disk'[j] = disk[j] /\ credit'[j] = credit[j] /\ (j \in overlapped' <=> j \in overlapped)
      BY <2>1, <2>3 DEF Writes
    <3>2. ~ Submitting(p, j)
      BY <2>3 DEF Submitting
    <3>3. Extra(j)' = Extra(j)
      BY <3>1, <3>2, <2>2, <1>c, <1>x
    <3> QED BY <3>1, <3>3, <1>c, <1>i, <1>s
  <2>4. CASE j = held[p] /\ Submits(p)
    <3>1. CASE disk[j].status = "absent"
      <4>1. credit'[j] = credit[j] + 1 /\ Extra(j) = 0
        BY <3>1, <2>4, <1>c, <1>x, <1>o DEF Submits
      <4> QED BY <4>1, <1>c, <1>i
    <3>2. CASE disk[j].status # "absent"
      <4>1. credit'[j] = credit[j] /\ UNCHANGED overlapped /\ Submitting(p, j)
        BY <3>2, <2>4 DEF Submits, Submitting
      <4>2. Extra(j) = 0 /\ Extra(j)' = 1
        BY <4>1, <3>2, <2>2, <1>c, <1>x, <1>o
      <4> QED BY <4>1, <4>2, <1>c, <1>i
    <3> QED BY <3>1, <3>2
  <2>5. CASE j = held[p] /\ Rewrites(p)
    <3>1. ~ Submitting(p, j) /\ UNCHANGED overlapped
      BY <2>5 DEF Rewrites, Submitting, SavingPcs
    <3>2. Extra(j)' = Extra(j)
      BY <3>1, <2>2, <1>c, <1>x
    <3>3. CASE disk'[j].status = "queued" /\ credit'[j] = credit[j] + 1
      BY <3>3, <3>2, <1>c, <1>i
    <3>4. CASE disk'[j].status # "queued" /\ credit'[j] = credit[j]
      BY <3>4, <3>2, <1>c, <1>i, <1>s
    <3>5. CASE /\ p = "worker" /\ pc["worker"] = "start" /\ pc'["worker"] = "train"
               /\ disk'[j].status = "running" /\ credit'[j] = credit[j] - 1
      BY <3>5, <3>2, <2>5, <1>c, <1>i
    <3> QED BY <2>5, <3>3, <3>4, <3>5 DEF Rewrites, Record
  <2> QED BY <2>1, <2>3, <2>4, <2>5 DEF Writes
<1> QED BY <1>1, <1>2

LEMMA SucceededBuiltStep ==
  JobTypes /\ CopiesFollow /\ SucceededBuilt /\ [JobNext]_jobVars => SucceededBuilt'
<1> SUFFICES ASSUME JobTypes, CopiesFollow, SucceededBuilt, [JobNext]_jobVars, NEW j \in Jobs,
                    disk'[j].status = "succeeded"
             PROVE  disk'[j].candidate /\ j \in built'
  BY DEF SucceededBuilt
<1>b. built \subseteq built'
  <2>1. (\E k \in Jobs : Ingest(k)) \/ Submit => UNCHANGED built
    BY EnqueueChecked DEF Ingest, Submit
  <2> QED BY JobCases, <2>1 DEF StartWorker, Open, ListInbox, IngestSave, SubmitSave, EnqueueSave, Ingested, Pick,
             StartRun, Train, SaveRunning, Build, ExecuteFails, SaveResult, Judge, SaveJudged, RunCommand,
             RecoverRead, RecoverSave, Opened, Die, Deliver, jobVars, durableVars
<1>1. CASE ~Saving
  BY <1>1, <1>b, DiskKept DEF SucceededBuilt
<1>2. CASE Saving
  <2>1. PICK p \in Processes : Writes(p)
    BY <1>2, SaveWrites
  <2>2. CASE j # held[p]
    BY <2>1, <2>2, <1>b DEF Writes, SucceededBuilt
  <2>3. CASE j = held[p]
    <3>1. pc["worker"] = "succeed" /\ p = "worker" /\ disk'[j] = Record("succeeded", TRUE)
      BY <2>1, <2>3 DEF Writes, Submits, Rewrites
    <3> QED BY <3>1, <2>3, <1>b DEF CopiesFollow, Record
  <2> QED BY <2>2, <2>3
<1> QED BY <1>1, <1>2

\* Only the worker makes a record say running, and only of the job it holds.
LEMMA RunningKept ==
  ASSUME JobTypes, CopiesFollow, [JobNext]_jobVars, NEW j \in Jobs, disk'[j].status = "running"
  PROVE  \/ disk[j].status = "running" /\ UNCHANGED disk
         \/ disk[j].status = "running" /\ \E p \in Processes : Writes(p) /\ held[p] # j
         \/ held["worker"] = j /\ pc["worker"] = "start" /\ pc'["worker"] = "train"
         \/ held["worker"] = j /\ pc["worker"] = "train" /\ pc'["worker"] = "build"
<1>1. CASE ~Saving
  BY <1>1, DiskKept
<1>2. CASE Saving
  <2>1. PICK p \in Processes : Writes(p)
    BY <1>2, SaveWrites
  <2> QED BY <2>1 DEF Writes, Submits, Rewrites, Record
<1> QED BY <1>1, <1>2

\* What an operator's command does leaves the worker alone.
LEMMA CliAside ==
  ASSUME JobTypes,
         \/ Submit \/ SubmitSave \/ Judge \/ SaveJudged \/ RecoverSave("cli") \/ Opened("cli") \/ Die("cli")
         \/ \E j \in Jobs : RecoverRead("cli", j)
         \/ \E j \in Named, c \in Commands : RunCommand(c, j)
  PROVE  pc'["worker"] = pc["worker"] /\ held'["worker"] = held["worker"] /\ todo'["worker"] = todo["worker"]
<1>t. /\ pc \in [Processes -> WorkerPcs \cup CliPcs] /\ held \in [Processes -> Jobs \cup {NoJob}]
      /\ todo \in [Processes -> SUBSET Jobs] /\ Processes = {"worker", "cli"}
  BY DEF JobTypes, Processes
<1>1. CASE Submit
  <2>1. EnqueueCheck("cli", target.job, "down") /\ UNCHANGED todo
    BY <1>1 DEF Submit
  <2>2. \/ Go("cli", "down") /\ UNCHANGED held
        \/ Go("cli", "enqueue_save") /\ Hold("cli", target.job, Record("queued", FALSE))
    BY ONLY <2>1, EnqueueChecked
  <2> QED BY <2>1, <2>2, <1>t DEF Go, Hold
<1>2. CASE SubmitSave
  BY <1>2, <1>t DEF SubmitSave, EnqueueSave, Go, Release, Hold
<1>3. CASE Judge
  BY <1>3, <1>t DEF Judge, Go, Hold, Keep
<1>4. CASE SaveJudged
  BY <1>4, <1>t DEF SaveJudged, Go, Release, Hold
<1>5. CASE RecoverSave("cli") \/ Opened("cli") \/ Die("cli")
  BY <1>5, <1>t DEF RecoverSave, Opened, Die, Go, Release, Hold
<1>6. ASSUME NEW j \in Jobs, RecoverRead("cli", j)
      PROVE  pc'["worker"] = pc["worker"] /\ held'["worker"] = held["worker"] /\ todo'["worker"] = todo["worker"]
  BY <1>6, <1>t DEF RecoverRead, Go, Hold, Keep
<1>7. ASSUME NEW j \in Named, NEW c \in Commands, RunCommand(c, j)
      PROVE  pc'["worker"] = pc["worker"] /\ held'["worker"] = held["worker"] /\ todo'["worker"] = todo["worker"]
  BY <1>7, <1>t DEF RunCommand, Open, Go
<1> QED BY <1>1, <1>2, <1>3, <1>4, <1>5, <1>6, <1>7

LEMMA RunningAccountedStep ==
  JobTypes /\ CopiesFollow /\ RunningAccounted /\ [JobNext]_jobVars => RunningAccounted'
<1> DEFINE Accounted(j) ==
      \/ pc["worker"] = "down"
      \/ pc["worker"] \in {"recover", "recover_save"} /\ j \in todo["worker"]
      \/ pc["worker"] \in {"recover_save", "train", "build", "succeed", "fail"} /\ held["worker"] = j
<1> SUFFICES ASSUME JobTypes, CopiesFollow, RunningAccounted, [JobNext]_jobVars, NEW j \in Jobs,
                    disk'[j].status = "running"
             PROVE  Accounted(j)'
  BY DEF RunningAccounted
<1>t. /\ pc \in [Processes -> WorkerPcs \cup CliPcs] /\ held \in [Processes -> Jobs \cup {NoJob}]
      /\ todo \in [Processes -> SUBSET Jobs] /\ Processes = {"worker", "cli"}
  BY DEF JobTypes, Processes
<1>r. \/ held["worker"] = j /\ pc["worker"] = "start" /\ pc'["worker"] = "train"
      \/ held["worker"] = j /\ pc["worker"] = "train" /\ pc'["worker"] = "build"
      \/ disk[j].status = "running" /\ Accounted(j)
  BY RunningKept DEF RunningAccounted
<1>a. CASE pc'["worker"] = pc["worker"] /\ held'["worker"] = held["worker"] /\ todo'["worker"] = todo["worker"]
  BY <1>a, <1>r
<1>1. CASE StartWorker
  <2>1. j \in OnDisk
    BY <1>1, <1>r DEF StartWorker, Open, OnDisk
  <2> QED BY <1>1, <2>1, <1>t DEF StartWorker, Open, Go
<1>2. CASE ListInbox \/ IngestSave \/ Ingested
  BY <1>2, <1>r, <1>t DEF ListInbox, IngestSave, EnqueueSave, Ingested
<1>3. CASE Pick \/ \E k \in Jobs : Ingest(k)
  BY <1>3, <1>r, <1>t DEF Pick, Ingest
<1>4. CASE StartRun \/ Train
  BY <1>4, <1>r, <1>t DEF StartRun, Train, SaveRunning, Go
<1>5. CASE Build \/ ExecuteFails
  BY <1>5, <1>r, <1>t DEF Build, ExecuteFails, Go
<1>6. CASE SaveResult
  <2>1. disk[j].status = "running" /\ held["worker"] = j /\ held["worker"] \in Jobs
    BY <1>6, <1>r, <1>t DEF SaveResult
  <2>2. disk'[j] = IF pc["worker"] = "succeed" THEN Record("succeeded", TRUE)
                   ELSE Transition(copy["worker"], "failed")
    <3>1. "worker" \in Processes
      BY <1>t
    <3> QED BY <1>6, <2>1, <3>1, DiskAfter DEF SaveResult
  <2>3. Transition(copy["worker"], "failed").status = "failed"
    BY <1>t, Transitioned DEF JobTypes, Statuses
  <2> QED BY <2>2, <2>3 DEF Record
<1>7. ASSUME NEW k \in Jobs, RecoverRead("worker", k) PROVE Accounted(j)'
  <2>1. CASE disk[k].status = "running"
    <3>1. Go("worker", "recover_save") /\ held' = [held EXCEPT !["worker"] = k] /\ pc["worker"] = "recover"
      BY <1>7, <2>1 DEF RecoverRead, Hold
    <3>2. todo' = [todo EXCEPT !["worker"] = @ \ {k}]
      BY <1>7 DEF RecoverRead
    <3> QED BY <3>1, <3>2, <1>r, <1>t DEF Go
  <2>2. CASE disk[k].status # "running"
    <3>1. UNCHANGED pc /\ pc["worker"] = "recover" /\ todo' = [todo EXCEPT !["worker"] = @ \ {k}]
      BY <1>7, <2>2 DEF RecoverRead
    <3> QED BY <3>1, <2>2, <1>r, <1>t
  <2> QED BY <2>1, <2>2
<1>8. CASE RecoverSave("worker")
  <2>1. pc["worker"] = "recover_save" /\ Save("worker", copy["worker"]) /\ Go("worker", "recover") /\ UNCHANGED todo
    BY <1>8 DEF RecoverSave
  <2>2. copy["worker"].status = "interrupted" /\ held["worker"] \in Jobs
    BY <2>1, <1>t DEF CopiesFollow, JobTypes, HoldPcs
  <2>3. held["worker"] # j
    BY <2>1, <2>2, <1>t, DiskAfter
  <2> QED BY <2>1, <2>3, <1>r, <1>t DEF Go
<1>9. CASE Opened("worker")
  BY <1>9, <1>r, <1>t DEF Opened
<1>10. CASE Die("worker")
  BY <1>10, <1>t DEF Die, Go
<1>11. CASE (\E k \in Jobs : Deliver(k)) \/ UNCHANGED jobVars
  BY <1>11, <1>a DEF Deliver, jobVars, processVars
<1> QED BY JobCases, CliAside, <1>a, <1>1, <1>2, <1>3, <1>4, <1>5, <1>6, <1>7, <1>8, <1>9, <1>10, <1>11
        DEF Processes

-----------------------------------------------------------------------------
(* The invariant and the theorems.                                         *)

LEMMA JobInvInit == JobInit => JobInv
<1> SUFFICES ASSUME JobInit PROVE JobInv
  OBVIOUS
<1>1. JobTypes
  BY JobTypesInit
<1>2. CopiesFollow
  BY DEF JobInit, CopiesFollow, Processes
<1>3. OverlapsTold /\ RunsCredited
  BY DEF JobInit, OverlapsTold, RunsCredited, Extra, Submitting, SavingPcs, Absent, Record, Processes
<1>4. RunningAccounted /\ SucceededBuilt
  BY DEF JobInit, RunningAccounted, SucceededBuilt, Absent, Record, Processes
<1> QED BY <1>1, <1>2, <1>3, <1>4 DEF JobInv

LEMMA JobInvStep == JobInv /\ [JobNext]_jobVars => JobInv'
BY JobTypesStep, CopiesFollowStep, OverlapsToldStep, RunsCreditedStep, RunningAccountedStep, SucceededBuiltStep DEF JobInv

LEMMA JobInvAlways == JobSpec => []JobInv
BY JobInvInit, JobInvStep, PTL DEF JobSpec

LEMMA JobTyped == JobInv => JobTypeOK
<1> SUFFICES ASSUME JobInv PROVE JobTypeOK
  OBVIOUS
<1>1. NoJob \notin Jobs
  BY JobsAssumption
<1> QED BY <1>1 DEF JobInv, JobTypes, JobTypeOK, Records, Processes, HoldPcs

\* Every record and every process of the job store keeps its type, and the worker
\* holds a job at every step of run_once that saves one.
THEOREM JobTypeCorrect == JobSpec => []JobTypeOK
BY JobTyped, JobInvAlways, PTL

\* The worker trains a job at most once however often it is delivered and
\* submitted and once for every retry, and one time more only if two submissions
\* overlapped, whatever the two processes save over each other and wherever one
\* dies.
THEOREM RunsAlwaysAuthorised == JobSpec => []RunsAreAuthorised
<1>1. ASSUME JobInv, NEW j \in Jobs PROVE credit[j] >= IF j \in overlapped THEN -1 ELSE 0
  <2>1. credit[j] \in Int /\ credit[j] + Extra(j) >= 0
    BY <1>1 DEF JobInv, JobTypes, RunsCredited
  <2> QED BY <2>1 DEF Extra
<1>2. JobInv => RunsAreAuthorised
  BY <1>1 DEF RunsAreAuthorised
<1> QED BY <1>2, JobInvAlways, PTL

\* A succeeded record names a candidate that is there, and with the worker open a
\* running record is the job the worker runs.
THEOREM RecordsAlwaysTruthful == JobSpec => []RecordsTruthful
<1>1. JobInv => RecordsTruthful
  BY DEF JobInv, RunningAccounted, SucceededBuilt, RecordsTruthful
<1> QED BY <1>1, JobInvAlways, PTL
=============================================================================
