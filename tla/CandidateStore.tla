---------------------------- MODULE CandidateStore ----------------------------
(***************************************************************************)
(* The motherbrain's store of returned model candidates                    *)
(* (pete-higher-brain/src/candidate.rs): the received/ and library/        *)
(* directories, the active/current and active/previous symlinks and the    *)
(* lifecycle records, each changed by one atomic rename at a time.  The    *)
(* commands are separate processes run one at a time by the operator; one  *)
(* may die between any two of its renames, and what it held is lost.       *)
(* A lifecycle record is kept as its last transition of each kind: the     *)
(* stage of the candidate, and what the links made of it.                  *)
(***************************************************************************)
CONSTANTS
  Candidates,   \* the candidate ids
  Compatible,   \* those this motherbrain's CandidateCompatibility admits
  NoCandidate   \* a link that does not exist

ASSUME CandidateAssumption == Compatible \subseteq Candidates /\ NoCandidate \notin Candidates

VARIABLES
  received, library,   \* the copies: "absent", "whole", "damaged"
  current, previous,   \* the symlinks under active/
  life,                \* state/<id>.json
  spc, sTarget, sOld, \* the command under way and what it has read
  approved,            \* history: the candidates an operator gave --approve for
  stopped              \* history: a command has died or failed half way

fileVars == <<received, library>>
linkVars == <<current, previous>>
commandVars == <<spc, sTarget, sOld>>
storeHistory == <<approved, stopped>>
storeVars == <<fileVars, linkVars, life, commandVars, storeHistory>>

Copies == {"absent", "whole", "damaged"}
Stages == {"none", "received", "validated", "rejected", "staged"}
Roles == {"none", "activated", "superseded", "rolled_back"}
StorePcs == {"idle", "record_received", "stage", "record_staged", "keep_previous", "switch",
             "record_superseded", "record_activated", "restore", "retain", "record_rolled_back"}
Links == Candidates \cup {NoCandidate}

StoreInit ==
  /\ received = [c \in Candidates |-> "absent"] /\ library = [c \in Candidates |-> "absent"]
  /\ current = NoCandidate /\ previous = NoCandidate
  /\ life = [c \in Candidates |-> [stage |-> "none", role |-> "none"]]
  /\ spc = "idle" /\ sTarget = NoCandidate /\ sOld = NoCandidate
  /\ approved = {} /\ stopped = FALSE

-----------------------------------------------------------------------------
\* validate_candidate: manifest, completion marker and every checksum agree,
\* and with the store's compatibility, schemas, runtimes and target as well.
Valid(copies, c) == c \in Candidates /\ copies[c] = "whole"
Admissible(copies, c) == Valid(copies, c) /\ c \in Compatible

\* The command ends, or goes on to its next step.
Finish == spc' = "idle" /\ sTarget' = NoCandidate /\ sOld' = NoCandidate
Goto(step) == spc' = step /\ UNCHANGED <<sTarget, sOld>>
RecordStage(c, stage) == life' = [life EXCEPT ![c].stage = stage]
RecordRole(c, role) == life' = [life EXCEPT ![c].role = role]

\* copy_immutable_tree: the copy appears under its name by a rename when it is
\* whole; a copy that is already there is kept when it validates.
CopyTree(copies, c) == /\ copies[c] # "damaged"
                       /\ copies' = [copies EXCEPT ![c] = "whole"]

\* receive, of a candidate directory that validates.
Receive(c) ==
  /\ spc = "idle"
  /\ CopyTree(received, c)
  /\ spc' = "record_received" /\ sTarget' = c
  /\ UNCHANGED <<library, linkVars, life, sOld, storeHistory>>
RecordReceived ==
  /\ spc = "record_received"
  /\ RecordStage(sTarget, "received")
  /\ Finish
  /\ UNCHANGED <<fileVars, linkVars, storeHistory>>

\* The stage command: validate records its verdict, and stage follows a good one.
Validate(c) ==
  /\ spc = "idle"
  /\ \/ /\ Admissible(received, c)
        /\ RecordStage(c, "validated")
        /\ spc' = "stage" /\ sTarget' = c /\ UNCHANGED sOld
     \/ /\ ~Admissible(received, c)
        /\ RecordStage(c, "rejected")
        /\ UNCHANGED commandVars
  /\ UNCHANGED <<fileVars, linkVars, storeHistory>>
Stage ==
  /\ spc = "stage"
  /\ Admissible(received, sTarget)
  /\ CopyTree(library, sTarget)
  /\ Goto("record_staged")
  /\ UNCHANGED <<received, linkVars, life, storeHistory>>
RecordStaged ==
  /\ spc = "record_staged"
  /\ RecordStage(sTarget, "staged")
  /\ Finish
  /\ UNCHANGED <<fileVars, linkVars, storeHistory>>

\* Mutant: an approved candidate is activated without being validated again.
Activate_Unchecked(c, given) ==
  /\ spc = "idle"
  /\ approved' = IF given THEN approved \cup {c} ELSE approved
  /\ IF given /\ library[c] # "absent"
     THEN /\ sTarget' = c /\ sOld' = current
          /\ spc' = IF current = NoCandidate THEN "switch" ELSE "keep_previous"
     ELSE UNCHANGED commandVars
  /\ UNCHANGED <<fileVars, linkVars, life, stopped>>
\* activate, with or without --approve: the copy in the library is validated, then
\* the old current kept as previous, the link switched and both recorded.
Activate(c, given) ==
  /\ spc = "idle"
  /\ approved' = IF given THEN approved \cup {c} ELSE approved
  /\ IF given /\ Admissible(library, c)
     THEN /\ sTarget' = c /\ sOld' = current
          /\ spc' = IF current = NoCandidate THEN "switch" ELSE "keep_previous"
     ELSE UNCHANGED commandVars
  /\ UNCHANGED <<fileVars, linkVars, life, stopped>>
\* Mutant: the old current is not kept before the switch.
KeepPrevious_AfterSwitch ==
  /\ spc = "keep_previous"
  /\ Goto("switch")
  /\ UNCHANGED <<fileVars, linkVars, life, storeHistory>>
KeepPrevious ==
  /\ spc = "keep_previous"
  /\ previous' = sOld
  /\ Goto("switch")
  /\ UNCHANGED <<fileVars, current, life, storeHistory>>
Switch ==
  /\ spc = "switch"
  /\ current' = sTarget
  /\ Goto(IF sOld = NoCandidate THEN "record_activated" ELSE "record_superseded")
  /\ UNCHANGED <<fileVars, previous, life, storeHistory>>
\* Mutant: the wrong candidate is recorded as superseded.
RecordSuperseded_Last ==
  /\ spc = "record_superseded"
  /\ RecordRole(sTarget, "superseded")
  /\ Goto("record_activated")
  /\ UNCHANGED <<fileVars, linkVars, storeHistory>>
RecordSuperseded ==
  /\ spc = "record_superseded"
  /\ RecordRole(sOld, "superseded")
  /\ Goto("record_activated")
  /\ UNCHANGED <<fileVars, linkVars, storeHistory>>
RecordActivated ==
  /\ spc = "record_activated"
  /\ RecordRole(sTarget, "activated")
  /\ Finish
  /\ UNCHANGED <<fileVars, linkVars, storeHistory>>

\* rollback: both links are read, the previous candidate validated, then the
\* links are replaced one after the other.
Rollback ==
  /\ spc = "idle"
  /\ current # NoCandidate /\ Admissible(library, previous)
  /\ sOld' = current /\ sTarget' = previous
  /\ spc' = "restore"
  /\ UNCHANGED <<fileVars, linkVars, life, approved, stopped>>
Restore ==
  /\ spc = "restore"
  /\ current' = sTarget
  /\ Goto("retain")
  /\ UNCHANGED <<fileVars, previous, life, storeHistory>>
Retain ==
  /\ spc = "retain"
  /\ previous' = sOld
  /\ Goto("record_rolled_back")
  /\ UNCHANGED <<fileVars, current, life, storeHistory>>
RecordRolledBack ==
  /\ spc = "record_rolled_back"
  /\ RecordRole(sOld, "rolled_back")
  /\ Goto("record_activated")
  /\ UNCHANGED <<fileVars, linkVars, storeHistory>>

\* The process dies, or a write fails and its error ends the command.
Stop ==
  /\ spc # "idle"
  /\ Finish
  /\ stopped' = TRUE
  /\ UNCHANGED <<fileVars, linkVars, life, approved>>

\* The disk loses a file of a copy, which its checksums will tell (bound: one
\* copy of a store at a time).
Damage(c) ==
  /\ \A d \in Candidates : received[d] # "damaged" /\ library[d] # "damaged"
  /\ \/ /\ received[c] = "whole" /\ received' = [received EXCEPT ![c] = "damaged"]
        /\ UNCHANGED library
     \/ /\ library[c] = "whole" /\ library' = [library EXCEPT ![c] = "damaged"]
        /\ UNCHANGED received
  /\ UNCHANGED <<linkVars, life, commandVars, storeHistory>>

StoreStep ==
  \/ RecordReceived \/ Stage \/ RecordStaged \/ KeepPrevious \/ Switch \/ RecordSuperseded
  \/ RecordActivated \/ Restore \/ Retain \/ RecordRolledBack
StoreNext ==
  \/ \E c \in Candidates : Receive(c) \/ Validate(c) \/ Damage(c) \/ \E given \in BOOLEAN : Activate(c, given)
  \/ StoreStep \/ Rollback \/ Stop
StoreSpec == StoreInit /\ [][StoreNext]_storeVars
-----------------------------------------------------------------------------
(* Properties.                                                             *)

StoreTypeOK ==
  /\ received \in [Candidates -> Copies] /\ library \in [Candidates -> Copies]
  /\ current \in Links /\ previous \in Links
  /\ life \in [Candidates -> [stage : Stages, role : Roles]]
  /\ spc \in StorePcs /\ sTarget \in Links /\ sOld \in Links /\ (spc = "idle") = (sTarget = NoCandidate)
  /\ approved \subseteq Candidates /\ stopped \in BOOLEAN

\* The candidate a command has chosen and not yet linked.
Chosen == IF spc \in {"keep_previous", "switch", "restore"} THEN sTarget ELSE NoCandidate

\* Whatever command runs, fails or dies, active/current changes in one step and
\* only to a candidate whose copy in the library was whole when the command chose
\* it, checksums and all, and that the operator had approved: activation goes
\* through validation and policy, and rollback only to what was activated before
\* and validates again (docs/018, "Jobs and candidates").
Model == INSTANCE ActiveModel WITH
           Models <- Candidates, NoModel <- NoCandidate, active <- current, chosen <- Chosen,
           whole <- {c \in Candidates : library[c] = "whole"}, allowed <- approved
SelectsApprovedModel == Model!ModelSpec

\* When an activation replaces the current model, active/previous already leads
\* back to it: no point at which the process may die leaves the model that was
\* serving out of both links.
SwitchKeepsOld ==
  [][(spc = "switch" /\ current' # current /\ current # NoCandidate) => previous' = current]_storeVars

\* As long as no command died half way, the lifecycle records name the model
\* the links select: only the current one was last activated, and the one to
\* roll back to was superseded or rolled back.
RecordsAgree ==
  (spc = "idle" /\ ~stopped) =>
    /\ \A c \in Candidates : life[c].role = "activated" <=> c = current
    /\ previous \notin {NoCandidate, current} => life[previous].role \in {"superseded", "rolled_back"}
===============================================================================
