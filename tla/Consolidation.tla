---------------------------- MODULE Consolidation ----------------------------
(***************************************************************************)
(* The docked consolidation cycle of the motherbrain                       *)
(* (pete-higher-brain/src/coordinator.rs): one phase at a time, each a     *)
(* call to a ConsolidationBackend followed by one save of the whole cycle. *)
(* A call may fail or find nothing yet, a save may fail and leave the      *)
(* cycle in memory ahead of the one on disk, and the process may die       *)
(* between the two; the phase saved last is then called again.             *)
(*                                                                         *)
(* The backend is a trait: what it did for a forebrain and a set of        *)
(* bundles is remembered in effects.  The ids of bundles, jobs and         *)
(* candidates are abstracted to the epoch they come from and the forebrain *)
(* that had them; the event log and the last error are left out.           *)
(***************************************************************************)
EXTENDS Naturals, Sequences

CONSTANTS
  Forebrains,  \* the forebrains discovery may find authorised
  MaxCycles,   \* bound: cycles started
  MaxFaults    \* bound: failed calls and saves, unfit power, deaths

NoForebrain == "none"  \* selected_forebrain_id: None
ASSUME CycleAssumption == MaxCycles \in Nat /\ MaxFaults \in Nat /\ NoForebrain \notin Forebrains
\* Every checkpoint serves a cycle or is lost to a fault.
MaxEpochs == MaxCycles + MaxFaults

VARIABLES
  cycle,      \* ConsolidationCoordinator.cycle
  saved,      \* the state file
  cpc,        \* the process: "down", "idle", or "save" after a call
  fit,        \* dock, motion and power evidence: consolidation_ready
  epochs,     \* the bundles checkpointed so far
  effects,    \* history: what the backend has done, with forebrain and epoch
  agreed,     \* history: what the operator has approved
  begun,      \* history: cycles started
  faults

cycleVars == <<cycle, saved, cpc, fit, epochs, effects, agreed, begun, faults>>

Phases == <<"checkpoint", "discover", "transfer", "submit", "await_jobs", "return",
            "stage", "await_activation", "activate", "complete">>
PhaseNames == {Phases[i] : i \in DOMAIN Phases}
RankOf(phase) == CHOOSE i \in DOMAIN Phases : Phases[i] = phase
\* cycle_id, phase, bundle_ids, selected_forebrain_id, and what job_ids and
\* candidate_ids were made from; activation_requested.
NoWork == <<NoForebrain, 0>>
NoCycle == [id |-> 0, phase |-> "complete", bundles |-> 0, forebrain |-> NoForebrain,
            jobs |-> NoWork, candidates |-> NoWork, requested |-> FALSE]
Work == (Forebrains \cup {NoForebrain}) \X (0..MaxEpochs)
Kinds == {"transferred", "submitted", "returned", "staged", "activated"}

CycleInit ==
  /\ cycle = NoCycle /\ saved = NoCycle /\ cpc = "down" /\ fit = TRUE
  /\ epochs = 0 /\ effects = [k \in Kinds |-> {}] /\ agreed = {}
  /\ begun = 0 /\ faults = 0

-----------------------------------------------------------------------------
Pending == cycle.phase # "complete"
Fault == faults < MaxFaults /\ faults' = faults + 1
Effect(kind, work) == effects' = [effects EXCEPT ![kind] = @ \cup {work}]
Advance(c) == cycle' = [c EXCEPT !.phase = Phases[RankOf(c.phase) + 1]]
\* persist, or its failure, which only the caller sees.
Saves(c) == \/ saved' = c /\ UNCHANGED faults
            \/ Fault /\ UNCHANGED saved

\* ConsolidationCoordinator::open
OpenCycle ==
  /\ cpc = "down"
  /\ cycle' = saved /\ cpc' = "idle"
  /\ UNCHANGED <<saved, fit, epochs, effects, agreed, begun, faults>>

\* Mutant: a pending cycle is overwritten.
Start_Anytime ==
  /\ cpc = "idle" /\ fit
  /\ begun < MaxCycles /\ begun' = begun + 1
  /\ cycle' = [NoCycle EXCEPT !.id = begun + 1, !.phase = "checkpoint"]
  /\ Saves(cycle')
  /\ UNCHANGED <<cpc, fit, epochs, effects, agreed>>
\* start_with_power_assessment: refused unless the body is parked, the power
\* fit and no cycle pending.
Start ==
  /\ cpc = "idle" /\ fit /\ ~Pending
  /\ begun < MaxCycles /\ begun' = begun + 1
  /\ cycle' = [NoCycle EXCEPT !.id = begun + 1, !.phase = "checkpoint"]
  /\ Saves(cycle')
  /\ UNCHANGED <<cpc, fit, epochs, effects, agreed>>

\* tick_with_power_assessment, on unfit evidence: the cycle pauses in place.
Pause ==
  /\ cpc = "idle" /\ ~fit /\ cycle.id # 0
  /\ Saves(cycle)
  /\ UNCHANGED <<cycle, cpc, fit, epochs, effects, agreed, begun>>

\* tick_with_power_assessment, on fit evidence: the cycle is saved, the backend
\* called for the phase, and the outcome saved in the next step.
Tick(phase) ==
  /\ cpc = "idle" /\ fit /\ cycle.phase = phase /\ cycle.id # 0
  /\ saved' = cycle
  /\ cpc' = "save"
  /\ UNCHANGED <<fit, agreed, begun>>

CheckpointExperience ==
  /\ Tick("checkpoint")
  /\ epochs < MaxEpochs /\ epochs' = epochs + 1
  /\ Advance([cycle EXCEPT !.bundles = epochs + 1])
  /\ UNCHANGED <<effects, faults>>
DiscoverForebrain ==
  /\ Tick("discover")
  /\ \E f \in Forebrains : Advance([cycle EXCEPT !.forebrain = f])
  /\ UNCHANGED <<epochs, effects, faults>>
TransferBundles ==
  /\ Tick("transfer")
  /\ Effect("transferred", <<cycle.forebrain, cycle.bundles>>)
  /\ Advance(cycle)
  /\ UNCHANGED <<epochs, faults>>
\* Mutant: the jobs go to whichever forebrain answers.
SubmitJobs_AnyForebrain ==
  /\ Tick("submit")
  /\ \E f \in Forebrains : /\ Effect("submitted", <<f, cycle.bundles>>)
                          /\ Advance([cycle EXCEPT !.jobs = <<f, cycle.bundles>>])
  /\ UNCHANGED <<epochs, faults>>
SubmitJobs ==
  /\ Tick("submit")
  /\ Effect("submitted", <<cycle.forebrain, cycle.bundles>>)
  /\ Advance([cycle EXCEPT !.jobs = <<cycle.forebrain, cycle.bundles>>])
  /\ UNCHANGED <<epochs, faults>>
AwaitJobs ==
  /\ Tick("await_jobs")
  /\ Advance(cycle)
  /\ UNCHANGED <<epochs, effects, faults>>
ReturnCandidates ==
  /\ Tick("return")
  /\ Effect("returned", cycle.jobs)
  /\ Advance([cycle EXCEPT !.candidates = cycle.jobs])
  /\ UNCHANGED <<epochs, faults>>
StageCandidates ==
  /\ Tick("stage")
  /\ Effect("staged", cycle.candidates)
  /\ Advance(cycle)
  /\ UNCHANGED <<epochs, faults>>
\* Mutant: the approval is read the wrong way round.
AwaitActivation_Inverted ==
  /\ Tick("await_activation")
  /\ IF cycle.requested THEN UNCHANGED cycle ELSE Advance(cycle)
  /\ UNCHANGED <<epochs, effects, faults>>
AwaitActivation ==
  /\ Tick("await_activation")
  /\ IF cycle.requested THEN Advance(cycle) ELSE UNCHANGED cycle
  /\ UNCHANGED <<epochs, effects, faults>>
Complete ==
  /\ Tick("complete")
  /\ UNCHANGED <<cycle, epochs, effects, faults>>
ActivateCandidates ==
  /\ Tick("activate")
  /\ Effect("activated", cycle.candidates)
  /\ Advance(cycle)
  /\ UNCHANGED <<epochs, faults>>
\* The call fails, or the jobs are not done: the phase stays for another tick.
Retry ==
  /\ \E phase \in PhaseNames \ {"complete", "await_activation"} : Tick(phase)
  /\ Fault
  /\ UNCHANGED <<cycle, epochs, effects>>
SaveOutcome ==
  /\ cpc = "save"
  /\ cpc' = "idle"
  /\ Saves(cycle)
  /\ UNCHANGED <<cycle, fit, epochs, effects, agreed, begun>>

\* approve_activation
Approve ==
  /\ cpc = "idle" /\ cycle.phase = "await_activation" /\ ~cycle.requested
  /\ cycle' = [cycle EXCEPT !.requested = TRUE]
  /\ agreed' = agreed \cup {<<cycle.id, cycle.candidates>>}
  /\ Saves(cycle')
  /\ UNCHANGED <<cpc, fit, epochs, effects, begun>>

\* The robot leaves its dock or the power its band, and is back.
LosePower == fit /\ Fault /\ fit' = FALSE /\ UNCHANGED <<cycle, saved, cpc, epochs, effects, agreed, begun>>
RegainPower == ~fit /\ fit' = TRUE /\ UNCHANGED <<cycle, saved, cpc, epochs, effects, agreed, begun, faults>>
\* The motherbrain dies or restarts.
DieInCycle == /\ cpc # "down" /\ Fault
              /\ cpc' = "down" /\ cycle' = NoCycle
              /\ UNCHANGED <<saved, fit, epochs, effects, agreed, begun>>

TickStep ==
  \/ CheckpointExperience \/ DiscoverForebrain \/ TransferBundles \/ SubmitJobs \/ AwaitJobs
  \/ ReturnCandidates \/ StageCandidates \/ AwaitActivation \/ ActivateCandidates \/ Complete
  \/ Retry
CycleNext == \/ OpenCycle \/ Start \/ Pause \/ TickStep \/ SaveOutcome \/ Approve
             \/ LosePower \/ RegainPower \/ DieInCycle
\* The motherbrain restarts and ticks its coordinator; power comes back.
CycleFairness == WF_cycleVars(OpenCycle) /\ WF_cycleVars(TickStep) /\ WF_cycleVars(SaveOutcome)
                 /\ WF_cycleVars(RegainPower)
CycleSpec == CycleInit /\ [][CycleNext]_cycleVars /\ CycleFairness

-----------------------------------------------------------------------------
(* Properties.                                                             *)

CycleType == [id : 0..MaxCycles, phase : PhaseNames, bundles : 0..MaxEpochs,
              forebrain : Forebrains \cup {NoForebrain}, jobs : Work, candidates : Work,
              requested : BOOLEAN]
\* Every field has its type, and what forebrain() unwraps is there when a phase
\* past discovery asks for it.
CycleTypeOK ==
  /\ cycle \in CycleType /\ saved \in CycleType
  /\ \A c \in {cycle, saved} :
       c.id # 0 /\ RankOf(c.phase) > RankOf("discover") => c.forebrain # NoForebrain /\ c.bundles # 0
  /\ cpc \in {"down", "idle", "save"}
  /\ fit \in BOOLEAN /\ epochs \in 0..MaxEpochs /\ effects \in [Kinds -> SUBSET Work]
  /\ agreed \subseteq (1..MaxCycles) \X Work /\ begun \in 0..MaxCycles /\ faults \in 0..MaxFaults

\* Each phase works on what the phases before it did, on the same forebrain:
\* no retry or restart submits bundles that were not transferred there, fetches
\* candidates of jobs that were not submitted, stages what was not returned, or
\* activates what was not staged and, as the cycle held it then, approved.
EachPhaseFollows ==
  /\ effects["submitted"] \subseteq effects["transferred"]
  /\ effects["returned"] \subseteq effects["submitted"]
  /\ effects["staged"] \subseteq effects["returned"]
  /\ effects["activated"] \subseteq effects["staged"]
  /\ \A w \in effects["activated"] : \E i \in 1..MaxCycles : <<i, w>> \in agreed

\* "State survives a motherbrain restart": the saved cycle never falls back a
\* phase, and is replaced by another cycle only once its candidates are active.
DurableProgress ==
  [][saved' # saved =>
       \/ saved'.id = saved.id /\ RankOf(saved'.phase) >= RankOf(saved.phase)
       \/ saved'.id > saved.id /\ (saved.id = 0 \/ saved.candidates \in effects["activated"])]_cycleVars

\* A cycle on disk gets to its activation boundary, whatever failed on the way,
\* and an approval that was saved is carried out (by DurableProgress no other
\* cycle takes its place before that).
CycleGoesOn ==
  /\ (saved.phase # "complete") ~> (saved.phase \in {"await_activation", "activate", "complete"})
  /\ saved.requested ~> (~saved.requested \/ saved.candidates \in effects["activated"])
================================================================================
