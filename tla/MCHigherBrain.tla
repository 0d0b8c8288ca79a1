----------------------------- MODULE MCHigherBrain -----------------------------
(***************************************************************************)
(* The durable parts of the higher brain for TLC: the forebrain's jobs,    *)
(* the motherbrain's candidate store and its consolidation cycle.  They    *)
(* share no state in the code (an operator's command carries a candidate   *)
(* from one to the next), so a behaviour of this module moves one of them, *)
(* chosen at the start, and leaves the others at rest.                     *)
(***************************************************************************)
EXTENDS CandidateStore, ForebrainJobs, Consolidation

VARIABLE part  \* the component this behaviour is about

higherVars == <<part, storeVars, jobVars, cycleVars>>

HigherInit == /\ part \in {"store", "jobs", "cycle"}
              /\ StoreInit /\ JobInit /\ CycleInit

InJobs(step) == part = "jobs" /\ step /\ UNCHANGED <<part, storeVars, cycleVars>>
InCycle(step) == part = "cycle" /\ step /\ UNCHANGED <<part, storeVars, jobVars>>
HigherNext == \/ part = "store" /\ StoreNext /\ UNCHANGED <<part, jobVars, cycleVars>>
              \/ InJobs(JobNext)
              \/ InCycle(CycleNext)

\* JobFairness and CycleFairness, each for the behaviours of its part.
HigherFairness ==
  /\ WF_higherVars(InJobs(WorkerStep))
  /\ WF_higherVars(InCycle(OpenCycle)) /\ WF_higherVars(InCycle(TickStep))
  /\ WF_higherVars(InCycle(SaveOutcome)) /\ WF_higherVars(InCycle(RegainPower))

\* Every part keeps its types.
HigherTypeOK == StoreTypeOK /\ JobTypeOK /\ CycleTypeOK

HigherSpec == HigherInit /\ [][HigherNext]_higherVars /\ HigherFairness
================================================================================
