-------------------------- MODULE ConsolidationProofs --------------------------
(***************************************************************************)
(* Proofs about Consolidation, for any forebrains and any number of        *)
(* cycles, failed calls, failed saves and deaths: its types, that each     *)
(* phase works on what the phases before it did, and that the cycle on     *)
(* disk never falls back or is replaced before its candidates are active.  *)
(* The last part puts it together with the stores of candidates and jobs.  *)
(***************************************************************************)
EXTENDS MCHigherBrain, CandidateProofs, JobProofs, TLAPS

\* The cycle is past the phase.
Past(c, phase) == c.id # 0 /\ RankOf(c.phase) > RankOf(phase)

\* What a cycle, in memory or on disk, may rely on at its phase: what the
\* backend has done for it and what the operator has approved.
Grounded(c, done, approvals) ==
  /\ c.id = 0 => c.phase = "complete" /\ ~c.requested
  /\ Past(c, "checkpoint") => c.bundles # 0
  /\ Past(c, "transfer") => <<c.forebrain, c.bundles>> \in done["transferred"]
  /\ Past(c, "submit") => c.jobs \in done["submitted"]
  /\ Past(c, "return") => c.candidates \in done["returned"]
  /\ Past(c, "stage") => c.candidates \in done["staged"]
  /\ c.requested => RankOf(c.phase) >= RankOf("await_activation") /\ <<c.id, c.candidates>> \in approvals
  /\ Past(c, "await_activation") => <<c.id, c.candidates>> \in approvals
  /\ Past(c, "activate") => c.candidates \in done["activated"]

\* The cycle in memory is the one on disk, at most one phase ahead of it, or a
\* later one that took the place of a finished one.
MemoryAhead ==
  cpc # "down" =>
    \/ /\ cycle.id = saved.id
       /\ RankOf(cycle.phase) \in {RankOf(saved.phase), RankOf(saved.phase) + 1}
       /\ Past(saved, "return") => cycle.candidates = saved.candidates
    \/ /\ cycle.id > saved.id
       /\ saved.id = 0 \/ saved.candidates \in effects["activated"]

CycleInv ==
  /\ CycleTypeOK
  /\ Grounded(cycle, effects, agreed) /\ Grounded(saved, effects, agreed)
  /\ MemoryAhead
  /\ cycle.id <= begun /\ saved.id <= begun
  /\ cpc = "down" => cycle = NoCycle
  /\ EachPhaseFollows

-----------------------------------------------------------------------------
(* The order of the phases.                                                *)

LEMMA Ranks ==
  /\ RankOf("checkpoint") = 1 /\ RankOf("discover") = 2 /\ RankOf("transfer") = 3
  /\ RankOf("submit") = 4 /\ RankOf("await_jobs") = 5 /\ RankOf("return") = 6
  /\ RankOf("stage") = 7 /\ RankOf("await_activation") = 8 /\ RankOf("activate") = 9
  /\ RankOf("complete") = 10
<1>1. DOMAIN Phases = 1 .. 10
  BY DEF Phases
<1>2. ASSUME NEW k \in 1 .. 10 PROVE RankOf(Phases[k]) = k
  <2>1. \A i, j \in 1 .. 10 : Phases[i] = Phases[j] => i = j
    BY DEF Phases
  <2> QED BY <1>1, <2>1 DEF RankOf
<1>3. /\ Phases[1] = "checkpoint" /\ Phases[2] = "discover" /\ Phases[3] = "transfer"
      /\ Phases[4] = "submit" /\ Phases[5] = "await_jobs" /\ Phases[6] = "return"
      /\ Phases[7] = "stage" /\ Phases[8] = "await_activation" /\ Phases[9] = "activate"
      /\ Phases[10] = "complete"
  BY DEF Phases
<1> QED BY <1>2, <1>3

LEMMA PhaseSet ==
  PhaseNames = {"checkpoint", "discover", "transfer", "submit", "await_jobs", "return",
                "stage", "await_activation", "activate", "complete"}
<1>1. DOMAIN Phases = 1 .. 10
  BY DEF Phases
<1> QED BY <1>1 DEF PhaseNames, Phases

LEMMA NextPhase ==
  /\ Phases[RankOf("checkpoint") + 1] = "discover" /\ Phases[RankOf("discover") + 1] = "transfer"
  /\ Phases[RankOf("transfer") + 1] = "submit" /\ Phases[RankOf("submit") + 1] = "await_jobs"
  /\ Phases[RankOf("await_jobs") + 1] = "return" /\ Phases[RankOf("return") + 1] = "stage"
  /\ Phases[RankOf("stage") + 1] = "await_activation"
  /\ Phases[RankOf("await_activation") + 1] = "activate"
  /\ Phases[RankOf("activate") + 1] = "complete"
BY Ranks DEF Phases

-----------------------------------------------------------------------------
(* The cycle a step leaves in memory, field by field.                      *)

Made(i, p, b, f, j, k, r) ==
  [id |-> i, phase |-> p, bundles |-> b, forebrain |-> f, jobs |-> j, candidates |-> k, requested |-> r]

LEMMA Fields ==
  ASSUME NEW c \in CycleType
  PROVE  c = Made(c.id, c.phase, c.bundles, c.forebrain, c.jobs, c.candidates, c.requested)
BY DEF CycleType, Made

\* Advance moves a cycle to the next phase and leaves the rest of it alone.
LEMMA Advanced ==
  ASSUME NEW c, c = Made(c.id, c.phase, c.bundles, c.forebrain, c.jobs, c.candidates, c.requested), Advance(c)
  PROVE  cycle' = Made(c.id, Phases[RankOf(c.phase) + 1], c.bundles, c.forebrain, c.jobs, c.candidates,
                       c.requested)
BY DEF Advance, Made

LEMMA CycleMade ==
  ASSUME CycleTypeOK
  PROVE  /\ Start => cycle' = Made(begun + 1, "checkpoint", 0, NoForebrain, NoWork, NoWork, FALSE)
         /\ Approve => cycle' = Made(cycle.id, cycle.phase, cycle.bundles, cycle.forebrain, cycle.jobs,
                                     cycle.candidates, TRUE)
         /\ CheckpointExperience =>
              cycle' = Made(cycle.id, "discover", epochs + 1, cycle.forebrain, cycle.jobs, cycle.candidates,
                            cycle.requested)
         /\ DiscoverForebrain =>
              \E f \in Forebrains : cycle' = Made(cycle.id, "transfer", cycle.bundles, f, cycle.jobs,
                                                  cycle.candidates, cycle.requested)
         /\ SubmitJobs =>
              cycle' = Made(cycle.id, "await_jobs", cycle.bundles, cycle.forebrain,
                            <<cycle.forebrain, cycle.bundles>>, cycle.candidates, cycle.requested)
         /\ ReturnCandidates =>
              cycle' = Made(cycle.id, "stage", cycle.bundles, cycle.forebrain, cycle.jobs, cycle.jobs,
                            cycle.requested)
<1>t. cycle \in CycleType
  BY DEF CycleTypeOK
<1>r. cycle = Made(cycle.id, cycle.phase, cycle.bundles, cycle.forebrain, cycle.jobs, cycle.candidates,
                   cycle.requested)
  BY <1>t, Fields
<1>1. ASSUME Start PROVE cycle' = Made(begun + 1, "checkpoint", 0, NoForebrain, NoWork, NoWork, FALSE)
  BY <1>1 DEF Start, NoCycle, Made
<1>2. ASSUME Approve
      PROVE  cycle' = Made(cycle.id, cycle.phase, cycle.bundles, cycle.forebrain, cycle.jobs, cycle.candidates,
                           TRUE)
  BY <1>2, <1>r DEF Approve, Made
<1>3. ASSUME CheckpointExperience
      PROVE  cycle' = Made(cycle.id, "discover", epochs + 1, cycle.forebrain, cycle.jobs, cycle.candidates,
                           cycle.requested)
  <2> DEFINE c == [cycle EXCEPT !.bundles = epochs + 1]
  <2>1. c = Made(cycle.id, cycle.phase, epochs + 1, cycle.forebrain, cycle.jobs, cycle.candidates,
                 cycle.requested)
    BY <1>r DEF Made
  <2>2. Advance(c) /\ cycle.phase = "checkpoint"
    BY <1>3 DEF CheckpointExperience, Tick
  <2> HIDE DEF c
  <2> QED BY <2>1, <2>2, NextPhase, Advanced DEF Made
<1>4. ASSUME DiscoverForebrain
      PROVE  \E f \in Forebrains : cycle' = Made(cycle.id, "transfer", cycle.bundles, f, cycle.jobs,
                                                 cycle.candidates, cycle.requested)
  <2>0. PICK f \in Forebrains : Advance([cycle EXCEPT !.forebrain = f])
    BY <1>4 DEF DiscoverForebrain
  <2> DEFINE c == [cycle EXCEPT !.forebrain = f]
  <2>1. c = Made(cycle.id, cycle.phase, cycle.bundles, f, cycle.jobs, cycle.candidates, cycle.requested)
    BY <1>r DEF Made
  <2>2. Advance(c) /\ cycle.phase = "discover"
    BY <1>4, <2>0 DEF DiscoverForebrain, Tick
  <2> HIDE DEF c
  <2> QED BY <2>1, <2>2, NextPhase, Advanced DEF Made
<1>5. ASSUME SubmitJobs
      PROVE  cycle' = Made(cycle.id, "await_jobs", cycle.bundles, cycle.forebrain,
                           <<cycle.forebrain, cycle.bundles>>, cycle.candidates, cycle.requested)
  <2> DEFINE c == [cycle EXCEPT !.jobs = <<cycle.forebrain, cycle.bundles>>]
  <2>1. c = Made(cycle.id, cycle.phase, cycle.bundles, cycle.forebrain, <<cycle.forebrain, cycle.bundles>>,
                 cycle.candidates, cycle.requested)
    BY <1>r DEF Made
  <2>2. Advance(c) /\ cycle.phase = "submit"
    BY <1>5 DEF SubmitJobs, Tick
  <2> HIDE DEF c
  <2> QED BY <2>1, <2>2, NextPhase, Advanced DEF Made
<1>6. ASSUME ReturnCandidates
      PROVE  cycle' = Made(cycle.id, "stage", cycle.bundles, cycle.forebrain, cycle.jobs, cycle.jobs,
                           cycle.requested)
  <2> DEFINE c == [cycle EXCEPT !.candidates = cycle.jobs]
  <2>1. c = Made(cycle.id, cycle.phase, cycle.bundles, cycle.forebrain, cycle.jobs, cycle.jobs, cycle.requested)
    BY <1>r DEF Made
  <2>2. Advance(c) /\ cycle.phase = "return"
    BY <1>6 DEF ReturnCandidates, Tick
  <2> HIDE DEF c
  <2> QED BY <2>1, <2>2, NextPhase, Advanced DEF Made
<1> QED BY <1>1, <1>2, <1>3, <1>4, <1>5, <1>6

\* The phases that only move on.
LEMMA CycleMoved ==
  ASSUME CycleTypeOK, Advance(cycle)
  PROVE  cycle' = Made(cycle.id, Phases[RankOf(cycle.phase) + 1], cycle.bundles, cycle.forebrain, cycle.jobs,
                       cycle.candidates, cycle.requested)
BY Fields, Advanced DEF CycleTypeOK

LEMMA CycleCases ==
  ASSUME [CycleNext]_cycleVars
  PROVE  \/ OpenCycle \/ Start \/ Pause \/ SaveOutcome \/ Approve \/ LosePower \/ RegainPower \/ DieInCycle
         \/ CheckpointExperience \/ DiscoverForebrain \/ TransferBundles \/ SubmitJobs \/ AwaitJobs
         \/ ReturnCandidates \/ StageCandidates \/ AwaitActivation \/ ActivateCandidates \/ Complete
         \/ Retry \/ UNCHANGED cycleVars
BY DEF CycleNext, TickStep

-----------------------------------------------------------------------------
(* The types.                                                              *)

LEMMA CycleTypeInit == CycleInit => CycleTypeOK
BY CycleAssumption, PhaseSet DEF CycleInit, CycleTypeOK, CycleType, NoCycle, NoWork, Work, Kinds, MaxEpochs

LEMMA CycleTypeStep == CycleInv /\ [CycleNext]_cycleVars => CycleTypeOK'
<1> SUFFICES ASSUME CycleInv, [CycleNext]_cycleVars PROVE CycleTypeOK'
  OBVIOUS
<1>g. CycleTypeOK /\ Grounded(cycle, effects, agreed)
  BY DEF CycleInv
<1>n. MaxEpochs \in Nat /\ MaxCycles \in Nat /\ MaxFaults \in Nat
  BY CycleAssumption DEF MaxEpochs
<1>c. cycle = Made(cycle.id, cycle.phase, cycle.bundles, cycle.forebrain, cycle.jobs, cycle.candidates,
                   cycle.requested)
  BY <1>g, Fields DEF CycleTypeOK
<1>w. NoCycle \in CycleType
  BY <1>n, PhaseSet DEF CycleType, NoCycle, NoWork, Work
<1> USE <1>g, <1>n, <1>w, Ranks, NextPhase, PhaseSet DEF CycleTypeOK, CycleType, Made, Tick, Saves, Fault, Effect
<1>1. CASE OpenCycle
  BY <1>1 DEF OpenCycle
<1>2. CASE Start
  <2>1. cycle' = Made(begun + 1, "checkpoint", 0, NoForebrain, NoWork, NoWork, FALSE)
    BY <1>2, CycleMade
  <2>2. begun < MaxCycles /\ begun' = begun + 1 /\ UNCHANGED <<cpc, fit, epochs, effects, agreed>>
    BY <1>2 DEF Start
  <2>3. (saved' = cycle' /\ UNCHANGED faults) \/ (Fault /\ UNCHANGED saved)
    BY <1>2 DEF Start
  <2>4. NoWork \in Work
    BY DEF NoWork, Work
  <2>5. cycle' \in CycleType /\ cycle'.phase = "checkpoint"
    BY <2>1, <2>2, <2>4
  <2> QED BY <2>2, <2>3, <2>5
<1>3. CASE Pause
  BY <1>3 DEF Pause
<1>4. CASE SaveOutcome
  BY <1>4 DEF SaveOutcome
<1>5. CASE Approve
  <2>1. cycle' = Made(cycle.id, cycle.phase, cycle.bundles, cycle.forebrain, cycle.jobs, cycle.candidates,
                      TRUE)
    BY <1>5, CycleMade
  <2>2. /\ agreed' = agreed \cup {<<cycle.id, cycle.candidates>>} /\ cycle.phase = "await_activation"
        /\ UNCHANGED <<cpc, fit, epochs, effects, begun>>
    BY <1>5 DEF Approve
  <2>3. (saved' = cycle' /\ UNCHANGED faults) \/ (Fault /\ UNCHANGED saved)
    BY <1>5 DEF Approve
  <2>4. cycle.id # 0
    BY <2>2 DEF Grounded
  <2>5. /\ cycle' \in CycleType /\ cycle'.id = cycle.id /\ cycle'.phase = cycle.phase
        /\ cycle'.forebrain = cycle.forebrain /\ cycle'.bundles = cycle.bundles
    BY <2>1
  <2>6. agreed' \subseteq (1 .. MaxCycles) \X Work
    BY <2>2, <2>4
  <2> QED BY <2>2, <2>3, <2>5, <2>6
<1>6. CASE LosePower
  <2>1. fit' \in BOOLEAN
    BY <1>6 DEF LosePower
  <2>2. faults' \in 0 .. MaxFaults /\ UNCHANGED <<cycle, saved, cpc, epochs, effects, agreed, begun>>
    BY <1>6 DEF LosePower
  <2> QED BY <2>1, <2>2
<1>7. CASE RegainPower
  BY <1>7 DEF RegainPower
<1>8. CASE DieInCycle
  BY <1>8 DEF DieInCycle, NoCycle
<1>9. CASE CheckpointExperience
  BY <1>9, CycleMade, CycleAssumption DEF CheckpointExperience
<1>10. CASE DiscoverForebrain
  BY <1>10, CycleMade, CycleAssumption DEF DiscoverForebrain, Grounded, Past
<1>11. CASE TransferBundles
  BY <1>11, CycleMoved DEF TransferBundles, Work, Kinds
<1>12. CASE SubmitJobs
  BY <1>12, CycleMade, CycleAssumption DEF SubmitJobs, Work, Kinds
<1>13. CASE AwaitJobs
  BY <1>13, CycleMoved DEF AwaitJobs
<1>14. CASE ReturnCandidates
  BY <1>14, CycleMade, CycleAssumption DEF ReturnCandidates, Kinds
<1>15. CASE StageCandidates
  BY <1>15, CycleMoved DEF StageCandidates, Kinds
<1>16. CASE AwaitActivation
  BY <1>16, CycleMoved DEF AwaitActivation
<1>17. CASE ActivateCandidates
  BY <1>17, CycleMoved DEF ActivateCandidates, Kinds
<1>18. CASE Complete
  BY <1>18 DEF Complete
<1>19. CASE Retry
  BY <1>19 DEF Retry
<1>20. CASE UNCHANGED cycleVars
  BY <1>20 DEF cycleVars
<1> QED BY CycleCases, <1>1, <1>2, <1>3, <1>4, <1>5, <1>6, <1>7, <1>8, <1>9, <1>10, <1>11, <1>12, <1>13,
           <1>14, <1>15, <1>16, <1>17, <1>18, <1>19, <1>20

-----------------------------------------------------------------------------
(* What a cycle relies on.                                                 *)

\* What the backend did and the operator approved is never taken back.
LEMMA HistoryGrows ==
  ASSUME CycleTypeOK, [CycleNext]_cycleVars
  PROVE  (\A k \in Kinds : effects[k] \subseteq effects'[k]) /\ agreed \subseteq agreed'
<1>1. \A k \in Kinds : effects[k] \subseteq effects'[k]
  <2>1. ASSUME NEW kind \in Kinds, NEW work, Effect(kind, work)
        PROVE  \A k \in Kinds : effects[k] \subseteq effects'[k]
    BY <2>1 DEF Effect, CycleTypeOK
  <2>2. UNCHANGED effects \/ \E kind \in Kinds : \E work : Effect(kind, work)
    BY CycleCases DEF OpenCycle, Start, Pause, SaveOutcome, Approve, LosePower, RegainPower, DieInCycle,
       CheckpointExperience, DiscoverForebrain, TransferBundles, SubmitJobs, AwaitJobs, ReturnCandidates,
       StageCandidates, AwaitActivation, ActivateCandidates, Complete, Retry, cycleVars, Kinds
  <2> QED BY <2>1, <2>2
<1>2. agreed \subseteq agreed'
  BY CycleCases DEF OpenCycle, Start, Pause, SaveOutcome, Approve, LosePower, RegainPower, DieInCycle,
     CheckpointExperience, DiscoverForebrain, TransferBundles, SubmitJobs, AwaitJobs, ReturnCandidates,
     StageCandidates, AwaitActivation, ActivateCandidates, Complete, Retry, cycleVars, Tick
<1> QED BY <1>1, <1>2

LEMMA GroundedKept ==
  ASSUME CycleTypeOK, [CycleNext]_cycleVars, NEW c, Grounded(c, effects, agreed)
  PROVE  Grounded(c, effects', agreed')
BY HistoryGrows DEF Grounded, Kinds

\* A save writes the cycle the process holds, before or after the call.
LEMMA SavedFrom ==
  ASSUME [CycleNext]_cycleVars
  PROVE  saved' \in {saved, cycle, cycle'}
BY CycleCases DEF OpenCycle, Start, Pause, SaveOutcome, Approve, LosePower, RegainPower, DieInCycle,
   CheckpointExperience, DiscoverForebrain, TransferBundles, SubmitJobs, AwaitJobs, ReturnCandidates,
   StageCandidates, AwaitActivation, ActivateCandidates, Complete, Retry, cycleVars, Tick, Saves

LEMMA CycleGroundedStep ==
  CycleInv /\ [CycleNext]_cycleVars => Grounded(cycle', effects', agreed')
<1> SUFFICES ASSUME CycleInv, [CycleNext]_cycleVars PROVE Grounded(cycle', effects', agreed')
  OBVIOUS
<1>t. CycleTypeOK /\ Grounded(cycle, effects, agreed) /\ Grounded(saved, effects, agreed)
  BY DEF CycleInv
<1>g. Grounded(cycle, effects', agreed') /\ Grounded(saved, effects', agreed')
  BY <1>t, GroundedKept
<1>e. cycle \in CycleType /\ effects \in [Kinds -> SUBSET Work]
  BY <1>t DEF CycleTypeOK
<1>p. cycle.phase \in PhaseNames /\ cycle.id \in Nat
  BY <1>e, CycleAssumption DEF CycleType
<1>k. UNCHANGED cycle => Grounded(cycle', effects', agreed')
  BY <1>g
<1>1. CASE OpenCycle
  BY <1>1, <1>g DEF OpenCycle
<1>2. CASE Start
  <2>1. begun \in Nat
    BY <1>t, CycleAssumption DEF CycleTypeOK
  <2> QED BY <1>2, <2>1, <1>t, CycleMade, Ranks DEF Made, Grounded, Past
<1>5. CASE Approve
  <2>1. cycle' = Made(cycle.id, cycle.phase, cycle.bundles, cycle.forebrain, cycle.jobs, cycle.candidates, TRUE)
    BY <1>5, <1>t, CycleMade
  <2>2. <<cycle.id, cycle.candidates>> \in agreed' /\ cycle.phase = "await_activation"
    BY <1>5 DEF Approve
  <2> QED BY <2>1, <2>2, <1>g, Ranks DEF Made, Grounded, Past
<1>8. CASE DieInCycle
  BY <1>8, Ranks DEF DieInCycle, NoCycle, Grounded, Past
<1>9. CASE CheckpointExperience
  <2>1. cycle.phase = "checkpoint" /\ epochs \in Nat
    BY <1>9, <1>t, CycleAssumption DEF CheckpointExperience, Tick, CycleTypeOK, MaxEpochs
  <2> QED BY <1>9, <2>1, <1>t, <1>g, CycleMade, Ranks DEF Made, Grounded, Past
<1>10. CASE DiscoverForebrain
  <2>1. cycle.phase = "discover" /\ cycle.id # 0
    BY <1>10 DEF DiscoverForebrain, Tick
  <2> QED BY <1>10, <2>1, <1>t, <1>g, CycleMade, Ranks DEF Made, Grounded, Past
<1>11. CASE TransferBundles
  <2>1. cycle.phase = "transfer" /\ cycle.id # 0 /\ Advance(cycle)
    BY <1>11 DEF TransferBundles, Tick
  <2>2. <<cycle.forebrain, cycle.bundles>> \in effects'["transferred"]
    BY <1>11, <1>e DEF TransferBundles, Effect, Kinds
  <2> QED BY <2>1, <2>2, <1>t, <1>g, CycleMoved, NextPhase, Ranks DEF Made, Grounded, Past
<1>12. CASE SubmitJobs
  <2>1. cycle.phase = "submit" /\ cycle.id # 0
    BY <1>12 DEF SubmitJobs, Tick
  <2>2. <<cycle.forebrain, cycle.bundles>> \in effects'["submitted"]
    BY <1>12, <1>e DEF SubmitJobs, Effect, Kinds
  <2> QED BY <1>12, <2>1, <2>2, <1>t, <1>g, CycleMade, Ranks DEF Made, Grounded, Past
<1>13. CASE AwaitJobs
  <2>1. cycle.phase = "await_jobs" /\ cycle.id # 0 /\ Advance(cycle)
    BY <1>13 DEF AwaitJobs, Tick
  <2> QED BY <2>1, <1>t, <1>g, CycleMoved, NextPhase, Ranks DEF Made, Grounded, Past
<1>14. CASE ReturnCandidates
  <2>1. cycle.phase = "return" /\ cycle.id # 0
    BY <1>14 DEF ReturnCandidates, Tick
  <2>2. cycle.jobs \in effects'["returned"]
    BY <1>14, <1>e DEF ReturnCandidates, Effect, Kinds
  <2> QED BY <1>14, <2>1, <2>2, <1>t, <1>g, CycleMade, Ranks DEF Made, Grounded, Past
<1>15. CASE StageCandidates
  <2>1. cycle.phase = "stage" /\ cycle.id # 0 /\ Advance(cycle)
    BY <1>15 DEF StageCandidates, Tick
  <2>2. cycle.candidates \in effects'["staged"]
    BY <1>15, <1>e DEF StageCandidates, Effect, Kinds
  <2> QED BY <2>1, <2>2, <1>t, <1>g, CycleMoved, NextPhase, Ranks DEF Made, Grounded, Past
<1>16. CASE AwaitActivation
  <2>1. cycle.phase = "await_activation" /\ cycle.id # 0
    BY <1>16 DEF AwaitActivation, Tick
  <2>2. CASE cycle.requested
    <3>1. Advance(cycle)
      BY <1>16, <2>2 DEF AwaitActivation
    <3> QED BY <3>1, <2>1, <2>2, <1>t, <1>g, CycleMoved, NextPhase, Ranks DEF Made, Grounded, Past
  <2>3. CASE ~cycle.requested
    BY <1>16, <2>3, <1>k DEF AwaitActivation
  <2> QED BY <2>2, <2>3
<1>17. CASE ActivateCandidates
  <2>1. cycle.phase = "activate" /\ cycle.id # 0 /\ Advance(cycle)
    BY <1>17 DEF ActivateCandidates, Tick
  <2>2. cycle.candidates \in effects'["activated"]
    BY <1>17, <1>e DEF ActivateCandidates, Effect, Kinds
  <2> QED BY <2>1, <2>2, <1>t, <1>g, CycleMoved, NextPhase, Ranks DEF Made, Grounded, Past
<1>18. CASE UNCHANGED cycle
  BY <1>18, <1>k
<1> QED BY CycleCases, <1>1, <1>2, <1>5, <1>8, <1>9, <1>10, <1>11, <1>12, <1>13, <1>14, <1>15, <1>16, <1>17,
           <1>18 DEF Pause, SaveOutcome, LosePower, RegainPower, Complete, Retry, cycleVars

LEMMA SavedGroundedStep ==
  CycleInv /\ [CycleNext]_cycleVars => Grounded(saved', effects', agreed')
BY CycleGroundedStep, GroundedKept, SavedFrom DEF CycleInv

-----------------------------------------------------------------------------
(* The cycle in memory and the one on disk.                                *)

\* A step that calls the backend saves first, and then moves one phase on at most.
LEMMA TickMoves ==
  ASSUME CycleTypeOK, TickStep
  PROVE  /\ saved' = cycle /\ cycle.id # 0 /\ cpc = "idle" /\ cpc' = "save" /\ cycle'.id = cycle.id
         /\ RankOf(cycle'.phase) \in {RankOf(cycle.phase), RankOf(cycle.phase) + 1}
         /\ Past(cycle, "return") => cycle'.candidates = cycle.candidates
         /\ UNCHANGED <<begun, agreed>>
<1>1. saved' = cycle /\ cycle.id # 0 /\ cpc = "idle" /\ cpc' = "save" /\ UNCHANGED <<begun, agreed>>
  BY DEF TickStep, CheckpointExperience, DiscoverForebrain, TransferBundles, SubmitJobs, AwaitJobs,
     ReturnCandidates, StageCandidates, AwaitActivation, ActivateCandidates, Complete, Retry, Tick
<1> DEFINE Moves == /\ cycle'.id = cycle.id
                    /\ RankOf(cycle'.phase) \in {RankOf(cycle.phase), RankOf(cycle.phase) + 1}
                    /\ Past(cycle, "return") => cycle'.candidates = cycle.candidates
<1>2. ASSUME Advance(cycle), cycle.phase \in {"transfer", "await_jobs", "stage", "await_activation", "activate"}
      PROVE  Moves
  BY <1>2, CycleMoved, NextPhase, Ranks DEF Made
<1>3. UNCHANGED cycle => Moves
  OBVIOUS
<1>4. ASSUME CheckpointExperience PROVE Moves
  BY <1>4, CycleMade, Ranks DEF CheckpointExperience, Tick, Made
<1>5. ASSUME DiscoverForebrain PROVE Moves
  BY <1>5, CycleMade, Ranks DEF DiscoverForebrain, Tick, Made
<1>6. ASSUME SubmitJobs PROVE Moves
  BY <1>6, CycleMade, Ranks DEF SubmitJobs, Tick, Made
<1>7. ASSUME ReturnCandidates PROVE Moves
  BY <1>7, CycleMade, Ranks DEF ReturnCandidates, Tick, Made, Past
<1>8. Moves
  <2> HIDE DEF Moves
  <2>1. CASE TransferBundles \/ AwaitJobs \/ StageCandidates \/ ActivateCandidates
    BY <2>1, <1>2 DEF TransferBundles, AwaitJobs, StageCandidates, ActivateCandidates, Tick
  <2>2. CASE AwaitActivation
    BY <2>2, <1>2, <1>3 DEF AwaitActivation, Tick
  <2>3. CASE Complete \/ Retry
    BY <2>3, <1>3 DEF Complete, Retry
  <2> QED BY <1>4, <1>5, <1>6, <1>7, <2>1, <2>2, <2>3 DEF TickStep
<1> QED BY <1>1, <1>8

\* A new cycle starts only when the one on disk, behind or not, is carried out.
LEMMA StartAfterFinish ==
  ASSUME CycleInv, Start
  PROVE  /\ cycle'.id = begun + 1 /\ cycle'.id > saved.id
         /\ saved.id = 0 \/ saved.candidates \in effects["activated"]
<1>t. CycleTypeOK /\ MemoryAhead /\ Grounded(cycle, effects, agreed) /\ cycle.id <= begun /\ saved.id <= begun
  BY DEF CycleInv
<1>n. /\ cycle.id \in Nat /\ saved.id \in Nat /\ begun \in Nat
      /\ cycle.phase \in PhaseNames /\ saved.phase \in PhaseNames
  BY <1>t, CycleAssumption DEF CycleTypeOK, CycleType
<1>r. RankOf(cycle.phase) \in 1 .. 10 /\ RankOf(saved.phase) \in 1 .. 10
  BY <1>n, PhaseSet, Ranks
<1>1. cycle'.id = begun + 1 /\ ~Pending /\ cpc = "idle"
  BY <1>t, CycleMade DEF Start, Made
<1>2. CASE cycle.id > saved.id
  BY <1>1, <1>2, <1>t, <1>n DEF MemoryAhead
<1>3. CASE cycle.id = saved.id /\ saved.id # 0
  <2>1. RankOf(cycle.phase) = 10 /\ cycle.candidates \in effects["activated"]
    BY <1>1, <1>3, <1>t, Ranks DEF Pending, Grounded, Past
  <2>2. RankOf(saved.phase) >= 9
    BY <2>1, <1>1, <1>3, <1>t, <1>n, <1>r DEF MemoryAhead
  <2>3. saved.candidates = cycle.candidates
    BY <2>2, <1>1, <1>3, <1>t, <1>n, <1>r, Ranks DEF MemoryAhead, Past
  <2> QED BY <2>1, <2>3, <1>1, <1>t, <1>n
<1>4. CASE saved.id = 0
  BY <1>1, <1>4, <1>n
<1> QED BY <1>1, <1>2, <1>3, <1>4, <1>t, <1>n DEF MemoryAhead

\* The cycle on disk changes as DurableProgress says.
LEMMA DurableStep ==
  CycleInv /\ [CycleNext]_cycleVars =>
    (saved' # saved =>
       \/ saved'.id = saved.id /\ RankOf(saved'.phase) >= RankOf(saved.phase)
       \/ saved'.id > saved.id /\ (saved.id = 0 \/ saved.candidates \in effects["activated"]))
<1> SUFFICES ASSUME CycleInv, [CycleNext]_cycleVars, saved' # saved
             PROVE  \/ saved'.id = saved.id /\ RankOf(saved'.phase) >= RankOf(saved.phase)
                    \/ saved'.id > saved.id /\ (saved.id = 0 \/ saved.candidates \in effects["activated"])
  OBVIOUS
<1>t. CycleTypeOK /\ MemoryAhead /\ Grounded(cycle, effects, agreed) /\ cycle.id <= begun /\ saved.id <= begun
  BY DEF CycleInv
<1>n. cycle.id \in Nat /\ saved.id \in Nat /\ begun \in Nat /\ cycle.phase \in PhaseNames /\ saved.phase \in PhaseNames
  BY <1>t, CycleAssumption DEF CycleTypeOK, CycleType
<1>r. RankOf(cycle.phase) \in 1 .. 10 /\ RankOf(saved.phase) \in 1 .. 10
  BY <1>n, PhaseSet, Ranks
<1>1. CASE saved' = cycle /\ cpc # "down"
  BY <1>1, <1>t, <1>n, <1>r DEF MemoryAhead
<1>2. CASE Start
  BY <1>2, <1>t, <1>n, StartAfterFinish DEF Start, Saves, CycleInv
<1>3. CASE Approve
  <2>1. cpc = "idle" /\ saved' = cycle' /\ cycle'.id = cycle.id /\ cycle'.phase = cycle.phase
    BY <1>3, <1>t, CycleMade DEF Approve, Saves, Made
  <2> QED BY <2>1, <1>t, <1>n, <1>r DEF MemoryAhead
<1>4. CASE TickStep
  BY <1>4, <1>1, <1>t, TickMoves
<1> QED BY <1>1, <1>2, <1>3, <1>4 DEF CycleNext, OpenCycle, Pause, SaveOutcome, LosePower, RegainPower,
           DieInCycle, cycleVars, Saves

LEMMA MemoryAheadStep == CycleInv /\ [CycleNext]_cycleVars => MemoryAhead'
<1> SUFFICES ASSUME CycleInv, [CycleNext]_cycleVars, cpc' # "down" PROVE MemoryAhead'
  BY DEF MemoryAhead
<1>t. CycleTypeOK /\ MemoryAhead /\ Grounded(cycle, effects, agreed) /\ cycle.id <= begun /\ saved.id <= begun
  BY DEF CycleInv
<1>n. /\ cycle.id \in Nat /\ saved.id \in Nat /\ begun \in Nat
      /\ cycle.phase \in PhaseNames /\ saved.phase \in PhaseNames
  BY <1>t, CycleAssumption DEF CycleTypeOK, CycleType
<1>r. RankOf(cycle.phase) \in 1 .. 10 /\ RankOf(saved.phase) \in 1 .. 10
  BY <1>n, PhaseSet, Ranks
<1>h. effects["activated"] \subseteq effects'["activated"]
  BY <1>t, HistoryGrows DEF Kinds
<1>1. CASE cycle' = saved'
  BY <1>1 DEF MemoryAhead
<1>2. CASE UNCHANGED <<cycle, saved>> /\ cpc # "down"
  BY <1>2, <1>t, <1>h DEF MemoryAhead, Past
<1>3. CASE TickStep
  BY <1>3, <1>t, TickMoves DEF MemoryAhead, Past
<1>4. CASE Start
  <2>1. CASE UNCHANGED saved
    BY <1>4, <2>1, <1>h, StartAfterFinish DEF MemoryAhead
  <2> QED BY <1>4, <2>1, <1>1 DEF Start, Saves
<1>5. CASE Approve
  <2>1. /\ cpc = "idle" /\ cycle'.id = cycle.id /\ cycle'.phase = cycle.phase
        /\ cycle'.candidates = cycle.candidates
    BY <1>5, <1>t, CycleMade DEF Approve, Made
  <2>2. CASE UNCHANGED saved
    BY <2>1, <2>2, <1>t, <1>h DEF MemoryAhead, Past
  <2> QED BY <1>5, <2>2, <1>1 DEF Approve, Saves
<1> QED BY <1>1, <1>2, <1>3, <1>4, <1>5 DEF CycleNext, OpenCycle, Pause, SaveOutcome, LosePower, RegainPower,
           DieInCycle, cycleVars, Saves

-----------------------------------------------------------------------------
(* The phases.                                                             *)

\* What a call has done rests on what the calls before it did.
LEMMA PhaseFollowsStep == CycleInv /\ [CycleNext]_cycleVars => EachPhaseFollows'
<1> SUFFICES ASSUME CycleInv, [CycleNext]_cycleVars PROVE EachPhaseFollows'
  OBVIOUS
<1>t. CycleTypeOK /\ Grounded(cycle, effects, agreed) /\ EachPhaseFollows
  BY DEF CycleInv
<1>e. effects \in [Kinds -> SUBSET Work] /\ cycle.id \in 0 .. MaxCycles /\ agreed \subseteq agreed'
  BY <1>t, HistoryGrows DEF CycleTypeOK, CycleType
<1>1. CASE UNCHANGED effects
  BY <1>1, <1>t, <1>e DEF EachPhaseFollows
<1>2. CASE TransferBundles
  BY <1>2, <1>t, <1>e DEF TransferBundles, Tick, Effect, Kinds, EachPhaseFollows
<1>3. CASE SubmitJobs
  <2>1. <<cycle.forebrain, cycle.bundles>> \in effects["transferred"]
    BY <1>3, <1>t, Ranks DEF SubmitJobs, Tick, Grounded, Past
  <2> QED BY <1>3, <2>1, <1>t, <1>e DEF SubmitJobs, Tick, Effect, Kinds, EachPhaseFollows
<1>4. CASE ReturnCandidates
  <2>1. cycle.jobs \in effects["submitted"]
    BY <1>4, <1>t, Ranks DEF ReturnCandidates, Tick, Grounded, Past
  <2> QED BY <1>4, <2>1, <1>t, <1>e DEF ReturnCandidates, Tick, Effect, Kinds, EachPhaseFollows
<1>5. CASE StageCandidates
  <2>1. cycle.candidates \in effects["returned"]
    BY <1>5, <1>t, Ranks DEF StageCandidates, Tick, Grounded, Past
  <2> QED BY <1>5, <2>1, <1>t, <1>e DEF StageCandidates, Tick, Effect, Kinds, EachPhaseFollows
<1>6. CASE ActivateCandidates
  <2>1. cycle.candidates \in effects["staged"] /\ <<cycle.id, cycle.candidates>> \in agreed /\ cycle.id # 0
    BY <1>6, <1>t, Ranks DEF ActivateCandidates, Tick, Grounded, Past
  <2>2. cycle.id \in 1 .. MaxCycles /\ <<cycle.id, cycle.candidates>> \in agreed'
    BY <2>1, <1>e, CycleAssumption
  <2> QED BY <1>6, <2>1, <2>2, <1>t, <1>e DEF ActivateCandidates, Tick, Effect, Kinds, EachPhaseFollows
<1> QED BY CycleCases, <1>1, <1>2, <1>3, <1>4, <1>5, <1>6 DEF OpenCycle, Start, Pause, SaveOutcome, Approve,
           LosePower, RegainPower, DieInCycle, CheckpointExperience, DiscoverForebrain, AwaitJobs,
           AwaitActivation, Complete, Retry, cycleVars

-----------------------------------------------------------------------------
(* The invariant and the theorems.                                         *)

LEMMA CycleInvInit == CycleInit => CycleInv
<1> SUFFICES ASSUME CycleInit PROVE CycleInv
  OBVIOUS
<1>1. CycleTypeOK
  BY CycleTypeInit
<1>2. Grounded(cycle, effects, agreed) /\ Grounded(saved, effects, agreed)
  BY DEF CycleInit, NoCycle, Grounded, Past
<1> QED BY <1>1, <1>2 DEF CycleInit, CycleInv, NoCycle, MemoryAhead, EachPhaseFollows, Kinds

LEMMA CycleInvStep == CycleInv /\ [CycleNext]_cycleVars => CycleInv'
<1> SUFFICES ASSUME CycleInv, [CycleNext]_cycleVars PROVE CycleInv'
  OBVIOUS
<1>t. CycleTypeOK /\ cycle.id <= begun /\ saved.id <= begun /\ (cpc = "down" => cycle = NoCycle)
  BY DEF CycleInv
<1>n. cycle.id \in Nat /\ saved.id \in Nat /\ begun \in Nat
  BY <1>t, CycleAssumption DEF CycleTypeOK, CycleType
<1>1. cycle'.id <= begun' /\ begun <= begun' /\ (cpc' = "down" => cycle' = NoCycle)
  <2>1. CASE Start
    BY <2>1, <1>t, <1>n, CycleMade DEF Start, Made
  <2>2. CASE Approve
    BY <2>2, <1>t, <1>n, CycleMade DEF Approve, Made
  <2>3. CASE TickStep
    BY <2>3, <1>t, <1>n, TickMoves
  <2>4. CASE DieInCycle
    BY <2>4, <1>n DEF DieInCycle, NoCycle
  <2> QED BY <1>t, <1>n, <2>1, <2>2, <2>3, <2>4 DEF CycleNext, OpenCycle, Pause, SaveOutcome, LosePower,
             RegainPower, cycleVars
<1>2. begun' \in Nat /\ cycle'.id \in Nat
  BY CycleTypeStep, CycleAssumption DEF CycleTypeOK, CycleType
<1>3. saved'.id <= begun'
  BY <1>1, <1>2, <1>t, <1>n, SavedFrom
<1> QED BY <1>1, <1>3, CycleTypeStep, CycleGroundedStep, SavedGroundedStep, MemoryAheadStep, PhaseFollowsStep
        DEF CycleInv

LEMMA CycleInvAlways == CycleSpec => []CycleInv
BY CycleInvInit, CycleInvStep, PTL DEF CycleSpec

\* Every field of the cycle in memory and of the one on disk has its type, and
\* the forebrain that coordinator.rs unwraps past discovery is there, whatever
\* failed and wherever the process died.
THEOREM CycleTypeCorrect == CycleSpec => []CycleTypeOK
<1>1. CycleInv => CycleTypeOK
  BY DEF CycleInv
<1> QED BY <1>1, CycleInvAlways, PTL

\* Each call of the coordinator to its backend rests on what the calls before it
\* did for the same forebrain and bundles, and an activation on an approval.
THEOREM PhasesAlwaysFollow == CycleSpec => []EachPhaseFollows
<1>1. CycleInv => EachPhaseFollows
  BY DEF CycleInv
<1> QED BY <1>1, CycleInvAlways, PTL

\* The state file of the coordinator never falls back a phase and gives way to
\* another cycle only when its candidates have been activated.
THEOREM ProgressIsDurable == CycleSpec => DurableProgress
<1>1. CycleInv /\ [CycleNext]_cycleVars =>
        [saved' # saved =>
           \/ saved'.id = saved.id /\ RankOf(saved'.phase) >= RankOf(saved.phase)
           \/ saved'.id > saved.id /\ (saved.id = 0 \/ saved.candidates \in effects["activated"])]_cycleVars
  BY DurableStep
<1> QED BY <1>1, CycleInvAlways, PTL DEF CycleSpec, DurableProgress

-----------------------------------------------------------------------------
(* The durable parts of the higher brain together.                         *)

\* Every part keeps its invariant, moving or at rest.
HigherInv == StoreInv /\ JobInv /\ CycleInv

LEMMA HigherInitial == HigherInit => HigherInv
BY StoreInvInit, JobInvInit, CycleInvInit DEF HigherInit, HigherInv

LEMMA HigherStep == HigherInv /\ [HigherNext]_higherVars => HigherInv'
<1> SUFFICES ASSUME HigherInv, [HigherNext]_higherVars PROVE HigherInv'
  OBVIOUS
<1>1. [StoreNext]_storeVars /\ [JobNext]_jobVars /\ [CycleNext]_cycleVars
  BY DEF HigherNext, InJobs, InCycle, higherVars
<1> QED BY <1>1, StoreInvStep, JobInvStep, CycleInvStep DEF HigherInv

\* The job store, the candidate store and the coordinator's cycle keep their
\* types, whichever of them moves.
THEOREM HigherTypeCorrect == HigherSpec => []HigherTypeOK
<1>1. HigherInv => HigherTypeOK
  BY JobTyped DEF HigherInv, StoreInv, CycleInv, HigherTypeOK
<1> QED BY <1>1, HigherInitial, HigherStep, PTL DEF HigherSpec
=============================================================================
