---------------------------- MODULE SleepController ----------------------------
(***************************************************************************)
(* The sleep lifecycle of the motherbrain's runtime (pete-runtime,         *)
(* SleepController): when a session of maintenance starts, the plan it     *)
(* works on, which items run under the conditions of their tick and on     *)
(* which references, what interrupts it, and the bounded record of the     *)
(* inputs each kind of work has consumed.  The runtime calls tick once a   *)
(* cycle.                                                                  *)
(*                                                                         *)
(* The reservation of the resource budget is left out: one plan reserves   *)
(* less than a session's default budget, so no item is ever cancelled.  So *)
(* is heat: above the limit it keeps sleep from starting and wakes, like a *)
(* safety event, before an item could be deferred for it.                  *)
(***************************************************************************)
EXTENDS Naturals, FiniteSets, Sequences, SequencesExt

CONSTANTS
  Episodes,   \* references to completed episodes
  Failures,   \* references to failed behaviours
  Relations,  \* references to semantic relations
  Offers,     \* the sets of references a tick may offer
  Standing,   \* the references offered once conditions have settled
  RecordSize  \* MAX_CONSUMED_SLEEP_INPUT_REFS

Refs == Episodes \cup Failures \cup Relations
Kind == {"flush", "consolidate", "replay", "train", "evaluate"}

\* input_ref_is_used_by, and the kinds pending_input asks about.
UsedBy(ref) == (IF ref \in Episodes \cup Relations THEN {"consolidate"} ELSE {})
                 \cup (IF ref \in Episodes \cup Failures THEN {"replay"} ELSE {}) \cup {"train"}
PairsOf(refs) == UNION {{<<r, k>> : k \in UsedBy(r)} : r \in refs}

ASSUME SleepAssumption ==
  /\ IsFiniteSet(Refs) /\ Offers \subseteq SUBSET Refs /\ Standing \in Offers
  /\ RecordSize \in Nat /\ Cardinality(PairsOf(Standing)) <= RecordSize

VARIABLES
  session,      \* the SleepSession, or NoSession
  consumed,     \* consumed_inputs, oldest first
  armed,        \* fatigue_entry_armed
  requestHeld,  \* operator_sleep_request_active
  settled,      \* conditions have settled: every later input is the QuietDock one
  done,         \* history: each input planned for a kind of work, once that item completed
  worked,       \* history: each reference that a completed item of the kind really took up
  again         \* history: those it took up although the record held them

sleepHistory == <<done, worked, again>>
sleepVars == <<session, consumed, armed, requestHeld, settled, sleepHistory>>

NoSession == [phase |-> "awake", onPower |-> FALSE, plan |-> [k \in Kind |-> {}],
              status |-> [k \in Kind |-> "pending"]]

SleepInit == /\ session = NoSession /\ consumed = <<>> /\ armed = TRUE /\ requestHeld = FALSE
             /\ settled = FALSE /\ done = {} /\ worked = {} /\ again = {}

-----------------------------------------------------------------------------
(* SleepTickInput (runtime_sleep_input): fatigue against its two           *)
(* thresholds, power (charging and docked are one flag), what keeps sleep  *)
(* from starting, what wakes (a safety event does both), and the rest.     *)

Inputs == [fatigue : {"low", "middle", "high"}, power : BOOLEAN, blocked : BOOLEAN,
           disturbed : BOOLEAN, request : BOOLEAN, accelerator : BOOLEAN, refs : Offers]
\* Tired, asked for and with work on offer, on a powered and quiet dock.
QuietDock == [fatigue |-> "high", power |-> TRUE, blocked |-> FALSE, disturbed |-> FALSE,
            request |-> TRUE, accelerator |-> TRUE, refs |-> Standing]

\* wake_reason; expects_external_power makes the loss of power one.
Wakes(in) == in.disturbed \/ (session.onPower /\ ~in.power)

IsConsumed(ref, kind) == <<ref, kind>> \in Range(consumed)
Pending(refs) == {r \in refs : \E k \in UsedBy(r) : ~IsConsumed(r, k)}

\* Mutant: a held request keeps asking.
RequestEdge_Held(in) == in.request
RequestEdge(in) == in.request /\ ~requestHeld
\* sleep_eligibility_with_arms, for the arm as this tick has set it.
Eligible(in, arm) ==
  /\ RequestEdge(in) \/ (arm /\ in.fatigue = "high") \/ (Pending(in.refs) # {} /\ in.power)
  /\ ~in.blocked

\* deterministic_work_plan.
PlanFor(refs) == [k \in Kind |-> {r \in Pending(refs) : k \in UsedBy(r) /\ ~IsConsumed(r, k)}]

DependsOn(kind) == CASE kind = "consolidate" -> {"flush"}
                     [] kind \in {"replay", "train"} -> {"consolidate"}
                     [] kind = "evaluate" -> {"train"}
                     [] OTHER -> {}
\* execute_work_item under the conditions of this tick.
Completes(kind, status, in) ==
  /\ \A d \in DependsOn(kind) : status[d] = "completed"
  /\ kind \in {"train", "evaluate"} => in.power
  /\ kind = "train" => in.accelerator
Execute(status, kind, in) ==
  [status EXCEPT ![kind] = IF Completes(kind, status, in) THEN "completed" ELSE "deferred"]

Phases == <<"preparing", "quiescent", "consolidating", "training", "evaluating", "finalizing",
            "waking">>
Following(phase) == Phases[1 + CHOOSE i \in DOMAIN Phases : Phases[i] = phase]
WorkOf(phase) == CASE phase = "consolidating" -> {"flush", "consolidate", "replay"}
                   [] phase = "training" -> {"train"}
                   [] phase = "evaluating" -> {"evaluate"}
                   [] OTHER -> {}
\* execute_phase: the kinds of the phase, in the order of the plan.
ExecutePhase(phase, status, in) ==
  CASE phase = "consolidating" ->
         Execute(Execute(Execute(status, "flush", in), "consolidate", in), "replay", in)
    [] phase = "training" -> Execute(status, "train", in)
    [] phase = "evaluating" -> Execute(status, "evaluate", in)
    [] OTHER -> status

-----------------------------------------------------------------------------
(* tick.                                                                   *)

Start(in, arm) ==
  /\ session.phase = "awake" /\ Eligible(in, arm)
  /\ session' = [NoSession EXCEPT !.phase = "preparing", !.onPower = in.power,
                                  !.plan = PlanFor(in.refs)]
  /\ armed' = (arm /\ in.fatigue # "high")
  /\ UNCHANGED <<consumed, sleepHistory>>

StayAwake(in, arm) ==
  /\ session.phase = "awake" /\ ~Eligible(in, arm)
  /\ armed' = arm
  /\ UNCHANGED <<session, consumed, sleepHistory>>

Interrupt(in, arm) ==
  /\ session.phase # "awake" /\ Wakes(in)
  /\ session' = [session EXCEPT !.phase = "interrupted"]
  /\ armed' = arm
  /\ UNCHANGED <<consumed, sleepHistory>>

\* The references an item takes up: training those of its plan; consolidation and
\* replay whatever the tick that runs them offers, planned or not.
TakenUp(kind, in) == CASE kind = "consolidate" -> in.refs \cap (Episodes \cup Relations)
                       [] kind = "replay" -> in.refs \cap Episodes
                       [] kind = "train" -> session.plan["train"]
                       [] OTHER -> {}
Proceed(in, arm) ==
  LET status == ExecutePhase(session.phase, session.status, in)
      completed == {k \in WorkOf(session.phase) : status[k] = "completed"}
      taken == UNION {TakenUp(k, in) \X {k} : k \in completed}
  IN
  /\ session.phase \in Range(Phases) \ {"waking"} /\ ~Wakes(in)
  /\ session' = [session EXCEPT !.phase = Following(@), !.status = status]
  /\ done' = done \cup UNION {session.plan[k] \X {k} : k \in completed}
  /\ worked' = worked \cup taken /\ again' = again \cup (taken \cap Range(consumed))
  /\ armed' = arm
  /\ UNCHANGED consumed

EndInterruption(in, arm) ==
  /\ session.phase = "interrupted" /\ ~Wakes(in)
  /\ session' = [session EXCEPT !.phase = "waking"]
  /\ armed' = arm
  /\ UNCHANGED <<consumed, sleepHistory>>

MarkConsumed(record, pair) ==
  IF pair \in Range(record) THEN record
  ELSE IF Len(record) < RecordSize THEN Append(record, pair) ELSE Tail(Append(record, pair))
\* The record after it has taken the pairs in their order.
Recorded(record, pairs) ==
  LET After[n \in 0..Len(pairs)] ==
        IF n = 0 THEN record ELSE MarkConsumed(After[n - 1], pairs[n])
  IN  After[Len(pairs)]
\* Mutant: whatever the session took up is consumed.
Consumption_AnyStatus(k) ==
  IF session.status[k] # "pending" THEN SetToSeq(session.plan[k] \X {k}) ELSE <<>>
\* The inputs of one item of the plan, consumed if it completed.
Consumption(k) ==
  IF session.status[k] = "completed" THEN SetToSeq(session.plan[k] \X {k}) ELSE <<>>
\* finish_session: the consumptions in the order the items were executed.
Finish(in, arm) ==
  /\ session.phase = "waking" /\ ~Wakes(in)
  /\ session' = NoSession
  /\ consumed' = Recorded(consumed, Consumption("flush") \o Consumption("consolidate")
                    \o Consumption("replay") \o Consumption("train") \o Consumption("evaluate"))
  /\ armed' = arm
  /\ UNCHANGED sleepHistory

SleepTick(in) ==
  LET arm == armed \/ in.fatigue = "low" IN
  /\ settled => in = QuietDock
  /\ requestHeld' = in.request /\ UNCHANGED settled
  /\ \/ Start(in, arm) \/ StayAwake(in, arm) \/ Interrupt(in, arm) \/ Proceed(in, arm)
     \/ EndInterruption(in, arm) \/ Finish(in, arm)

Settle == ~settled /\ settled' = TRUE /\ UNCHANGED <<session, consumed, armed, requestHeld, sleepHistory>>

SleepStep == \E in \in Inputs : SleepTick(in)
SleepNext == SleepStep \/ Settle
\* The runtime keeps ticking.
SleepSpec == SleepInit /\ [][SleepNext]_sleepVars /\ WF_sleepVars(SleepStep)

-----------------------------------------------------------------------------
(* Properties.                                                             *)

\* The record never exceeds its bound and never holds an input twice.
SleepTypeOK ==
  /\ session.phase \in Range(Phases) \cup {"awake", "interrupted"}
  /\ session.plan \in [Kind -> SUBSET Refs]
  /\ session.status \in [Kind -> {"pending", "completed", "deferred"}]
  /\ Len(consumed) <= RecordSize /\ Range(consumed) \subseteq PairsOf(Refs) /\ IsInjective(consumed)
  /\ {session.onPower, armed, requestHeld, settled} \subseteq BOOLEAN
  /\ done \subseteq PairsOf(Refs) /\ worked \subseteq PairsOf(Refs) /\ again \subseteq worked

\* An input is recorded as consumed only if the item that planned it completed: a
\* deferred or interrupted item leaves its inputs pending ("Consumption is recorded
\* per input and work kind only after that work completes").  Between sessions
\* the record forgets only when it overflows, and no session plans what it
\* remembers.  Training, which works on its plan, is so really done on every input
\* recorded for it, and never twice on one that the record remembers, whatever other
\* kinds of work on the input were done, deferred or lost in which sessions.
WorkRecorded ==
  /\ Range(consumed) \subseteq done
  /\ session.phase = "awake" /\ Cardinality(done) <= RecordSize => done \subseteq Range(consumed)
  /\ session.phase # "awake" =>
       \A k \in Kind : (session.plan[k] \X {k}) \cap Range(consumed) = {}
  /\ \A r \in Refs : /\ <<r, "train">> \in Range(consumed) => <<r, "train">> \in worked
                     /\ <<r, "train">> \notin again

\* On a quiet, powered dock all work on offer completes and the sleeping stops:
\* neither lasting fatigue, nor a request that is held, nor references that stay
\* on offer start session after session.
SettlesAwake == <>settled => <>[](session.phase = "awake" /\ PairsOf(Standing) \subseteq Range(consumed))
================================================================================
