---------------------------- MODULE MotherbrainProofs ----------------------------
(***************************************************************************)
(* The motherbrain's side, for every value of its constants.  A            *)
(* possession's calls keep their types and the attempts their bound, a     *)
(* call moves the body at most once, and after the motor gate has closed   *)
(* no velocity is applied before the brainstem confirmed safety and        *)
(* granted the lease afresh.  The sleep controller keeps its types, and    *)
(* its record of consumed inputs is exact.                                 *)
(***************************************************************************)
EXTENDS MotherbrainPossession, SleepController, TLAPS, SequenceTheorems, FiniteSetTheorems,
        WellFoundedInduction

-----------------------------------------------------------------------------
(* The calls of a possession.                                              *)

Waiting == {"renew", "heartbeat", "send", "wait", "recover", "check", "reacquire"}
Steps == Waiting \cup {"idle", "done", "gone", "panicked"}

CallOK ==
  call \in [op : Ops \cup {"none"}, step : Steps, attempt : 0 .. BusyAttempts - 1,
            retried : BOOLEAN, back : {"heartbeat", "send"}, applied : 0 .. 1]

\* Nothing has been applied before the request of the call is answered, a call
\* that has ended is nobody's, and only a clear goes on to reopen the gate.
CallProgress ==
  /\ call.step \in Waiting => call.applied = 0
  /\ call.step \in {"idle", "gone", "panicked"} => call.op = "none"
  /\ call.step \in {"check", "reacquire"} => call.op = "clear"

\* An open gate has been made good, and a drive is only ever under way behind
\* one; the lease is asked for to reopen the gate once safety is confirmed.
GateProgress ==
  /\ gate = TRUE => recovery = "granted"
  /\ call.op = "drive" => gate = TRUE
  /\ call.step = "reacquire" => recovery # "closed"

PossessionInv ==
  /\ gate \in BOOLEAN /\ lease \in {"current", "stale"} /\ rival \in BOOLEAN
  /\ latched \in {"none", "estop", "safety"} /\ recovery \in {"closed", "confirmed", "granted"}
  /\ CallOK /\ CallProgress /\ GateProgress

-----------------------------------------------------------------------------
\* The first attempt is one of the attempts.
LEMMA FirstAttempt == 0 \in 0 .. BusyAttempts - 1
  BY PossessionAssumption

\* The record a possession without a call keeps is a typed one.
LEMMA NoCallTyped ==
  NoCall \in [op : Ops \cup {"none"}, step : Steps, attempt : 0 .. BusyAttempts - 1,
              retried : BOOLEAN, back : {"heartbeat", "send"}, applied : 0 .. 1]
  BY FirstAttempt DEF NoCall, Steps

\* PossessionInit holds the invariant: acquire ends with the gate open.
LEMMA PossessionInitial == PossessionInit => PossessionInv
<1> SUFFICES ASSUME PossessionInit PROVE PossessionInv
  OBVIOUS
<1>1. CallOK
  BY NoCallTyped DEF PossessionInit, CallOK
<1>2. CallProgress
  BY DEF PossessionInit, CallProgress, NoCall, Waiting
<1>3. GateProgress
  BY DEF PossessionInit, GateProgress, NoCall
<1>4. gate \in BOOLEAN /\ rival \in BOOLEAN
  BY DEF PossessionInit
<1> QED BY <1>1, <1>2, <1>3, <1>4 DEF PossessionInit, PossessionInv

\* A call that returns, or panics, leaves an idle or a dropped possession.
LEMMA ReturnsIdle ==
  ASSUME Returns \/ call' = Panicked
  PROVE  CallOK' /\ CallProgress' /\ call'.op = "none" /\ call'.step # "reacquire"
         /\ call'.applied = 0
<1>1. CASE call' = NoCall
  BY <1>1, NoCallTyped DEF NoCall, CallOK, CallProgress, Waiting
<1>2. CASE call' = Gone
  BY <1>2, NoCallTyped DEF Gone, NoCall, CallOK, CallProgress, Waiting, Steps
<1>3. CASE call' = Panicked
  BY <1>3, NoCallTyped DEF Panicked, NoCall, CallOK, CallProgress, Waiting, Steps
<1> QED BY <1>1, <1>2, <1>3 DEF Returns

\* Closing or keeping the gate keeps what is known of an open one.
LEMMA GateKept ==
  ASSUME PossessionInv, SetsGate(FALSE) \/ KeepsGate
  PROVE  /\ gate' \in BOOLEAN /\ recovery' \in {"closed", "confirmed", "granted"}
         /\ gate' = TRUE => recovery' = "granted"
  BY DEF PossessionInv, GateProgress, SetsGate, KeepsGate

\* A call goes on to another exchange with its attempts counted anew.
LEMMA Entered ==
  ASSUME PossessionInv, NEW s \in Waiting, call.step \in Waiting, call' = Enter(s),
         s \in {"check", "reacquire"} => call.op = "clear"
  PROVE  CallOK' /\ CallProgress' /\ call'.op = call.op /\ call'.step = s
<1>1. CallOK
  BY DEF PossessionInv
<1>2. CallOK'
  BY <1>1, FirstAttempt DEF Enter, CallOK, Steps
<1>3. call'.op = call.op /\ call'.step = s /\ call'.applied = call.applied
  BY <1>1 DEF Enter, CallOK
<1>4. CallProgress'
  BY <1>3 DEF PossessionInv, CallProgress, Waiting
<1> QED BY <1>2, <1>3, <1>4

\* The brainstem's answer to a request for the lease keeps its own state typed.
LEMMA LeaseTyped ==
  ASSUME PossessionInv, NEW G, NEW R, AcquireLease(G, R)
  PROVE  /\ lease' \in {"current", "stale"} /\ rival' \in BOOLEAN
         /\ latched' \in {"none", "estop", "safety"}
         /\ G \/ R
  BY DEF PossessionInv, AcquireLease

\* Every step of a call keeps the invariant.
LEMMA CallStepKeeps ==
  ASSUME PossessionInv, CallStep
  PROVE  PossessionInv'
<1> USE DEF Waiting, Steps
<1>0. CallOK
  BY DEF PossessionInv
<1>a. ASSUME AttemptAfter(call.attempt) < BusyAttempts
      PROVE  AttemptAfter(call.attempt) \in 0 .. BusyAttempts - 1
  BY <1>0, <1>a, PossessionAssumption DEF AttemptAfter, CallOK
<1>1. CASE Renew
  <2>1. CASE Recovered /\ gate' = gate /\ call' = Enter(FirstSend(call.op))
    <3>1. CallOK' /\ CallProgress' /\ call'.op = call.op /\ call'.step \in {"heartbeat", "send"}
      BY <1>1, <2>1, Entered DEF Renew, FirstSend
    <3> QED BY <1>1, <2>1, <3>1, LeaseTyped DEF Renew, Recovered, PossessionInv, GateProgress
  <2>2. CASE SetsGate(FALSE) /\ Returns
    BY <1>1, <2>2, LeaseTyped, ReturnsIdle, GateKept
    DEF Renew, AcquireLease, PossessionInv, GateProgress
  <2> QED BY <1>1, <2>1, <2>2, LeaseTyped DEF Renew, AcquireLease
<1>2. CASE RenewForRetry
  <2>1. CASE Recovered /\ gate' = gate /\ AttemptAfter(call.attempt) < BusyAttempts
             /\ call' = [call EXCEPT !.step = call.back, !.retried = TRUE,
                                     !.attempt = AttemptAfter(@)]
    <3>1. CallOK'
      BY <1>0, <1>a, <2>1 DEF CallOK
    <3>2. call'.op = call.op /\ call'.step \in {"heartbeat", "send"} /\ call'.applied = call.applied
      BY <2>1 DEF PossessionInv, CallOK
    <3>3. CallProgress'
      BY <1>2, <3>2 DEF RenewForRetry, PossessionInv, CallProgress
    <3> QED BY <1>2, <2>1, <3>1, <3>2, <3>3
            DEF RenewForRetry, AcquireLease, Recovered, PossessionInv, GateProgress
  <2>2. CASE Recovered /\ gate' = gate /\ call' = Panicked
    BY <1>2, <2>2, ReturnsIdle
    DEF RenewForRetry, AcquireLease, Recovered, PossessionInv, GateProgress
  <2>3. CASE SetsGate(FALSE) /\ Returns
    BY <1>2, <2>3, ReturnsIdle, GateKept
    DEF RenewForRetry, AcquireLease, PossessionInv, GateProgress
  <2> QED BY <1>2, <2>1, <2>2, <2>3 DEF RenewForRetry, AcquireLease
<1>3. CASE Exchange
  <2> SUFFICES ASSUME call.step \in {"heartbeat", "send"} PROVE PossessionInv'
    BY <1>3 DEF Exchange
  <2>0. ASSUME Fails, UNCHANGED <<lease, rival>>, latched' \in {"none", "estop", "safety"}
        PROVE  PossessionInv'
    BY <2>0, ReturnsIdle, GateKept DEF Fails, PossessionInv, GateProgress
  <2>1. CASE Accepted
    <3>1. /\ latched' \in {"none", "estop", "safety"} /\ UNCHANGED <<lease, rival>>
      BY <2>1 DEF Accepted, Applies, PossessionInv
    <3>2. CASE call.step = "heartbeat" /\ call' = Enter("send") /\ KeepsGate
      BY <3>1, <3>2, Entered DEF KeepsGate, PossessionInv, GateProgress
    <3>3. CASE call.step = "send" /\ call.op = "clear" /\ call' = Enter("check") /\ KeepsGate
      BY <3>1, <3>3, Entered DEF KeepsGate, PossessionInv, GateProgress
    <3>4. CASE call.step = "send" /\ call.op = "status" /\ Returns
               /\ IF latched = "estop" THEN SetsGate(FALSE)
                  ELSE /\ gate' = gate
                       /\ recovery' = IF recovery = "closed" /\ latched = "none" THEN "confirmed"
                                      ELSE recovery
      BY <3>1, <3>4, ReturnsIdle, GateKept DEF PossessionInv, GateProgress
    <3>5. CASE /\ call.step = "send" /\ call.op \notin {"clear", "status"}
               /\ IF Moves(Request) THEN call' = [Counted(call) EXCEPT !.step = "done"] ELSE Returns
               /\ IF call.op = "exorcize" THEN SetsGate(FALSE) ELSE KeepsGate
      <4>1. CASE ~Moves(Request)
        BY <3>1, <3>5, <4>1, ReturnsIdle, GateKept DEF PossessionInv, GateProgress
      <4>2. CASE Moves(Request)
        <5>1. call.op # "exorcize"
          BY <3>5, <4>2 DEF Moves, Request
        <5>2. call.applied = 0
          BY DEF PossessionInv, CallProgress
        <5>3. call' = [[call EXCEPT !.applied = 1] EXCEPT !.step = "done"]
          BY <3>5, <4>2, <5>2 DEF Counted
        <5>4. call' = [op |-> call.op, step |-> "done", attempt |-> call.attempt,
                       retried |-> call.retried, back |-> call.back, applied |-> 1]
          BY <1>0, <5>3 DEF CallOK
        <5>5. call' \in [op : Ops \cup {"none"}, step : Steps, attempt : 0 .. BusyAttempts - 1,
                         retried : BOOLEAN, back : {"heartbeat", "send"}, applied : 0 .. 1]
          BY <1>0, <5>4 DEF CallOK
        <5>6. call'.op = call.op /\ call'.step = "done"
          BY <1>0, <5>3 DEF CallOK
        <5>7. CallProgress'
          BY <5>6 DEF CallProgress
        <5>8. KeepsGate
          BY <3>5, <5>1
        <5>9. GateProgress'
          BY <5>6, <5>8 DEF KeepsGate, PossessionInv, GateProgress
        <5> QED BY <3>1, <5>5, <5>7, <5>8, <5>9 DEF PossessionInv, CallOK, KeepsGate
      <4> QED BY <4>1, <4>2
    <3> QED BY <2>1, <3>2, <3>3, <3>4, <3>5 DEF Accepted
  <2>2. CASE Busy
    <3>1. CASE BusyAgain(call.attempt) /\ KeepsGate
               /\ call' = [call EXCEPT !.step = "wait", !.back = call.step,
                                       !.attempt = AttemptAfter(@)]
      <4>1. CallOK'
        BY <1>0, <1>a, <3>1 DEF BusyAgain, CallOK
      <4>2. call'.op = call.op /\ call'.step = "wait" /\ call'.applied = call.applied
        BY <3>1 DEF PossessionInv, CallOK
      <4> QED BY <2>2, <3>1, <4>1, <4>2
              DEF Busy, KeepsGate, PossessionInv, CallProgress, GateProgress
    <3> QED BY <2>0, <2>2, <3>1 DEF Busy, PossessionInv
  <2>3. CASE LeaseRejected
    <3>1. CASE KeepsGate /\ call' = [call EXCEPT !.step = "recover", !.back = call.step]
      BY <2>3, <3>1
      DEF LeaseRejected, KeepsGate, PossessionInv, CallOK, CallProgress, GateProgress
    <3> QED BY <2>0, <2>3, <3>1 DEF LeaseRejected, PossessionInv
  <2>4. CASE Refused
    BY <2>0, <2>4 DEF Refused, PossessionInv
  <2>5. CASE Lost
    BY <2>0, <2>5 DEF Lost, WithoutAnswer, Applies, PossessionInv
  <2> QED BY <1>3, <2>1, <2>2, <2>3, <2>4, <2>5 DEF Exchange
<1>4. CASE Wait
  BY <1>4 DEF Wait, PossessionInv, CallOK, CallProgress, GateProgress
<1>5. CASE Done
  BY <1>5, ReturnsIdle DEF Done, PossessionInv, GateProgress
<1>6. CASE CheckSafety
  <2>1. CASE Returns /\ KeepsGate
    BY <1>6, <2>1, ReturnsIdle, GateKept DEF CheckSafety, PossessionInv, GateProgress
  <2>2. CASE SafetyClear(latched) /\ call' = Enter("reacquire") /\ gate' = gate
             /\ recovery' = IF recovery = "closed" /\ latched = "none" THEN "confirmed" ELSE recovery
    <3>1. CallOK' /\ CallProgress' /\ call'.op = "clear" /\ call'.step = "reacquire"
      BY <1>6, <2>2, Entered DEF CheckSafety, PossessionInv, CallProgress
    <3> QED BY <1>6, <2>2, <3>1 DEF CheckSafety, SafetyClear, PossessionInv, GateProgress
  <2> QED BY <1>6, <2>1, <2>2 DEF CheckSafety
<1>7. CASE Reopen
  <2>1. CASE Returns /\ gate' = TRUE /\ Recovered
    BY <1>7, <2>1, ReturnsIdle DEF Reopen, AcquireLease, Recovered, PossessionInv, GateProgress
  <2>2. CASE SetsGate(FALSE) /\ Returns
    BY <1>7, <2>2, ReturnsIdle, GateKept DEF Reopen, AcquireLease, PossessionInv, GateProgress
  <2> QED BY <1>7, <2>1, <2>2 DEF Reopen, AcquireLease
<1> QED BY <1>1, <1>2, <1>3, <1>4, <1>5, <1>6, <1>7 DEF CallStep

\* The invariant is inductive: calls begin behind the gate, and what happens at
\* the brainstem meanwhile touches neither the call nor the gate.
LEMMA PossessionStep == PossessionInv /\ [PossessionNext]_possessionVars => PossessionInv'
<1> SUFFICES ASSUME PossessionInv, [PossessionNext]_possessionVars PROVE PossessionInv'
  OBVIOUS
<1>1. ASSUME NEW op \in Ops, Begin(op) PROVE PossessionInv'
  <2>1. PICK s \in {"renew", "heartbeat", "send"} : call' = [NoCall EXCEPT !.op = op, !.step = s]
    BY <1>1 DEF Begin, FirstSend
  <2>2. CallOK' /\ call'.op = op /\ call'.step = s /\ call'.applied = 0
    BY <2>1, NoCallTyped DEF NoCall, CallOK, Steps, Waiting
  <2>3. op = "drive" => gate = TRUE
    BY <1>1 DEF Begin, Bypasses, PossessionInv
  <2> QED BY <1>1, <2>2, <2>3 DEF Begin, PossessionInv, CallProgress, GateProgress
<1>2. CASE CallStep
  BY <1>2, CallStepKeeps
<1>3. CASE LeaseEnds \/ RivalLeaves \/ Trips \/ UNCHANGED possessionVars
  BY <1>3 DEF LeaseEnds, RivalLeaves, Trips, possessionVars, PossessionInv, CallOK, CallProgress,
              GateProgress
<1> QED BY <1>1, <1>2, <1>3 DEF PossessionNext

\* The invariant holds in every reachable state.
LEMMA PossessionInvariant == PossessionSpec => []PossessionInv
  BY PossessionInitial, PossessionStep, PTL DEF PossessionSpec

-----------------------------------------------------------------------------
\* What the invariant says of the types of the possession's state.
LEMMA PossessionTyped == PossessionInv => PossessionTypeOK
BY DEF PossessionInv, CallOK, PossessionTypeOK, Steps, Waiting

\* The possession keeps its types, and no call counts past its last attempt.
THEOREM PossessionTypeCorrect == PossessionSpec => []PossessionTypeOK
  BY PossessionTyped, PossessionInvariant, PTL

\* However the brainstem answers, a call moves the body at most once.
THEOREM AppliedAtMostOnce == PossessionSpec => []AppliedOnce
<1>1. PossessionInv => AppliedOnce
  BY DEF PossessionInv, CallOK, AppliedOnce
<1> QED BY <1>1, PossessionInvariant, PTL

\* A velocity reaches the wheels only once the last closing of the motor gate
\* was made good: safety confirmed, then the lease granted.
THEOREM RecoveryBeforeDriving == PossessionSpec => DrivesAfterRecovery
<1>1. PossessionInv /\ [PossessionNext]_possessionVars
        => [call.op = "drive" /\ call'.applied > call.applied => recovery = "granted"]_possessionVars
  BY DEF PossessionInv, GateProgress
<1> QED BY <1>1, PossessionInvariant, PTL DEF PossessionSpec, DrivesAfterRecovery

-----------------------------------------------------------------------------
(* The sleep of the runtime.                                               *)

\* The kinds of work a phase, or a later one, is still to execute.
Ahead(phase) ==
  CASE phase \in {"awake", "preparing", "quiescent", "consolidating"} -> Kind
    [] phase = "training" -> {"train", "evaluate"}
    [] phase = "evaluating" -> {"evaluate"}
    [] OTHER -> {}

\* The inputs of the session's completed items, each with its kind of work.
CompletedPairs == UNION {session.plan[k] \X {k} : k \in {w \in Kind : session.status[w] = "completed"}}

\* The session: what lies ahead has not been touched, and an item works on
\* inputs that its kind of work takes and the record does not hold.
SessionOK ==
  /\ session \in [phase : {"preparing", "quiescent", "consolidating", "training", "evaluating",
                           "finalizing", "waking", "awake", "interrupted"},
                  onPower : BOOLEAN, plan : [Kind -> SUBSET Refs],
                  status : [Kind -> {"pending", "completed", "deferred"}]]
  /\ \A k \in Kind : session.plan[k] \X {k} \subseteq PairsOf(Refs)
  /\ \A k \in Ahead(session.phase) : session.status[k] = "pending"
  /\ session.phase # "awake" =>
       \A k \in Kind : (session.plan[k] \X {k}) \cap Range(consumed) = {}

RecordOK(record) == record \in Seq(PairsOf(Refs)) /\ Len(record) <= RecordSize /\ IsInjective(record)

\* What was planned and done is in the record or about to be, unless it no longer fits.
WorkOK ==
  /\ done \subseteq PairsOf(Refs)
  /\ Range(consumed) \subseteq done /\ CompletedPairs \subseteq done
  /\ Cardinality(done) <= RecordSize => done \subseteq Range(consumed) \cup CompletedPairs

\* Training was done on what was planned for it, and on nothing the record held.
TrainedOK ==
  /\ worked \subseteq PairsOf(Refs) /\ again \subseteq worked
  /\ \A r \in Refs : /\ <<r, "train">> \in done => <<r, "train">> \in worked
                     /\ <<r, "train">> \notin again

SleepInv == /\ SessionOK /\ RecordOK(consumed) /\ WorkOK /\ TrainedOK
            /\ armed \in BOOLEAN /\ requestHeld \in BOOLEAN /\ settled \in BOOLEAN

-----------------------------------------------------------------------------
(* The record of consumed inputs.                                          *)

\* A set of numbers has a least one: the form of induction used below.
LEMMA LeastNumber ==
  ASSUME NEW S \in SUBSET Nat, S # {}
  PROVE  \E x \in S : \A y \in S : x <= y
<1> DEFINE R == OpToRel(<, Nat)
<1>1. IsWellFoundedOn(R, Nat)
  BY NatLessThanWellFounded
<1> HIDE DEF R
<1>2. PICK x \in S : \A y \in S : ~(<<y, x>> \in R)
  BY <1>1, WFMin
<1>3. \A y \in S : x <= y
  <2> SUFFICES ASSUME NEW y \in S PROVE x <= y
    OBVIOUS
  <2>1. ~(<<y, x>> \in R)
    BY <1>2
  <2> QED BY <2>1 DEF R, OpToRel
<1> QED BY <1>3

\* A finite set is listed by SetToSeq.
LEMMA Listed ==
  ASSUME NEW S, IsFiniteSet(S)
  PROVE  SetToSeq(S) \in Seq(S) /\ Range(SetToSeq(S)) = S
<1> DEFINE n == Cardinality(S)
           s == SetToSeq(S)
<1>1. n \in Nat /\ \E f \in [1..n -> S] : IsInjective(f)
  BY FS_CardinalityType DEF ExistsBijection, Bijection, Injection
<1>2. s \in [1..n -> S] /\ IsInjective(s)
  BY <1>1 DEF SetToSeq
<1>3. s \in Injection(1..n, S)
  BY <1>2 DEF Injection
<1>4. Cardinality(1..n) = n
  BY <1>1, FS_Interval
<1> HIDE DEF n, s
<1>5. s \in Surjection(1..n, S)
  BY <1>3, <1>4, FS_Injection DEF n
<1>6. Range(s) = S
  BY <1>2, <1>5 DEF Surjection, Range
<1>7. s \in Seq(S)
  BY <1>1, <1>2
<1> QED BY <1>6, <1>7 DEF s

\* A record without repetitions is shorter than a set that holds one pair more.
LEMMA RoomFor ==
  ASSUME NEW T, IsFiniteSet(T), NEW record \in Seq(T), IsInjective(record), NEW pair \in T,
         pair \notin Range(record)
  PROVE  Len(record) < Cardinality(T)
<1> DEFINE n == Len(record)
<1>1. n \in Nat /\ record \in [1..n -> T]
  OBVIOUS
<1>2. record \in [1..n -> T \ {pair}]
  BY <1>1 DEF Range
<1>3. record \in Injection(1..n, T \ {pair})
  BY <1>2 DEF Injection
<1>4. /\ IsFiniteSet(T \ {pair}) /\ Cardinality(T \ {pair}) = Cardinality(T) - 1
      /\ Cardinality(T) \in Nat
  BY FS_RemoveElement, FS_CardinalityType
<1>5. Cardinality(1..n) = n
  BY <1>1, FS_Interval
<1>6. n <= Cardinality(T) - 1
  <2> HIDE DEF n
  <2>1. Cardinality(1..n) <= Cardinality(T \ {pair})
    BY <1>3, <1>4, FS_Injection
  <2> QED BY <2>1, <1>4, <1>5
<1> QED BY <1>1, <1>4, <1>6

\* A pair that is marked is taken up behind the others, and only a full record
\* forgets its oldest.
LEMMA MarkEffect ==
  ASSUME NEW record, RecordOK(record), NEW pair \in PairsOf(Refs)
  PROVE  /\ RecordOK(MarkConsumed(record, pair))
         /\ Range(MarkConsumed(record, pair)) \subseteq Range(record) \cup {pair}
         /\ pair \in Range(record) \/ Len(record) < RecordSize =>
              Range(MarkConsumed(record, pair)) = Range(record) \cup {pair}
<1> DEFINE m == MarkConsumed(record, pair)
           long == Append(record, pair)
           P == PairsOf(Refs)
<1>0. record \in Seq(P) /\ Len(record) \in Nat /\ RecordSize \in Nat /\ Len(record) <= RecordSize
  BY SleepAssumption DEF RecordOK
<1>1. CASE pair \in Range(record)
  BY <1>1 DEF MarkConsumed
<1>2. CASE pair \notin Range(record)
  <2>1. long \in Seq(P) /\ Len(long) = Len(record) + 1
    BY <1>0
  <2>2. \A i \in 1..Len(long) : long[i] = IF i = Len(long) THEN pair ELSE record[i]
    BY <1>0
  <2>3. DOMAIN long = 1..Len(long) /\ DOMAIN record = 1..Len(record)
    BY <2>1, <1>0
  <2>4. Range(long) = Range(record) \cup {pair}
    <3>1. Range(long) \subseteq Range(record) \cup {pair}
      BY <2>1, <2>2, <2>3, <1>0 DEF Range
    <3>2. pair \in Range(long)
      BY <2>1, <2>2, <2>3, <1>0 DEF Range
    <3>3. Range(record) \subseteq Range(long)
      <4> SUFFICES ASSUME NEW i \in 1..Len(record) PROVE record[i] \in Range(long)
        BY <2>3 DEF Range
      <4>1. i \in 1..Len(long) /\ long[i] = record[i]
        BY <2>1, <2>2, <1>0
      <4> QED BY <4>1, <2>3 DEF Range
    <3> QED BY <3>1, <3>2, <3>3
  <2>5. IsInjective(long)
    <3> SUFFICES ASSUME NEW a \in 1..Len(long), NEW b \in 1..Len(long), long[a] = long[b]
                 PROVE  a = b
      BY <2>3 DEF IsInjective
    <3>1. \A i \in 1..Len(record) : record[i] # pair
      BY <1>2, <2>3 DEF Range
    <3>2. CASE a = Len(long) \/ b = Len(long)
      BY <3>1, <3>2, <2>1, <2>2, <1>0
    <3>3. CASE a # Len(long) /\ b # Len(long)
      <4>1. a \in 1..Len(record) /\ b \in 1..Len(record) /\ record[a] = record[b]
        BY <3>3, <2>1, <2>2, <1>0
      <4> QED BY <4>1, <2>3 DEF RecordOK, IsInjective
    <3> QED BY <3>2, <3>3
  <2>6. CASE Len(record) < RecordSize
    <3>1. m = long
      BY <1>2, <2>6 DEF MarkConsumed
    <3>2. RecordOK(long)
      BY <2>1, <2>5, <2>6, <1>0 DEF RecordOK
    <3> HIDE DEF long, m
    <3> QED BY <3>1, <3>2, <2>4 DEF m
  <2>7. CASE ~(Len(record) < RecordSize)
    <3>1. m = Tail(long)
      BY <1>2, <2>7 DEF MarkConsumed
    <3>2. /\ Tail(long) \in Seq(P) /\ Len(Tail(long)) = Len(record)
          /\ \A i \in 1..Len(record) : Tail(long)[i] = long[i + 1]
      <4> HIDE DEF long
      <4> QED BY <2>1, <1>0
    <3>3. DOMAIN Tail(long) = 1..Len(record)
      BY <3>2
    <3>4. Range(Tail(long)) \subseteq Range(long)
      <4> HIDE DEF long
      <4> QED BY <3>2, <3>3, <2>1, <2>3, <1>0 DEF Range
    <3>5. IsInjective(Tail(long))
      <4> SUFFICES ASSUME NEW a \in 1..Len(record), NEW b \in 1..Len(record),
                          Tail(long)[a] = Tail(long)[b]
                   PROVE  a = b
        BY <3>3 DEF IsInjective
      <4> HIDE DEF long
      <4>1. a + 1 \in DOMAIN long /\ b + 1 \in DOMAIN long /\ long[a + 1] = long[b + 1]
        BY <3>2, <2>1, <2>3, <1>0
      <4>2. a + 1 = b + 1
        BY <4>1, <2>5 DEF IsInjective
      <4> QED BY <4>2
    <3>6. RecordOK(Tail(long))
      BY <3>2, <3>5, <1>0 DEF RecordOK
    <3> HIDE DEF long, m
    <3> QED BY <3>1, <3>4, <3>6, <2>4, <2>7, <1>2 DEF m
  <2> QED BY <2>6, <2>7
<1> QED BY <1>1, <1>2

\* The records along the way, for the first n pairs.
MarkedUpTo(record, pairs, n, f) ==
  f = [i \in 0..n |-> IF i = 0 THEN record ELSE MarkConsumed(f[i - 1], pairs[i])]

LEMMA MarkedExists ==
  ASSUME NEW record, NEW pairs, NEW m \in Nat
  PROVE  \E f : MarkedUpTo(record, pairs, m, f)
<1> DEFINE Bad == {n \in Nat : ~\E f : MarkedUpTo(record, pairs, n, f)}
<1>1. SUFFICES ASSUME Bad # {} PROVE FALSE
  OBVIOUS
<1>2. PICK x \in Bad : \A y \in Bad : x <= y
  BY <1>1, LeastNumber
<1>3. x # 0
  <2>1. MarkedUpTo(record, pairs, 0, [i \in 0..0 |-> record])
    BY DEF MarkedUpTo
  <2> QED BY <1>2, <2>1
<1>4. x - 1 \in Nat /\ x - 1 < x
  BY <1>2, <1>3
<1>5. PICK f : MarkedUpTo(record, pairs, x - 1, f)
  BY <1>2, <1>4
<1> DEFINE g == [i \in 0..x |-> IF i = x THEN MarkConsumed(f[i - 1], pairs[i]) ELSE f[i]]
<1>6. ASSUME NEW i \in 0..x
      PROVE  g[i] = IF i = 0 THEN record ELSE MarkConsumed(g[i - 1], pairs[i])
  <2>1. CASE i = x
    <3>1. i - 1 \in 0..x /\ i - 1 # x /\ i # 0
      BY <2>1, <1>2, <1>3, <1>4
    <3>2. g[i - 1] = f[i - 1]
      BY <3>1
    <3> QED BY <3>1, <3>2, <2>1
  <2>2. CASE i = 0
    BY <2>2, <1>3, <1>4, <1>5 DEF MarkedUpTo
  <2>3. CASE i # x /\ i # 0
    <3>1. i - 1 \in 0..x /\ i - 1 # x /\ i \in 0..(x - 1)
      BY <2>3, <1>2, <1>3, <1>4
    <3>2. g[i - 1] = f[i - 1] /\ g[i] = f[i]
      BY <3>1, <2>3
    <3>3. f[i] = IF i = 0 THEN record ELSE MarkConsumed(f[i - 1], pairs[i])
      BY ONLY <3>1, <1>5 DEF MarkedUpTo
    <3> QED BY <3>2, <3>3
  <2> QED BY <2>1, <2>2, <2>3
<1>7. MarkedUpTo(record, pairs, x, g)
  <2>1. g = [i \in 0..x |-> g[i]]
    OBVIOUS
  <2> HIDE DEF g
  <2> QED BY <1>6, <2>1 DEF MarkedUpTo
<1> QED BY <1>7, <1>2

\* Recorded is the last of the records along the way.
LEMMA RecordedMarks ==
  ASSUME NEW record, NEW pairs, Len(pairs) \in Nat
  PROVE  \E f : MarkedUpTo(record, pairs, Len(pairs), f) /\ Recorded(record, pairs) = f[Len(pairs)]
<1> DEFINE K[n \in 0..Len(pairs)] ==
             IF n = 0 THEN record ELSE MarkConsumed(K[n - 1], pairs[n])
<1>1. Recorded(record, pairs) = K[Len(pairs)]
  BY DEF Recorded
<1>2. \E f : f = [n \in 0..Len(pairs) |->
                    IF n = 0 THEN record ELSE MarkConsumed(f[n - 1], pairs[n])]
  <2>1. PICK f : MarkedUpTo(record, pairs, Len(pairs), f)
    BY MarkedExists
  <2> QED BY <2>1 DEF MarkedUpTo
<1>3. K = [n \in 0..Len(pairs) |->
             IF n = 0 THEN record ELSE MarkConsumed(K[n - 1], pairs[n])]
  BY <1>2, Zenon
<1> HIDE DEF K
<1>4. MarkedUpTo(record, pairs, Len(pairs), K)
  BY <1>3 DEF MarkedUpTo
<1> QED BY <1>1, <1>4

\* The record after a list of pairs holds nothing else than what it held and
\* the pairs, and when these together fit it has lost none of them.
LEMMA RecordedEffect ==
  ASSUME NEW record, RecordOK(record), NEW pairs \in Seq(PairsOf(Refs)),
         NEW T, IsFiniteSet(T), Range(record) \cup Range(pairs) \subseteq T
  PROVE  /\ RecordOK(Recorded(record, pairs))
         /\ Range(Recorded(record, pairs)) \subseteq Range(record) \cup Range(pairs)
         /\ Cardinality(T) <= RecordSize =>
              Range(record) \cup Range(pairs) \subseteq Range(Recorded(record, pairs))
<1>1. PICK f : MarkedUpTo(record, pairs, Len(pairs), f) /\ Recorded(record, pairs) = f[Len(pairs)]
  BY RecordedMarks
<1>2. Len(pairs) \in Nat /\ DOMAIN pairs = 1..Len(pairs)
  OBVIOUS
<1>3. Cardinality(T) \in Nat /\ RecordSize \in Nat
  BY FS_CardinalityType, SleepAssumption
<1> DEFINE Kept(n) == /\ Range(record) \subseteq Range(f[n])
                      /\ \A i \in 1..n : pairs[i] \in Range(f[n])
           Good(n) == /\ RecordOK(f[n])
                      /\ Range(f[n]) \subseteq Range(record) \cup Range(pairs)
                      /\ Cardinality(T) <= RecordSize => Kept(n)
           Bad == {n \in 0..Len(pairs) : ~Good(n)}
<1>4. SUFFICES Bad = {}
  <2>1. Good(Len(pairs))
    BY <1>2
  <2>2. Kept(Len(pairs)) => Range(pairs) \subseteq Range(f[Len(pairs)])
    BY <1>2 DEF Range
  <2> HIDE DEF Kept
  <2>3. Kept(Len(pairs)) => Range(record) \subseteq Range(f[Len(pairs)])
    BY DEF Kept
  <2> QED BY <2>1, <2>2, <2>3, <1>1
<1>5. SUFFICES ASSUME Bad # {} PROVE FALSE
  OBVIOUS
<1>6. PICK x \in Bad : \A y \in Bad : x <= y
  <2>1. Bad \in SUBSET Nat
    OBVIOUS
  <2> HIDE DEF Bad
  <2> QED BY <2>1, <1>5, LeastNumber
<1>7. x # 0
  <2>1. f[0] = record
    BY <1>1, <1>2 DEF MarkedUpTo
  <2>2. Good(0)
    BY <2>1
  <2> QED BY <2>2, <1>6
<1>8. x \in Nat /\ x - 1 \in 0..Len(pairs) /\ x - 1 < x /\ x \in 1..Len(pairs)
  BY <1>6, <1>7, <1>2
<1>9. Good(x - 1)
  BY <1>6, <1>8
<1>10. f[x] = MarkConsumed(f[x - 1], pairs[x])
  BY <1>1, <1>2, <1>8 DEF MarkedUpTo
<1> DEFINE r == f[x - 1]
           p == pairs[x]
<1>11. p \in PairsOf(Refs) /\ p \in Range(pairs) /\ p \in T
  BY <1>8, <1>2 DEF Range
<1>12. /\ RecordOK(f[x]) /\ Range(f[x]) \subseteq Range(r) \cup {p}
       /\ p \in Range(r) \/ Len(r) < RecordSize => Range(f[x]) = Range(r) \cup {p}
  <2>1. RecordOK(r)
    BY <1>9
  <2> HIDE DEF r, p, Good, Kept
  <2>2. f[x] = MarkConsumed(r, p)
    BY <1>10 DEF r, p
  <2> QED BY <2>1, <2>2, <1>11, MarkEffect
<1>13. ASSUME Cardinality(T) <= RecordSize PROVE Kept(x)
  <2>1. Kept(x - 1)
    BY <1>9, <1>13
  <2>2. Range(r) \subseteq T /\ RecordOK(r)
    BY <1>9
  <2> HIDE DEF Good
  <2>3. p \in Range(r) \/ Len(r) < RecordSize
    <3> SUFFICES ASSUME p \notin Range(r) PROVE Len(r) < RecordSize
      OBVIOUS
    <3> HIDE DEF r, p, Kept
    <3>1. r \in Seq(PairsOf(Refs)) /\ IsInjective(r)
      BY <2>2 DEF RecordOK
    <3>2. r \in Seq(T)
      BY <3>1, <2>2 DEF Range
    <3>3. Len(r) < Cardinality(T)
      BY <3>1, <3>2, <1>11, RoomFor
    <3>4. Len(r) \in Nat
      BY <3>2
    <3> QED BY <3>3, <3>4, <1>3, <1>13
  <2>4. Range(f[x]) = Range(r) \cup {p}
    BY <2>3, <1>12
  <2>5. Range(record) \subseteq Range(f[x])
    BY <2>1, <2>4
  <2>6. ASSUME NEW i \in 1..x PROVE pairs[i] \in Range(f[x])
    <3>1. CASE i = x
      BY <3>1, <2>4
    <3>2. CASE i # x
      <4>1. i \in 1..(x - 1)
        BY <3>2, <1>8
      <4> QED BY <4>1, <2>1, <2>4
    <3> QED BY <3>1, <3>2
  <2> QED BY <2>5, <2>6
<1>14. Good(x)
  <2>1. Range(f[x]) \subseteq Range(record) \cup Range(pairs)
    BY <1>9, <1>11, <1>12
  <2> QED BY <2>1, <1>12, <1>13
<1> HIDE DEF Good
<1> QED BY <1>14, <1>6

-----------------------------------------------------------------------------
(* The steps of the controller.                                            *)

\* The references are finite, and so is every set of inputs of a kind of work.
LEMMA PairsFinite == IsFiniteSet(PairsOf(Refs)) /\ IsFiniteSet(Kind)
<1>1. IsFiniteSet(Kind)
  <2>1. IsFiniteSet({"flush"}) /\ IsFiniteSet({"consolidate"}) /\ IsFiniteSet({"replay"})
        /\ IsFiniteSet({"train"}) /\ IsFiniteSet({"evaluate"})
    BY FS_Singleton
  <2>2. Kind = {"flush"} \cup {"consolidate"} \cup {"replay"} \cup {"train"} \cup {"evaluate"}
    BY DEF Kind
  <2> QED BY <2>1, <2>2, FS_Union
<1>2. IsFiniteSet(Refs \X Kind)
  BY <1>1, FS_Product, SleepAssumption
<1>3. PairsOf(Refs) \subseteq Refs \X Kind
  BY DEF PairsOf, UsedBy, Kind
<1> QED BY <1>1, <1>2, <1>3, FS_Subset

\* A session over, or not begun, has everything ahead.
LEMMA NoSessionOK ==
  /\ NoSession \in [phase : {"preparing", "quiescent", "consolidating", "training", "evaluating",
                             "finalizing", "waking", "awake", "interrupted"},
                    onPower : BOOLEAN, plan : [Kind -> SUBSET Refs],
                    status : [Kind -> {"pending", "completed", "deferred"}]]
  /\ NoSession.phase = "awake"
  /\ \A k \in Kind : NoSession.plan[k] = {} /\ NoSession.status[k] = "pending"
BY DEF NoSession

\* SleepInit holds the invariant.
LEMMA SleepInitial == SleepInit => SleepInv
<1> SUFFICES ASSUME SleepInit PROVE SleepInv
  OBVIOUS
<1>1. session = NoSession /\ consumed = <<>> /\ done = {} /\ worked = {} /\ again = {}
  BY DEF SleepInit
<1>2. Range(consumed) = {}
  BY <1>1 DEF Range
<1>3. CompletedPairs = {}
  BY <1>1, NoSessionOK DEF CompletedPairs
<1>4. SessionOK
  BY <1>1, NoSessionOK DEF SessionOK, Ahead
<1>5. RecordOK(consumed)
  BY <1>1, SleepAssumption DEF RecordOK, IsInjective
<1> QED BY <1>1, <1>2, <1>3, <1>4, <1>5 DEF SleepInit, SleepInv, WorkOK, TrainedOK

\* The kinds of work, and what an item of them does to the status of the others.
LEMMA Executed ==
  ASSUME NEW status \in [Kind -> {"pending", "completed", "deferred"}], NEW kind \in Kind, NEW in
  PROVE  /\ Execute(status, kind, in) \in [Kind -> {"pending", "completed", "deferred"}]
         /\ \A k \in Kind \ {kind} : Execute(status, kind, in)[k] = status[k]
BY DEF Execute

\* A phase executes its own kinds of work and no other.
LEMMA PhaseExecuted ==
  ASSUME NEW status \in [Kind -> {"pending", "completed", "deferred"}], NEW phase, NEW in
  PROVE  /\ ExecutePhase(phase, status, in) \in [Kind -> {"pending", "completed", "deferred"}]
         /\ \A k \in Kind \ WorkOf(phase) : ExecutePhase(phase, status, in)[k] = status[k]
         /\ WorkOf(phase) \subseteq Kind
<1>0. /\ "flush" \in Kind /\ "consolidate" \in Kind /\ "replay" \in Kind /\ "train" \in Kind
      /\ "evaluate" \in Kind
  BY DEF Kind
<1>1. CASE phase = "consolidating"
  <2> DEFINE a == Execute(status, "flush", in)
             b == Execute(a, "consolidate", in)
             c == Execute(b, "replay", in)
  <2>1. /\ a \in [Kind -> {"pending", "completed", "deferred"}]
        /\ \A k \in Kind \ {"flush"} : a[k] = status[k]
    BY <1>0, Executed
  <2> HIDE DEF a
  <2>2. /\ b \in [Kind -> {"pending", "completed", "deferred"}]
        /\ \A k \in Kind \ {"consolidate"} : b[k] = a[k]
    BY <2>1, <1>0, Executed
  <2> HIDE DEF b
  <2>3. /\ c \in [Kind -> {"pending", "completed", "deferred"}]
        /\ \A k \in Kind \ {"replay"} : c[k] = b[k]
    BY <2>2, <1>0, Executed
  <2> HIDE DEF c
  <2>4. ExecutePhase(phase, status, in) = c /\ WorkOf(phase) = {"flush", "consolidate", "replay"}
    BY <1>1 DEF ExecutePhase, WorkOf, a, b, c
  <2> QED BY <2>1, <2>2, <2>3, <2>4, <1>0
<1>2. CASE phase = "training"
  BY <1>0, <1>2, Executed DEF ExecutePhase, WorkOf
<1>3. CASE phase = "evaluating"
  BY <1>0, <1>3, Executed DEF ExecutePhase, WorkOf
<1>4. CASE phase \notin {"consolidating", "training", "evaluating"}
  BY <1>4 DEF ExecutePhase, WorkOf
<1> QED BY <1>1, <1>2, <1>3, <1>4

\* The phases in their order.
LEMMA PhaseAfter ==
  /\ Following("preparing") = "quiescent" /\ Following("quiescent") = "consolidating"
  /\ Following("consolidating") = "training" /\ Following("training") = "evaluating"
  /\ Following("evaluating") = "finalizing" /\ Following("finalizing") = "waking"
<1>0. DOMAIN Phases = 1..7 /\ Phases[1] = "preparing" /\ Phases[2] = "quiescent"
      /\ Phases[3] = "consolidating" /\ Phases[4] = "training" /\ Phases[5] = "evaluating"
      /\ Phases[6] = "finalizing" /\ Phases[7] = "waking"
  BY DEF Phases
<1> DEFINE at(p) == CHOOSE i \in DOMAIN Phases : Phases[i] = p
<1>1. ASSUME NEW n \in 1..6
      PROVE  Following(Phases[n]) = Phases[n + 1]
  <2>1. \A i \in DOMAIN Phases : Phases[i] = Phases[n] => i = n
    <3> SUFFICES ASSUME NEW i \in 1..7, Phases[i] = Phases[n] PROVE i = n
      BY <1>0
    <3>1. i \in {1, 2, 3, 4, 5, 6, 7} /\ n \in {1, 2, 3, 4, 5, 6}
      OBVIOUS
    <3> QED BY <3>1, <1>0
  <2>2. n \in DOMAIN Phases
    BY <1>0
  <2>3. at(Phases[n]) = n
    BY <2>1, <2>2
  <2>4. Following(Phases[n]) = Phases[1 + at(Phases[n])]
    BY Zenon DEF Following
  <2> HIDE DEF at
  <2>5. 1 + n = n + 1
    OBVIOUS
  <2> QED BY <2>3, <2>4, <2>5
<1>2. /\ Following(Phases[1]) = Phases[2] /\ Following(Phases[2]) = Phases[3]
      /\ Following(Phases[3]) = Phases[4] /\ Following(Phases[4]) = Phases[5]
      /\ Following(Phases[5]) = Phases[6] /\ Following(Phases[6]) = Phases[7]
  BY <1>1
<1> QED BY <1>0, <1>2

LEMMA PhasesRange ==
  Range(Phases) = {"preparing", "quiescent", "consolidating", "training", "evaluating",
                   "finalizing", "waking"}
<1>0. DOMAIN Phases = {1, 2, 3, 4, 5, 6, 7} /\ Phases[1] = "preparing" /\ Phases[2] = "quiescent"
      /\ Phases[3] = "consolidating" /\ Phases[4] = "training" /\ Phases[5] = "evaluating"
      /\ Phases[6] = "finalizing" /\ Phases[7] = "waking"
  BY DEF Phases
<1> HIDE DEF Phases
<1> QED BY <1>0 DEF Range

\* A step that keeps the plan, the statuses and the record, on the way of a session.
LEMMA PhaseOnly ==
  ASSUME SleepInv, NEW p \in {"waking", "interrupted"}, session.phase # "awake",
         session' = [session EXCEPT !.phase = p], UNCHANGED <<consumed, sleepHistory>>
  PROVE  SessionOK' /\ RecordOK(consumed)' /\ WorkOK' /\ TrainedOK'
<1>1. /\ session'.plan = session.plan /\ session'.status = session.status /\ session'.phase = p
      /\ session' \in [phase : {"preparing", "quiescent", "consolidating", "training", "evaluating",
                                "finalizing", "waking", "awake", "interrupted"},
                       onPower : BOOLEAN, plan : [Kind -> SUBSET Refs],
                       status : [Kind -> {"pending", "completed", "deferred"}]]
  BY DEF SleepInv, SessionOK
<1>2. CompletedPairs' = CompletedPairs
  BY <1>1 DEF CompletedPairs
<1>3. Ahead(session'.phase) = {}
  BY <1>1 DEF Ahead
<1>4. SessionOK'
  BY <1>1, <1>3 DEF SleepInv, SessionOK
<1>5. WorkOK'
  BY <1>2 DEF SleepInv, WorkOK, sleepHistory
<1>6. RecordOK(consumed)'
  BY DEF SleepInv, RecordOK
<1>7. TrainedOK'
  BY DEF SleepInv, TrainedOK, sleepHistory
<1> QED BY <1>4, <1>5, <1>6, <1>7

\* A session begins with a plan of what each kind of work has yet to take.
LEMMA StartKeeps ==
  ASSUME SleepInv, NEW in \in Inputs, NEW arm, Start(in, arm)
  PROVE  SessionOK' /\ RecordOK(consumed)' /\ WorkOK' /\ TrainedOK'
<1>1. /\ session' = [NoSession EXCEPT !.phase = "preparing", !.onPower = in.power,
                                      !.plan = PlanFor(in.refs)]
      /\ consumed' = consumed /\ done' = done /\ session.phase = "awake"
  BY DEF Start, sleepHistory
<1>2. in.refs \subseteq Refs /\ in.power \in BOOLEAN
  BY SleepAssumption DEF Inputs
<1>3. PlanFor(in.refs) \in [Kind -> SUBSET Refs]
  BY <1>2 DEF PlanFor, Pending
<1>4. ASSUME NEW k \in Kind, NEW r \in PlanFor(in.refs)[k]
      PROVE  <<r, k>> \in PairsOf(Refs) /\ <<r, k>> \notin Range(consumed)
  <2>1. r \in in.refs /\ k \in UsedBy(r) /\ ~IsConsumed(r, k)
    BY DEF PlanFor, Pending
  <2> QED BY <2>1, <1>2 DEF PairsOf, IsConsumed
<1>5. /\ session'.plan = PlanFor(in.refs) /\ session'.status = NoSession.status
      /\ session'.phase = "preparing"
      /\ session' \in [phase : {"preparing", "quiescent", "consolidating", "training", "evaluating",
                                "finalizing", "waking", "awake", "interrupted"},
                       onPower : BOOLEAN, plan : [Kind -> SUBSET Refs],
                       status : [Kind -> {"pending", "completed", "deferred"}]]
  BY <1>1, <1>2, <1>3, NoSessionOK
<1>6. CompletedPairs = {} /\ CompletedPairs' = {}
  <2>1. \A k \in Kind : session.status[k] = "pending"
    BY <1>1 DEF SleepInv, SessionOK, Ahead
  <2>2. \A k \in Kind : session'.status[k] = "pending"
    BY <1>5, NoSessionOK
  <2> QED BY <2>1, <2>2 DEF CompletedPairs
<1>7. \A k \in Kind : session'.plan[k] \X {k} \subseteq PairsOf(Refs)
  BY <1>4, <1>5
<1>8. \A k \in Kind : (session'.plan[k] \X {k}) \cap Range(consumed') = {}
  BY <1>1, <1>4, <1>5
<1>9. \A k \in Ahead(session'.phase) : session'.status[k] = "pending"
  BY <1>5, NoSessionOK DEF Ahead
<1>10. SessionOK'
  BY <1>5, <1>7, <1>8, <1>9 DEF SessionOK
<1>11. WorkOK'
  BY <1>1, <1>6 DEF SleepInv, WorkOK
<1>12. RecordOK(consumed)'
  BY <1>1 DEF SleepInv, RecordOK
<1>13. TrainedOK'
  BY DEF Start, SleepInv, TrainedOK, sleepHistory
<1> QED BY <1>10, <1>11, <1>12, <1>13

\* A phase goes by: what it completes is done and waits for the record.
LEMMA ProceedKeeps ==
  ASSUME SleepInv, NEW in \in Inputs, NEW arm, Proceed(in, arm)
  PROVE  SessionOK' /\ RecordOK(consumed)' /\ WorkOK' /\ TrainedOK'
<1> DEFINE phase == session.phase
           status == ExecutePhase(phase, session.status, in)
           fresh == UNION {session.plan[k] \X {k} :
                             k \in {w \in WorkOf(phase) : status[w] = "completed"}}
<1>1. /\ session' = [session EXCEPT !.phase = Following(phase), !.status = status]
      /\ done' = done \cup fresh /\ consumed' = consumed
      /\ phase \in {"preparing", "quiescent", "consolidating", "training", "evaluating", "finalizing"}
  <2>1. session' = [session EXCEPT !.phase = Following(phase), !.status = status]
    BY DEF Proceed
  <2>2. done' = done \cup fresh /\ consumed' = consumed /\ phase \in Range(Phases) \ {"waking"}
    BY DEF Proceed, sleepHistory
  <2> QED BY <2>1, <2>2, PhasesRange
<1>2. /\ session \in [phase : {"preparing", "quiescent", "consolidating", "training", "evaluating",
                               "finalizing", "waking", "awake", "interrupted"},
                      onPower : BOOLEAN, plan : [Kind -> SUBSET Refs],
                      status : [Kind -> {"pending", "completed", "deferred"}]]
      /\ \A k \in Kind : session.plan[k] \X {k} \subseteq PairsOf(Refs)
      /\ \A k \in Ahead(phase) : session.status[k] = "pending"
      /\ \A k \in Kind : (session.plan[k] \X {k}) \cap Range(consumed) = {}
  BY <1>1 DEF SleepInv, SessionOK
<1>3. /\ status \in [Kind -> {"pending", "completed", "deferred"}]
      /\ \A k \in Kind \ WorkOf(phase) : status[k] = session.status[k]
      /\ WorkOf(phase) \subseteq Kind
  BY <1>2, PhaseExecuted
<1>4. /\ WorkOf(phase) \subseteq Ahead(phase)
      /\ Ahead(Following(phase)) \subseteq Ahead(phase) \ WorkOf(phase)
      /\ Ahead(phase) \subseteq Kind
      /\ Following(phase) \in {"quiescent", "consolidating", "training", "evaluating",
                               "finalizing", "waking"}
  BY <1>1, PhaseAfter DEF WorkOf, Ahead, Kind
<1> HIDE DEF status, phase
<1>5. /\ session'.plan = session.plan /\ session'.status = status
      /\ session'.phase = Following(phase)
      /\ session' \in [phase : {"preparing", "quiescent", "consolidating", "training", "evaluating",
                                "finalizing", "waking", "awake", "interrupted"},
                       onPower : BOOLEAN, plan : [Kind -> SUBSET Refs],
                       status : [Kind -> {"pending", "completed", "deferred"}]]
  BY <1>1, <1>2, <1>3, <1>4
<1>6. \A k \in Ahead(session'.phase) : session'.status[k] = "pending"
  BY <1>2, <1>3, <1>4, <1>5
<1>7. SessionOK'
  BY <1>1, <1>2, <1>5, <1>6 DEF SessionOK
<1>8. CompletedPairs' = CompletedPairs \cup fresh
  <2>1. {w \in Kind : status[w] = "completed"}
          = {w \in Kind : session.status[w] = "completed"}
              \cup {w \in WorkOf(phase) : status[w] = "completed"}
    <3>1. \A w \in WorkOf(phase) : session.status[w] # "completed" /\ w \in Kind
      BY <1>2, <1>3, <1>4
    <3> QED BY <3>1, <1>3
  <2>2. CompletedPairs' = UNION {session.plan[k] \X {k} : k \in {w \in Kind : status[w] = "completed"}}
    BY <1>5 DEF CompletedPairs
  <2> QED BY <2>1, <2>2 DEF CompletedPairs
<1>9. fresh \subseteq PairsOf(Refs)
  BY <1>2, <1>3
<1>10. WorkOK'
  <2> DEFINE P == PairsOf(Refs)
  <2> HIDE DEF fresh
  <2>1. done' \subseteq PairsOf(Refs)
    BY <1>1, <1>9 DEF SleepInv, WorkOK
  <2>2. Range(consumed') \subseteq done' /\ CompletedPairs' \subseteq done'
    BY <1>1, <1>8 DEF SleepInv, WorkOK
  <2>3. ASSUME Cardinality(done') <= RecordSize
        PROVE  done' \subseteq Range(consumed') \cup CompletedPairs'
    <3>1. IsFiniteSet(done')
      BY <2>1, PairsFinite, FS_Subset
    <3>2. done \in SUBSET done'
      BY <1>1
    <3>3. /\ IsFiniteSet(done) /\ Cardinality(done) <= Cardinality(done')
      BY <3>1, <3>2, FS_Subset
    <3>4. Cardinality(done) \in Nat /\ Cardinality(done') \in Nat /\ RecordSize \in Nat
      BY <3>1, <3>3, FS_CardinalityType, SleepAssumption
    <3>5. Cardinality(done) <= RecordSize
      BY <3>3, <3>4, <2>3
    <3>6. done \subseteq Range(consumed) \cup CompletedPairs
      BY <3>5 DEF SleepInv, WorkOK
    <3> QED BY <3>6, <1>1, <1>8
  <2> QED BY <2>1, <2>2, <2>3 DEF WorkOK
<1>11. RecordOK(consumed)'
  BY <1>1 DEF SleepInv, RecordOK
<1>12. TrainedOK'
  <2> DEFINE completed == {w \in WorkOf(phase) : status[w] = "completed"}
             taken == UNION {TakenUp(k, in) \X {k} : k \in completed}
  <2>1. worked' = worked \cup taken /\ again' = again \cup (taken \cap Range(consumed))
    BY DEF Proceed, phase, status
  <2>2. completed \subseteq Kind
    BY <1>3
  <2> HIDE DEF completed
  <2>3. taken \subseteq PairsOf(Refs)
    <3> SUFFICES ASSUME NEW k \in Kind, NEW r \in TakenUp(k, in) PROVE <<r, k>> \in PairsOf(Refs)
      BY <2>2
    <3>1. in.refs \subseteq Refs
      BY SleepAssumption DEF Inputs
    <3>2. CASE k = "train"
      BY <3>2, <1>2 DEF TakenUp
    <3>3. CASE k # "train"
      <4>1. r \in Refs /\ k \in UsedBy(r)
        BY <3>1, <3>3 DEF TakenUp, UsedBy
      <4> QED BY <4>1 DEF PairsOf
    <3> QED BY <3>2, <3>3
  <2>4. \A r : <<r, "train">> \in taken => <<r, "train">> \notin Range(consumed)
    <3> SUFFICES ASSUME NEW r, <<r, "train">> \in taken PROVE <<r, "train">> \notin Range(consumed)
      OBVIOUS
    <3>1. r \in session.plan["train"] /\ "train" \in Kind
      BY <2>2 DEF TakenUp, Kind
    <3> QED BY <3>1, <1>2
  <2>5. \A r : <<r, "train">> \in fresh => <<r, "train">> \in taken
    BY DEF TakenUp, completed
  <2> HIDE DEF taken, fresh
  <2> QED BY <2>1, <2>3, <2>4, <2>5, <1>1 DEF SleepInv, TrainedOK
<1> QED BY <1>7, <1>10, <1>11, <1>12

\* The inputs of one item: those of its plan if it completed, and none else.
LEMMA Consumes ==
  ASSUME SleepInv, NEW k \in Kind
  PROVE  /\ Consumption(k) \in Seq(PairsOf(Refs))
         /\ Range(Consumption(k)) = IF session.status[k] = "completed"
                                    THEN session.plan[k] \X {k} ELSE {}
<1>1. CASE session.status[k] = "completed"
  <2> DEFINE S == session.plan[k] \X {k}
  <2>1. S \subseteq PairsOf(Refs)
    BY DEF SleepInv, SessionOK
  <2> HIDE DEF S
  <2>2. IsFiniteSet(S)
    BY <2>1, PairsFinite, FS_Subset
  <2>3. SetToSeq(S) \in Seq(S) /\ Range(SetToSeq(S)) = S
    BY <2>2, Listed
  <2>4. SetToSeq(S) \in Seq(PairsOf(Refs))
    BY <2>1, <2>3
  <2>5. Consumption(k) = SetToSeq(S)
    BY <1>1 DEF Consumption, S
  <2> QED BY <1>1, <2>3, <2>4, <2>5 DEF S
<1>2. CASE session.status[k] # "completed"
  <2>1. Consumption(k) = <<>>
    BY <1>2 DEF Consumption
  <2> QED BY <1>2, <2>1 DEF Range
<1> QED BY <1>1, <1>2

\* The session ends: the record takes up what completed, and nothing else.
LEMMA FinishKeeps ==
  ASSUME SleepInv, NEW in, NEW arm, Finish(in, arm)
  PROVE  SessionOK' /\ RecordOK(consumed)' /\ WorkOK' /\ TrainedOK'
<1> DEFINE a == Consumption("flush")
           b == Consumption("consolidate")
           c == Consumption("replay")
           d == Consumption("train")
           e == Consumption("evaluate")
           pairs == a \o b \o c \o d \o e
           P == PairsOf(Refs)
<1>1. session' = NoSession /\ consumed' = Recorded(consumed, pairs) /\ done' = done
  BY DEF Finish, sleepHistory
<1>2. a \in Seq(P) /\ b \in Seq(P) /\ c \in Seq(P) /\ d \in Seq(P) /\ e \in Seq(P)
  BY Consumes DEF Kind
<1>3. Range(a) \cup Range(b) \cup Range(c) \cup Range(d) \cup Range(e) = CompletedPairs
  <2>1. CompletedPairs = UNION {Range(Consumption(k)) : k \in Kind}
    BY Consumes DEF CompletedPairs
  <2> QED BY <2>1 DEF Kind
<1>4. pairs \in Seq(P) /\ Range(pairs) = CompletedPairs
  <2> DEFINE ab == a \o b
             abc == ab \o c
             abcd == abc \o d
  <2> HIDE DEF a, b, c, d, e, P
  <2>1. ab \in Seq(P) /\ Range(ab) = Range(a) \cup Range(b)
    BY <1>2, RangeConcatenation
  <2> HIDE DEF ab
  <2>2. abc \in Seq(P) /\ Range(abc) = Range(ab) \cup Range(c)
    BY <1>2, <2>1, RangeConcatenation
  <2> HIDE DEF abc
  <2>3. abcd \in Seq(P) /\ Range(abcd) = Range(abc) \cup Range(d)
    BY <1>2, <2>2, RangeConcatenation
  <2> HIDE DEF abcd
  <2>4. abcd \o e \in Seq(P) /\ Range(abcd \o e) = Range(abcd) \cup Range(e)
    BY <1>2, <2>3, RangeConcatenation
  <2>5. pairs = abcd \o e
    BY DEF abcd, abc, ab
  <2> HIDE DEF pairs
  <2> QED BY <2>1, <2>2, <2>3, <2>4, <2>5, <1>3
<1>5. /\ done \subseteq P /\ IsFiniteSet(done) /\ RecordOK(consumed)
      /\ Range(consumed) \cup CompletedPairs \subseteq done
  <2>1. done \subseteq P /\ RecordOK(consumed) /\ Range(consumed) \cup CompletedPairs \subseteq done
    BY DEF SleepInv, WorkOK
  <2> QED BY <2>1, PairsFinite, FS_Subset
<1> HIDE DEF pairs
<1>6. /\ RecordOK(consumed') /\ Range(consumed') \subseteq Range(consumed) \cup CompletedPairs
      /\ Cardinality(done) <= RecordSize =>
           Range(consumed) \cup CompletedPairs \subseteq Range(consumed')
  BY <1>1, <1>4, <1>5, RecordedEffect
<1>7. SessionOK'
  <2>1. session' = NoSession /\ session'.phase = "awake"
    BY <1>1, NoSessionOK
  <2>2. \A k \in Kind : session'.plan[k] \X {k} \subseteq PairsOf(Refs)
    BY <2>1, NoSessionOK
  <2>3. \A k \in Ahead(session'.phase) : session'.status[k] = "pending"
    BY <2>1, NoSessionOK DEF Ahead
  <2> QED BY <2>1, <2>2, <2>3, NoSessionOK DEF SessionOK
<1>8. CompletedPairs' = {}
  BY <1>1, NoSessionOK DEF CompletedPairs
<1>9. Cardinality(done) <= RecordSize => done \subseteq Range(consumed) \cup CompletedPairs
  BY DEF SleepInv, WorkOK
<1>10. WorkOK'
  BY <1>1, <1>5, <1>6, <1>8, <1>9 DEF WorkOK
<1>11. RecordOK(consumed)'
  BY <1>6 DEF RecordOK
<1>12. TrainedOK'
  BY DEF Finish, SleepInv, TrainedOK, sleepHistory
<1> QED BY <1>7, <1>10, <1>11, <1>12

\* Every tick of the controller keeps the invariant.
LEMMA SleepTickKeeps ==
  ASSUME SleepInv, NEW in \in Inputs, SleepTick(in)
  PROVE  SleepInv'
<1> DEFINE arm == armed \/ in.fatigue = "low"
<1>1. arm \in BOOLEAN /\ requestHeld' \in BOOLEAN /\ settled' \in BOOLEAN
  <2>1. armed \in BOOLEAN /\ settled \in BOOLEAN /\ in.request \in BOOLEAN
    BY DEF SleepInv, Inputs
  <2> QED BY <2>1 DEF SleepTick
<1>2. \/ Start(in, arm) \/ StayAwake(in, arm) \/ Interrupt(in, arm) \/ Proceed(in, arm)
      \/ EndInterruption(in, arm) \/ Finish(in, arm)
  BY DEF SleepTick
<1> HIDE DEF arm
<1>3. armed' \in BOOLEAN
  <2>1. CASE Start(in, arm)
    BY <1>1, <2>1 DEF Start
  <2>2. CASE ~Start(in, arm)
    <3>1. armed' = arm
      BY <1>2, <2>2 DEF StayAwake, Interrupt, Proceed, EndInterruption, Finish
    <3> QED BY <3>1, <1>1
  <2> QED BY <2>1, <2>2
<1>4. SessionOK' /\ RecordOK(consumed)' /\ WorkOK' /\ TrainedOK'
  <2>1. CASE Start(in, arm)
    BY <2>1, StartKeeps
  <2>2. CASE StayAwake(in, arm)
    BY <2>2 DEF StayAwake, SleepInv, SessionOK, RecordOK, WorkOK, CompletedPairs, TrainedOK, sleepHistory
  <2>3. CASE Interrupt(in, arm)
    BY <2>3, PhaseOnly DEF Interrupt
  <2>4. CASE Proceed(in, arm)
    BY <2>4, ProceedKeeps
  <2>5. CASE EndInterruption(in, arm)
    BY <2>5, PhaseOnly DEF EndInterruption
  <2>6. CASE Finish(in, arm)
    BY <2>6, FinishKeeps
  <2> QED BY <1>2, <2>1, <2>2, <2>3, <2>4, <2>5, <2>6
<1> QED BY <1>1, <1>3, <1>4 DEF SleepInv

\* The invariant is inductive: settling touches neither session nor record.
LEMMA SleepingStep == SleepInv /\ [SleepNext]_sleepVars => SleepInv'
<1> SUFFICES ASSUME SleepInv, [SleepNext]_sleepVars PROVE SleepInv'
  OBVIOUS
<1>1. CASE SleepStep
  BY <1>1, SleepTickKeeps DEF SleepStep
<1>2. CASE Settle
  BY <1>2 DEF Settle, SleepInv, SessionOK, RecordOK, WorkOK, CompletedPairs, TrainedOK, sleepHistory
<1>3. CASE UNCHANGED sleepVars
  BY <1>3 DEF sleepVars, sleepHistory, SleepInv, SessionOK, RecordOK, WorkOK, CompletedPairs,
              TrainedOK
<1> QED BY <1>1, <1>2, <1>3 DEF SleepNext

\* The invariant holds in every reachable state.
LEMMA SleepInvariant == SleepSpec => []SleepInv
  BY SleepInitial, SleepingStep, PTL DEF SleepSpec

-----------------------------------------------------------------------------
\* What the invariant says of the types of the controller's state.
LEMMA SleepTyped == SleepInv => SleepTypeOK
<1> SUFFICES ASSUME SleepInv PROVE SleepTypeOK
  OBVIOUS
<1>1. /\ session.phase \in Range(Phases) \cup {"awake", "interrupted"}
      /\ session.plan \in [Kind -> SUBSET Refs]
      /\ session.status \in [Kind -> {"pending", "completed", "deferred"}]
      /\ session.onPower \in BOOLEAN
  BY PhasesRange DEF SleepInv, SessionOK
<1>2. Len(consumed) <= RecordSize /\ Range(consumed) \subseteq PairsOf(Refs) /\ IsInjective(consumed)
  BY DEF SleepInv, RecordOK, Range
<1> QED BY <1>1, <1>2 DEF SleepInv, SleepTypeOK, WorkOK, TrainedOK

\* The controller keeps its types: for any references and any size of the
\* record, the record stays within its bound and holds no input twice.
THEOREM SleepTypeCorrect == SleepSpec => []SleepTypeOK
  BY SleepInvariant, SleepTyped, PTL

\* An input is recorded for a kind of work only if the item that planned it completed,
\* is forgotten only when the record overflows, and is not planned while the record
\* holds it; what is recorded as trained was trained, and nothing is trained again that
\* the record holds: whatever interrupts sessions, and whichever of their items are
\* deferred.  Which references consolidation and replay really take up is left open.
THEOREM WorkAlwaysRecorded == SleepSpec => []WorkRecorded
<1>1. SleepInv => WorkRecorded
  <2> SUFFICES ASSUME SleepInv PROVE WorkRecorded
    OBVIOUS
  <2>1. session.phase = "awake" => CompletedPairs = {}
    BY DEF SleepInv, SessionOK, Ahead, CompletedPairs
  <2>2. \A r \in Refs : /\ <<r, "train">> \in Range(consumed) => <<r, "train">> \in worked
                       /\ <<r, "train">> \notin again
    BY DEF SleepInv, WorkOK, TrainedOK
  <2> QED BY <2>1, <2>2 DEF SleepInv, SessionOK, WorkOK, WorkRecorded
<1> QED BY <1>1, SleepInvariant, PTL
==================================================================================
