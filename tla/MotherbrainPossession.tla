-------------------------- MODULE MotherbrainPossession --------------------------
(***************************************************************************)
(* The motherbrain's side of a possessed brainstem (pete-cockpit,          *)
(* MotherbrainPossession): the local motor gate, renewal of the control    *)
(* lease, the bounded retry of busy commands and the reopening of the gate *)
(* after a safety clear.  A call is a sequence of exchanges with the       *)
(* brainstem; between two of them the lease may end, another host may take *)
(* the body and a safety latch may trip.  The brainstem is external: its   *)
(* answers are those its control surface can give.                         *)
(***************************************************************************)
EXTENDS Naturals

CONSTANT BusyAttempts  \* POSSESSION_BUSY_RETRY_ATTEMPTS

ASSUME PossessionAssumption == BusyAttempts \in Nat \ {0}

VARIABLES
  gate,      \* motor_gate_open
  lease,     \* "current" while control_lease is the one the brainstem honours
  call,      \* the call under way
  latched,   \* the brainstem's e-stop or safety latch
  rival,     \* another host owns the body
  recovery   \* history: how far the gate's last closing has been made good

possessionVars == <<gate, lease, call, latched, rival, recovery>>

Ops == {"status", "drive", "escape", "clear", "disarm", "stop", "exorcize", "drop"}
\* bypasses_closed_motor_gate, and the calls that are a Stop themselves.
Bypasses(op) == op \in {"escape", "clear", "stop", "exorcize", "drop"}
\* The requests of authorization class ControlLease.
ByLease(request) == request \in {"heartbeat", "drive", "escape", "clear"}
Moves(request) == request \in {"drive", "escape"}

NoCall == [op |-> "none", step |-> "idle", attempt |-> 0, retried |-> FALSE, back |-> "send",
           applied |-> 0]
Gone == [NoCall EXCEPT !.step = "gone"]
Panicked == [NoCall EXCEPT !.step = "panicked"]

\* acquire has taken the lease and had its Stop accepted.
PossessionInit ==
  /\ gate = TRUE /\ lease = "current" /\ call = NoCall
  /\ latched \in {"none", "estop", "safety"} /\ rival = FALSE /\ recovery = "granted"

\* A motion command is preceded by the heartbeat that supervises it.
FirstSend(op) == IF Moves(op) THEN "heartbeat" ELSE "send"
Enter(step) == [call EXCEPT !.step = step, !.attempt = 0, !.retried = FALSE]

SetsGate(open) == /\ gate' = open
                  /\ recovery' = IF gate /\ ~open THEN "closed" ELSE recovery
KeepsGate == UNCHANGED <<gate, recovery>>
\* The call returns; Drop's call leaves nothing behind.
Returns == call' = IF call.op = "drop" THEN Gone ELSE NoCall

-----------------------------------------------------------------------------
(* execute, exorcize and drop: the call begins, with maintain where due.   *)

Begin(op) ==
  LET start(step) == call' = [NoCall EXCEPT !.op = op, !.step = step] IN
  /\ call.step = "idle"
  /\ \/ (Bypasses(op) \/ (op = "status" /\ ~gate)) /\ start(FirstSend(op))
     \/ ~Bypasses(op) /\ gate /\ \E due \in BOOLEAN : start(IF due THEN "renew" ELSE FirstSend(op))
     \* A closed gate refuses: the call has returned.
  /\ UNCHANGED <<gate, lease, latched, rival, recovery>>

-----------------------------------------------------------------------------
(* Exchanges.                                                              *)

\* AcquireControlLease: granted unless another host has the body; when the
\* answer is lost the brainstem may have granted a lease nobody here knows.
AcquireLease(granted, refused) ==
  \/ /\ ~rival /\ lease' = "current" /\ granted
     /\ UNCHANGED <<latched, rival>>
  \/ /\ rival /\ refused
     /\ UNCHANGED <<lease, latched, rival>>
  \/ /\ lease' \in IF rival THEN {lease} ELSE {lease, "stale"}
     /\ refused
     /\ UNCHANGED <<latched, rival>>
Recovered == recovery' = IF recovery = "confirmed" THEN "granted" ELSE recovery

\* maintain: a failed renewal closes the gate and is the call's error.
Renew ==
  /\ call.step = "renew"
  /\ AcquireLease(/\ Recovered /\ gate' = gate
                  /\ call' = Enter(FirstSend(call.op)),
                  SetsGate(FALSE) /\ Returns)

AttemptAfter(attempt) == attempt + 1
\* Mutant: busy is retried without end.
BusyAgain_Always(attempt) == TRUE
BusyAgain(attempt) == AttemptAfter(attempt) < BusyAttempts

\* The renewal after a lease rejection; the loop it returns to may have used
\* up its attempts.
RenewForRetry ==
  /\ call.step = "recover"
  /\ AcquireLease(/\ Recovered /\ gate' = gate
                  /\ call' = IF AttemptAfter(call.attempt) < BusyAttempts
                             THEN [call EXCEPT !.step = call.back, !.retried = TRUE,
                                               !.attempt = AttemptAfter(@)]
                             ELSE Panicked,
                  SetsGate(FALSE) /\ Returns)

Request == IF call.step = "heartbeat" THEN "heartbeat"
           ELSE IF call.op \in {"exorcize", "drop"} THEN "stop" ELSE call.op

\* What an accepted request changes at the brainstem.
Applies(request) ==
  /\ latched' \in IF request = "clear" THEN {latched, "none"} ELSE {latched}
  /\ UNCHANGED <<lease, rival>>
Counted(c) == IF Moves(Request) THEN [c EXCEPT !.applied = @ + 1] ELSE c
AdmitsRequest ==
  /\ ByLease(Request) => lease = "current"
  /\ Moves(Request) => latched = "none" \/ Request = "escape"

Accepted ==
  /\ AdmitsRequest /\ Applies(Request)
  /\ \/ call.step = "heartbeat" /\ call' = Enter("send") /\ KeepsGate
     \/ /\ call.step = "send" /\ call.op = "clear"
        /\ call' = Enter("check") /\ KeepsGate
     \/ /\ call.step = "send" /\ call.op = "status"
        /\ Returns
        /\ IF latched = "estop" THEN SetsGate(FALSE)
           ELSE /\ gate' = gate
                /\ recovery' = IF recovery = "closed" /\ latched = "none" THEN "confirmed"
                               ELSE recovery
     \/ /\ call.step = "send" /\ call.op \notin {"clear", "status"}
        /\ IF Moves(Request) THEN call' = [Counted(call) EXCEPT !.step = "done"] ELSE Returns
        /\ IF call.op = "exorcize" THEN SetsGate(FALSE) ELSE KeepsGate

\* Where an error of the request leaves the gate: the heartbeat's is passed on
\* as it is, a status and a lease command close it, and exorcize always does.
Fails ==
  /\ Returns
  /\ IF call.step = "send" /\ (ByLease(Request) \/ call.op \in {"status", "exorcize"})
     THEN SetsGate(FALSE) ELSE KeepsGate

Busy ==
  /\ Request \notin {"status", "stop"} /\ (ByLease(Request) => lease = "current")
  /\ \/ /\ BusyAgain(call.attempt)
        /\ call' = [call EXCEPT !.step = "wait", !.back = call.step,
                                !.attempt = AttemptAfter(@)]
        /\ KeepsGate
     \/ ~BusyAgain(call.attempt) /\ Fails
  /\ UNCHANGED <<lease, latched, rival>>

LeaseRejected ==
  /\ ByLease(Request) /\ lease = "stale"
  /\ \/ ~call.retried /\ call' = [call EXCEPT !.step = "recover", !.back = call.step] /\ KeepsGate
     \/ call.retried /\ Fails
  /\ UNCHANGED <<lease, latched, rival>>

Refused ==
  /\ ~AdmitsRequest /\ ~(ByLease(Request) /\ lease = "stale") /\ Fails
  /\ UNCHANGED <<lease, latched, rival>>

\* Mutant: a request without an answer is sent again.
WithoutAnswer_Again(applied) ==
  /\ BusyAgain(call.attempt)
  /\ call' = [IF applied THEN Counted(call) ELSE call EXCEPT !.attempt = AttemptAfter(@)]
  /\ KeepsGate
\* A transport error is not retried.
WithoutAnswer(applied) == Fails
Lost ==
  \E applied \in BOOLEAN :
    /\ IF applied THEN AdmitsRequest /\ Applies(Request) ELSE UNCHANGED <<lease, latched, rival>>
    /\ WithoutAnswer(applied)

Exchange == /\ call.step \in {"heartbeat", "send"}
            /\ Accepted \/ Busy \/ LeaseRejected \/ Refused \/ Lost

\* POSSESSION_BUSY_RETRY_DELAY is over.
Wait == /\ call.step = "wait" /\ call' = [call EXCEPT !.step = call.back]
        /\ UNCHANGED <<gate, lease, latched, rival, recovery>>

\* An accepted motion returns to the caller.
Done == call.step = "done" /\ Returns /\ UNCHANGED <<gate, lease, latched, rival, recovery>>

\* Mutant: the status after a clear is not looked at.
SafetyClear_Any(latch) == TRUE
SafetyClear(latch) == latch = "none"

\* reopen_gate_if_safety_clear: the status, then the lease, then the gate.
CheckSafety ==
  /\ call.step = "check"
  /\ \/ Returns /\ KeepsGate  \* no answer, or a latch is still on
     \/ /\ SafetyClear(latched) /\ call' = Enter("reacquire")
        /\ gate' = gate
        /\ recovery' = IF recovery = "closed" /\ latched = "none" THEN "confirmed" ELSE recovery
  /\ UNCHANGED <<lease, latched, rival>>
Reopen ==
  /\ call.step = "reacquire"
  /\ AcquireLease(Returns /\ gate' = TRUE /\ Recovered, SetsGate(FALSE) /\ Returns)

CallStep == Renew \/ RenewForRetry \/ Exchange \/ Wait \/ Done \/ CheckSafety \/ Reopen

-----------------------------------------------------------------------------
(* The brainstem's side.                                                   *)

LeaseEnds == /\ lease = "current" /\ lease' = "stale" /\ rival' \in BOOLEAN
             /\ UNCHANGED <<gate, call, latched, recovery>>
RivalLeaves == rival /\ rival' = FALSE /\ UNCHANGED <<gate, lease, call, latched, recovery>>
Trips == /\ latched = "none" /\ latched' \in {"estop", "safety"}
         /\ UNCHANGED <<gate, lease, call, rival, recovery>>

PossessionNext == \/ \E op \in Ops : Begin(op)
                  \/ CallStep
                  \/ LeaseEnds \/ RivalLeaves \/ Trips
PossessionSpec == PossessionInit /\ [][PossessionNext]_possessionVars /\ WF_possessionVars(CallStep)

-----------------------------------------------------------------------------
(* Properties.                                                             *)

PossessionTypeOK ==
  /\ gate \in BOOLEAN /\ lease \in {"current", "stale"} /\ rival \in BOOLEAN
  /\ latched \in {"none", "estop", "safety"} /\ recovery \in {"closed", "confirmed", "granted"}
  /\ call.op \in Ops \cup {"none"} /\ call.attempt \in 0 .. BusyAttempts - 1
  /\ call.step \in {"idle", "renew", "heartbeat", "send", "wait", "recover", "done", "check",
                    "reacquire", "gone", "panicked"}

\* After the gate has closed, for a failed renewal, a failed command, an e-stop
\* or an exorcism, no velocity reaches the wheels before the brainstem has
\* confirmed that no latch is on and has then granted the lease afresh.
DrivesAfterRecovery ==
  [][call.op = "drive" /\ call'.applied > call.applied => recovery = "granted"]_possessionVars

\* A call moves the body at most once: busy answers and lease rejections are
\* sent again, a request whose answer is lost is not.
AppliedOnce == call.applied <= 1

\* execute_with_busy_retry: "bounded busy retry always returns on its final
\* attempt".
BusyRetryReturns == call.step # "panicked"
==================================================================================
