-------------------------- MODULE BrainstemRuntime --------------------------
(***************************************************************************)
(* The tick of pete-brainstem's Runtime (src/crates/pete-brainstem/src/    *)
(* runtime/): what moves the wheels, what stops them, and what becomes of  *)
(* every command that was accepted on the way.                             *)
(*                                                                         *)
(* phase is the place in Runtime::tick; a step of the model is one of the  *)
(* calls tick makes, in tick's order, and an error returned by one of them *)
(* ends the tick in enter_error.  The host, the sensors and the clock are  *)
(* free: each tick may bring any command of Offered, any subset of Sensors *)
(* and any ownership barrier, and a deadline may pass between any two      *)
(* calls.  A write to the Create's UART may fail when UartFaults is TRUE.  *)
(*                                                                         *)
(* Commands are told apart by what they do to this state: "forward",       *)
(* "reverse" and "zero" are CmdVel, "drive" is any other bounded drive,    *)
(* "settle" a power, mode or wake step that takes time (the commands of a  *)
(* script in a row), "other" one that is done at once.  "tilt" stands for  *)
(* a held tilt and for an impact.                                          *)
(***************************************************************************)
EXTENDS Naturals, Sequences, SequencesExt

CONSTANTS
  Sensors,     \* what the body may report, a subset of AllSensors
  Offered,     \* the commands the host may send, a subset of Kinds
  Ids,         \* the command ids it uses for them
  QueueCap,    \* capacity of Runtime::commands
  UartFaults,  \* writes to the Create may fail
  BootWheels   \* what the wheels may be doing when the runtime starts

AllSensors == {"bump", "cliff", "wheel_drop", "tilt", "charging", "home",
               "link_lost", "not_full"}
Velocities == {"forward", "reverse", "zero"}
Escapes == {"escape_bump", "escape_cliff"}
Kinds == Velocities \cup Escapes \cup
  {"drive", "stop", "estop", "clear_estop", "disarm", "restart", "clear_latch",
   "careful", "heartbeat", "settle", "clear_queue", "other"}

ASSUME InputAssumption ==
  /\ Sensors \subseteq AllSensors /\ Offered \subseteq Kinds
  /\ Ids \subseteq Nat \ {0} /\ UartFaults \in BOOLEAN
  /\ BootWheels \subseteq {"still", "forward", "reverse"}
ASSUME CapAssumption == QueueCap \in Nat /\ QueueCap >= 2

VARIABLES
  phase, mode, queue,
  act, due,            \* ActiveAction; its deadline has passed
  actId,               \* active_command_id, 0 for None
  rec, vel, esc,       \* safety_recovery_motion, active_velocity, active_escape
  wheels,              \* the Create's wheel output
  sensed, lastBump,    \* the latest readings; last_bump, "unset" at boot
  estop, latch, interlock, departure,
  withdrawal,          \* active_contact_withdrawal
  careful, beat,       \* careful_mode_until_ms and heartbeat_stop_at_ms
  told                 \* history: ids this step gave a terminal event

activeVars == <<act, due, actId, rec>>
outputVars == <<vel, esc, wheels>>
senseVars == <<sensed, lastBump>>
gateVars == <<estop, latch, interlock, departure>>
vars == <<phase, mode, queue, activeVars, outputVars, senseVars, gateVars,
          withdrawal, careful, beat, told>>

Cmd(k, i, r) == [kind |-> k, id |-> i, rec |-> r]
Commands == [kind : Kinds, id : Ids \cup {0}, rec : BOOLEAN]

\* Runtime::new and start: the acquisition script is queued, the wheels may
\* still be doing what they did before a restart.
Init ==
  /\ phase = "barrier" /\ mode = "running" /\ queue = <<Cmd("settle", 0, FALSE)>>
  /\ act = "none" /\ due = FALSE /\ actId = 0 /\ rec = FALSE
  /\ vel = "none" /\ esc = "none" /\ wheels \in BootWheels
  /\ sensed = {} /\ lastBump = "unset"
  /\ estop = FALSE /\ latch = "none" /\ interlock = FALSE /\ departure = FALSE
  /\ withdrawal = FALSE /\ careful = "off" /\ beat = "off" /\ told = {}

-----------------------------------------------------------------------------
(* Pieces of the handlers.                                                 *)

Senses(s) == s \in sensed
Outcomes == IF UartFaults THEN BOOLEAN ELSE {TRUE}

\* Motion is stopped before the home base or charging takes over; Stop is not
\* a motion command.
MotionKinds == Velocities \cup Escapes \cup {"drive"}
RequiresDeparture(c) == c.kind \in MotionKinds \ {"zero"}

\* MUTANT: the queue grows.
PushBack_Unbounded(q, c) == Append(q, c)

\* A full queue drops what is pushed: the Err of push_back is ignored.
PushBack(q, c) == IF Len(q) < QueueCap THEN Append(q, c) ELSE q
PushFront(q, c) == IF Len(q) < QueueCap THEN <<c>> \o q ELSE q
Without(q, kinds) ==
  LET Kept[n \in 0..Len(q)] ==
        IF n = 0 THEN <<>>
        ELSE IF q[n].kind \in kinds THEN Kept[n - 1] ELSE Append(Kept[n - 1], q[n])
  IN  Kept[Len(q)]
IdsOf(q) == {c.id : c \in ToSet(q)} \ {0}

\* stop_drive: wheels, velocity, escape and heartbeat together; an Err leaves
\* them as they are: v, e and b.
StopDrive(ok, v, e, b) ==
  /\ wheels' = (IF ok THEN "still" ELSE wheels)
  /\ vel' = (IF ok THEN "none" ELSE v)
  /\ esc' = (IF ok THEN "none" ELSE e)
  /\ beat' = (IF ok THEN "off" ELSE b)

\* The active command gets its terminal event and is no longer active.
Release == actId' = 0 /\ rec' = FALSE /\ told' = {actId} \ {0}
NoAction == act' = "none" /\ due' = FALSE

\* MUTANT: the interrupted command gets no terminal event.
Halt_Silent(q, ok) ==
  /\ actId' = 0 /\ rec' = FALSE /\ told' = {} /\ NoAction /\ queue' = q
  /\ wheels' = (IF ok THEN "still" ELSE wheels)
  /\ vel' = "none" /\ esc' = "none" /\ beat' = "off"

\* MUTANT: the queue and the action go, the wheels keep turning.
Halt_NoStop(q, ok) ==
  /\ Release /\ NoAction /\ queue' = q
  /\ vel' = "none" /\ esc' = "none" /\ beat' = "off" /\ UNCHANGED wheels

\* interrupt_active_command, replace the queue, no action, and a stop_drive
\* whose Err the caller ignores.
Halt(q, ok) ==
  /\ Release /\ NoAction /\ queue' = q
  /\ wheels' = (IF ok THEN "still" ELSE wheels)
  /\ vel' = "none" /\ esc' = "none" /\ beat' = "off"

\* enter_error, which also ends the tick: the queue q is kept.  InterruptError
\* is the same after interrupt_active_command.
EnterErrorWith(q, v, e, b) ==
  /\ \E ok \in Outcomes : StopDrive(ok, v, e, b)
  /\ Release /\ NoAction /\ queue' = q
  /\ withdrawal' = FALSE /\ mode' = "error" /\ phase' = "barrier"
EnterError(q) == EnterErrorWith(q, vel, esc, beat)
InterruptError(q) == EnterErrorWith(q, "none", "none", beat)

-----------------------------------------------------------------------------
(* The tick up to the safety policy.                                       *)

\* MUTANT: a new owner stops the reflex too.
LoseOwner_StopsReflex(from, to) ==
  /\ phase = from /\ phase' = to
  /\ careful' = "off"
  /\ \E ok \in Outcomes : Halt(<<>>, ok)
  /\ UNCHANGED <<mode, senseVars, gateVars, withdrawal>>

\* poll_session_replace, poll_authority_transition and, later in the tick,
\* take_expired_authority: the owner of the body goes away or changes.
LoseOwner(from, to) ==
  /\ phase = from /\ phase' = to
  /\ careful' = "off"
  /\ \/ withdrawal /\ beat' = "off" /\ told' = {} /\ UNCHANGED <<queue, activeVars, outputVars>>
     \/ ~withdrawal /\ \E ok \in Outcomes : Halt(<<>>, ok)
  /\ UNCHANGED <<mode, senseVars, gateVars, withdrawal>>

KeepOwner(from, to) ==
  /\ phase = from /\ phase' = to /\ told' = {}
  /\ UNCHANGED <<mode, queue, activeVars, outputVars, senseVars, gateVars,
                 withdrawal, careful, beat>>

Barrier == LoseOwner("barrier", "sense") \/ KeepOwner("barrier", "sense")

\* create_uart.poll, the link freshness check and the IMU.
Sense ==
  /\ phase = "sense" /\ phase' = "take" /\ told' = {}
  /\ sensed' \in SUBSET Sensors
  /\ careful' = (IF "link_lost" \in sensed' THEN "off" ELSE careful)
  /\ UNCHANGED <<mode, queue, activeVars, outputVars, lastBump, gateVars, withdrawal, beat>>

\* poll_control_command: nothing in the mailbox, or an ordinary command while
\* the reflex runs.
TakeNothing ==
  /\ phase = "take" /\ phase' = "careful"
  /\ \/ told' = {}
     \/ withdrawal /\ Offered \ {"stop", "estop", "disarm"} # {} /\ \E i \in Ids : told' = {i}
  /\ UNCHANGED <<mode, queue, activeVars, outputVars, senseVars, gateVars,
                 withdrawal, careful, beat>>

\* Stop, EStop, Disarm and RestartCreate replace everything; the wheels are
\* stopped when the queue runs, or now if the reflex was moving them.
Script(k, i) ==
  CASE k \in {"stop", "disarm"} -> <<Cmd("stop", i, FALSE)>>
    [] k = "estop" -> <<Cmd("estop", i, FALSE)>>
    [] k = "restart" -> <<Cmd("stop", i, FALSE), Cmd("settle", i, FALSE)>>

\* MUTANT: an E-stop leaves careful mode on.
TakePreempting_KeepsCareful(k, i) ==
  /\ phase = "take" /\ phase' = "careful"
  /\ k \in {"stop", "estop", "disarm", "restart"} /\ (withdrawal => k # "restart")
  /\ Release /\ NoAction /\ queue' = Script(k, i)
  /\ vel' = "none" /\ esc' = "none" /\ beat' = "off"
  /\ \E ok \in Outcomes : wheels' = (IF withdrawal /\ ok THEN "still" ELSE wheels)
  /\ withdrawal' = FALSE /\ mode' = "running"
  /\ UNCHANGED <<senseVars, gateVars, careful>>

TakePreempting(k, i) ==
  /\ phase = "take" /\ phase' = "careful"
  /\ k \in {"stop", "estop", "disarm", "restart"} /\ (withdrawal => k # "restart")
  /\ Release /\ NoAction /\ queue' = Script(k, i)
  /\ vel' = "none" /\ esc' = "none" /\ beat' = "off"
  /\ \E ok \in Outcomes : wheels' = (IF withdrawal /\ ok THEN "still" ELSE wheels)
  /\ careful' = (IF k = "stop" THEN careful ELSE "off")
  /\ withdrawal' = FALSE /\ mode' = "running"
  /\ UNCHANGED <<senseVars, gateVars>>

\* The CmdVels in the queue that a newer one has interrupted; a repeat of its
\* own id is left out.
Superseded(i) == {c.id : c \in {d \in ToSet(queue) : d.kind \in Velocities}} \ {0, i}

\* enqueue_latest_velocity: CmdVels in the queue give way.  The running
\* velocity again renews its deadline, another one interrupts it.
TakeVelocity(k, i) ==
  LET q == Without(queue, Velocities)
      c == Cmd(k, i, FALSE)
  IN
  /\ phase = "take" /\ phase' = "careful" /\ ~withdrawal /\ k \in Velocities
  /\ \/ /\ act = "driving" /\ vel = k
        /\ queue' = q /\ due' = FALSE /\ told' = Superseded(i)
        /\ UNCHANGED <<act, actId, rec, vel, esc>>
     \/ /\ act = "driving" /\ vel # k
        /\ queue' = PushFront(q, c)
        /\ NoAction /\ actId' = 0 /\ rec' = FALSE /\ vel' = "none" /\ esc' = "none"
        /\ told' = Superseded(i) \cup ({actId} \ {0})
     \/ /\ act # "driving"
        /\ queue' = PushBack(q, c) /\ told' = Superseded(i)
        /\ UNCHANGED <<activeVars, vel, esc>>
  /\ mode' = "running"
  /\ UNCHANGED <<wheels, senseVars, gateVars, withdrawal, careful, beat>>

\* An escape replaces the escapes in the queue; all else waits its turn.
TakeOrdinary(k, i) ==
  LET q == IF k \in Escapes THEN Without(queue, Escapes) ELSE queue
  IN
  /\ phase = "take" /\ phase' = "careful" /\ ~withdrawal
  /\ k \notin Velocities \cup {"stop", "estop", "disarm", "restart"}
  /\ queue' = PushBack(q, Cmd(k, i, k \in Escapes))
  /\ told' = (IdsOf(queue) \ IdsOf(q))
  /\ mode' = "running"
  /\ UNCHANGED <<activeVars, outputVars, senseVars, gateVars, withdrawal, careful, beat>>

Take ==
  \/ TakeNothing
  \/ \E k \in Offered, i \in Ids : TakePreempting(k, i) \/ TakeVelocity(k, i) \/ TakeOrdinary(k, i)

\* poll_sensor_stream may fail; then enforce_careful_mode_timeout stops the
\* body and latches what the sensors say at that moment.
Relatched ==
  IF Senses("wheel_drop") THEN "wheel_drop" ELSE IF Senses("cliff") THEN "cliff"
  ELSE IF Senses("tilt") THEN "tilt" ELSE IF Senses("bump") THEN "bump" ELSE "none"

CarefulTimeout ==
  /\ phase = "careful"
  /\ \/ /\ careful # "due"
        /\ phase' = "safety" /\ told' = {}
        /\ UNCHANGED <<mode, queue, activeVars, outputVars, gateVars, withdrawal, careful, beat>>
     \/ /\ careful = "due" /\ careful' = "off"
        /\ phase' = "safety" /\ Halt(<<>>, TRUE)
        /\ latch' = (IF Relatched # "none" THEN Relatched ELSE latch)
        /\ interlock' = (interlock \/ (Relatched = "none" /\ Senses("charging")))
        /\ UNCHANGED <<mode, estop, departure, withdrawal>>
     \/ /\ careful = "due" /\ UartFaults /\ careful' = "off"
        /\ InterruptError(<<>>) /\ UNCHANGED gateVars
     \/ /\ UartFaults /\ EnterError(queue) /\ UNCHANGED <<gateVars, careful>>
  /\ UNCHANGED senseVars

-----------------------------------------------------------------------------
(* enforce_safety_policy.                                                  *)

Bump == IF Senses("bump") THEN "down" ELSE "up"
\* The first observation is the baseline of the bumper's edge.
Baseline == IF lastBump = "unset" THEN Bump ELSE lastBump
FreshBump == Bump = "down" /\ Baseline = "up"
Falling == Senses("wheel_drop") \/ Senses("tilt")
Docked == Senses("home")
\* A departure that was not begun is forgotten once the body is off the dock.
DepartureKept == departure /\ Docked

\* What dominates an escape from a latch of this kind.
Dominating ==
  IF Senses("wheel_drop") THEN "wheel_drop" ELSE IF Senses("tilt") THEN "tilt"
  ELSE IF Senses("charging") \/ Docked THEN "charging"
  ELSE IF esc = "bump" /\ Senses("cliff") THEN "cliff"
  ELSE IF esc = "cliff" /\ Senses("bump") THEN "bump" ELSE "none"

\* The early returns of enforce_safety_policy, in their order.
SafetyBranch ==
  IF esc # "none" THEN "escape"
  ELSE IF careful = "on" THEN "careful"
  ELSE IF Docked /\ ~Falling THEN "dock"
  ELSE IF Senses("charging") /\ ~Falling THEN "charging"
  ELSE IF ~Falling /\ ~Senses("bump") /\ ~Senses("cliff") THEN "quiet"
  ELSE IF Senses("wheel_drop") THEN "wheel_drop"
  ELSE IF latch # "none" /\ ~(withdrawal /\ (Senses("tilt") \/ Senses("cliff"))) THEN "latched"
  ELSE IF Senses("tilt") THEN "tilt" ELSE IF Senses("cliff") THEN "cliff"
  ELSE IF FreshBump /\ vel = "forward" THEN "contact"
  ELSE "bump"

\* apply_safety_response with SafetyResponse::Stop.
Trip(kind) ==
  /\ latch' = kind
  /\ \/ Halt(<<>>, TRUE) /\ withdrawal' = FALSE /\ phase' = "beat" /\ UNCHANGED mode
     \/ UartFaults /\ InterruptError(<<>>)

\* A stop that fails returns before update_safety_edges.
SafetyEscape ==
  /\ SafetyBranch = "escape"
  /\ \/ Dominating # "none" /\ Trip(Dominating)
     \/ /\ Dominating = "none"
        /\ \/ Halt(<<>>, TRUE) /\ phase' = "beat" /\ UNCHANGED <<mode, withdrawal>>
           \/ UartFaults /\ InterruptError(<<>>)
        /\ UNCHANGED latch
     \/ /\ Dominating = "none" /\ latch = esc /\ Senses(esc) /\ ~estop /\ ~interlock
        /\ phase' = "beat" /\ told' = {}
        /\ UNCHANGED <<mode, queue, activeVars, outputVars, beat, latch, withdrawal>>
  /\ lastBump' = (IF phase' = "beat" THEN Bump ELSE Baseline)
  /\ departure' = DepartureKept
  /\ UNCHANGED <<estop, interlock, careful>>

SafetyCareful ==
  /\ SafetyBranch = "careful"
  /\ latch' = "none" /\ interlock' = FALSE /\ departure' = FALSE /\ lastBump' = Bump
  /\ phase' = "beat" /\ told' = {}
  /\ UNCHANGED <<mode, queue, activeVars, outputVars, estop, withdrawal, careful, beat>>

\* clear_motion_queue and stop_drive; nothing tells the owner of a command
\* that is dropped from the queue.
ClearMotion ==
  /\ queue' = Without(queue, MotionKinds)
  /\ IF act \in {"driving", "departure"} THEN Release /\ NoAction
     ELSE told' = {} /\ UNCHANGED activeVars
  /\ StopDrive(TRUE, vel, esc, beat)

SafetyDock ==
  LET settled == act = "departure" \/ DepartureKept
  IN
  /\ SafetyBranch = "dock"
  /\ latch' = (IF latch \in {"bump", "cliff"} THEN "none" ELSE latch)
  /\ \/ /\ settled /\ departure' = DepartureKept /\ interlock' = FALSE
        /\ phase' = "beat" /\ told' = {}
        /\ UNCHANGED <<mode, queue, activeVars, outputVars, withdrawal, beat>>
     \/ /\ ~settled /\ departure' = TRUE /\ interlock' = FALSE
        /\ ClearMotion /\ withdrawal' = FALSE /\ phase' = "beat" /\ UNCHANGED mode
     \/ /\ ~settled /\ UartFaults /\ departure' = DepartureKept
        /\ InterruptError(Without(queue, MotionKinds)) /\ UNCHANGED interlock
  /\ lastBump' = Baseline
  /\ UNCHANGED <<estop, careful>>

SafetyCharging ==
  /\ SafetyBranch = "charging"
  /\ \/ /\ interlock /\ phase' = "beat" /\ told' = {}
        /\ UNCHANGED <<mode, queue, activeVars, outputVars, withdrawal, beat, interlock>>
     \/ /\ ~interlock /\ interlock' = TRUE
        /\ ClearMotion /\ withdrawal' = FALSE /\ phase' = "beat" /\ UNCHANGED mode
     \/ /\ ~interlock /\ UartFaults
        /\ InterruptError(Without(queue, MotionKinds)) /\ UNCHANGED interlock
  /\ lastBump' = Baseline /\ departure' = DepartureKept
  /\ UNCHANGED <<estop, latch, careful>>

SafetyNothing ==
  /\ \/ SafetyBranch \in {"quiet", "latched"}
     \/ SafetyBranch = "wheel_drop" /\ latch = "wheel_drop"
  /\ phase' = "beat" /\ told' = {}
  /\ lastBump' = Bump /\ departure' = DepartureKept
  /\ UNCHANGED <<mode, queue, activeVars, outputVars, estop, latch, interlock, withdrawal,
                 careful, beat>>

SafetyStop ==
  /\ \/ SafetyBranch = "wheel_drop" /\ latch # "wheel_drop"
     \/ SafetyBranch \in {"tilt", "cliff", "bump"}
  /\ Trip(SafetyBranch)
  /\ lastBump' = Bump /\ departure' = DepartureKept
  /\ UNCHANGED <<estop, interlock, careful>>

\* MUTANT: the reverse is queued, the reflex is not recorded as active.
SafetyContact_NotRecorded ==
  /\ SafetyBranch = "contact" /\ latch' = "bump"
  /\ \/ /\ Halt(<<Cmd("reverse", 0, TRUE)>>, TRUE)
        /\ mode' = "running" /\ phase' = "beat" /\ UNCHANGED withdrawal
     \/ UartFaults /\ InterruptError(<<>>)
  /\ lastBump' = Bump /\ departure' = DepartureKept
  /\ UNCHANGED <<estop, interlock, careful>>

\* SafetyResponse::ContactWithdrawal: the reflex takes the body over.
Recovery == Cmd("reverse", 0, TRUE)
SafetyContact ==
  /\ SafetyBranch = "contact" /\ latch' = "bump"
  /\ \/ /\ Halt(<<Recovery>>, TRUE)
        /\ withdrawal' = TRUE /\ mode' = "running" /\ phase' = "beat"
     \/ UartFaults /\ InterruptError(<<>>)
  /\ lastBump' = Bump /\ departure' = DepartureKept
  /\ UNCHANGED <<estop, interlock, careful>>

Safety ==
  /\ phase = "safety"
  /\ \/ SafetyEscape \/ SafetyCareful \/ SafetyDock \/ SafetyCharging
     \/ SafetyNothing \/ SafetyStop \/ SafetyContact
  /\ UNCHANGED sensed

-----------------------------------------------------------------------------
(* The tick after the safety policy.                                       *)

\* enforce_heartbeat_stop.  The stop that begins the reflex has disarmed the
\* heartbeat and nothing arms it before the reflex ends: the first branch,
\* which is in the code, is never taken.
Heartbeat ==
  /\ phase = "beat"
  /\ \/ /\ beat # "due"
        /\ phase' = "full" /\ told' = {}
        /\ UNCHANGED <<mode, queue, activeVars, outputVars, withdrawal, careful, beat>>
     \/ /\ beat = "due" /\ careful' = "off"
        /\ IF withdrawal
           THEN /\ beat' = "off" /\ phase' = "full" /\ told' = {}
                /\ UNCHANGED <<mode, queue, activeVars, outputVars, withdrawal>>
           ELSE \/ Halt(<<>>, TRUE) /\ phase' = "full" /\ UNCHANGED <<mode, withdrawal>>
                \/ UartFaults /\ EnterErrorWith(<<>>, "none", "none", "off")
  /\ UNCHANGED <<senseVars, gateVars>>

MotorActive == act \in {"driving", "departure"}
InFull == ~Senses("link_lost") /\ ~Senses("not_full")

\* MUTANT: no refresh once the runtime is in error.
FullRefresh_NotInError ==
  /\ phase = "full" /\ ~MotorActive /\ mode # "error" /\ phase' = "expiry"
  /\ wheels' = "still" /\ told' = {}
  /\ UNCHANGED <<mode, queue, activeVars, vel, esc, senseVars, gateVars, withdrawal,
                 careful, beat>>

\* maintain_full_mode when its refresh is due and no motor program runs:
\* asserting Full mode zeroes the wheels of a Create 1.
FullRefresh ==
  /\ phase = "full" /\ ~MotorActive /\ phase' = "expiry"
  /\ wheels' = "still" /\ told' = {}
  /\ UNCHANGED <<mode, queue, activeVars, vel, esc, senseVars, gateVars, withdrawal,
                 careful, beat>>

\* The refresh is not due, is skipped (a motor program in Full mode, or a low
\* battery charging), or fails, as animate_supervision_lights may.
FullSkip == KeepOwner("full", "expiry")

FullError ==
  /\ phase = "full"
  /\ UartFaults \/ (MotorActive /\ ~InFull)
  /\ EnterError(queue)
  /\ UNCHANGED <<senseVars, gateVars, careful>>

Expiry == LoseOwner("expiry", "advance") \/ KeepOwner("expiry", "advance")

\* MUTANT: only a drive is ended by its deadline; a departure is passed over.
EndMotion_KeepsDeparture ==
  IF act = "driving"
  THEN /\ StopDrive(TRUE, vel, esc, beat) /\ NoAction /\ Release
       /\ withdrawal' = FALSE /\ phase' = "start" /\ UNCHANGED <<mode, queue>>
  ELSE /\ phase' = "barrier" /\ told' = {}
       /\ UNCHANGED <<mode, queue, activeVars, outputVars, withdrawal, beat>>

\* A drive or a departure has reached its deadline.
EndMotion ==
  /\ StopDrive(TRUE, vel, esc, beat) /\ NoAction
  /\ IF act = "driving" THEN Release /\ withdrawal' = FALSE
     ELSE told' = {} /\ UNCHANGED <<actId, rec, withdrawal>>
  /\ phase' = "start" /\ UNCHANGED <<mode, queue>>

\* advance_active_action: what has reached its deadline ends.  Only a running
\* runtime gets here; an idle one and one in error do nothing.
Advance ==
  /\ phase = "advance"
  /\ \/ /\ mode # "running" \/ (act # "none" /\ ~due)
        /\ phase' = "barrier" /\ told' = {}
        /\ UNCHANGED <<mode, queue, activeVars, outputVars, withdrawal, beat>>
     \/ /\ mode = "running" /\ act = "none"
        /\ phase' = "start" /\ told' = {}
        /\ UNCHANGED <<mode, queue, activeVars, outputVars, withdrawal, beat>>
     \/ /\ mode = "running" /\ due /\ MotorActive
        /\ EndMotion \/ (UartFaults /\ EnterError(queue))
     \/ /\ mode = "running" /\ due /\ act = "busy"
        /\ \/ /\ Release /\ NoAction /\ phase' = "start"
              /\ UNCHANGED <<mode, queue, outputVars, withdrawal, beat>>
           \/ UartFaults /\ EnterError(queue)
  /\ UNCHANGED <<senseVars, gateVars, careful>>

-----------------------------------------------------------------------------
(* start_next_command, and enter_idle when it leaves nothing to do.        *)

\* Done at once: the command completes, and an empty queue means enter_idle,
\* whose stop_drive also disarms the heartbeat.  b is the heartbeat before.
Complete(q, ids, b) ==
  /\ queue' = q /\ told' = ids \ {0} /\ UNCHANGED activeVars
  /\ mode' = (IF q = <<>> THEN "idle" ELSE mode) /\ phase' = "barrier"
  /\ \E ok \in Outcomes : StopDrive(q = <<>> /\ ok, vel, esc, b)

\* The popped command fails: enter_error gives it its terminal event.
Refuse(q, c, e) ==
  /\ \E ok \in Outcomes : StopDrive(ok, vel, e, beat)
  /\ queue' = q /\ told' = {c.id} \ {0} /\ UNCHANGED activeVars
  /\ withdrawal' = FALSE /\ mode' = "error" /\ phase' = "barrier"

StartNothing ==
  /\ queue = <<>> /\ Complete(<<>>, {}, beat)
  /\ UNCHANGED <<gateVars, withdrawal, careful>>

\* A motion command on the dock waits for the body to back off first.
DepartureDue == queue # <<>> /\ departure /\ RequiresDeparture(Head(queue))

StartDeparture ==
  /\ DepartureDue
  /\ \/ /\ Senses("charging")
        /\ phase' = "barrier" /\ told' = {}
        /\ UNCHANGED <<mode, queue, activeVars, outputVars, departure, withdrawal, beat>>
     \/ /\ ~Senses("charging") /\ ~Senses("link_lost")
        /\ departure' = FALSE /\ act' = "departure" /\ due' = FALSE
        /\ wheels' = "reverse" /\ vel' = "none" /\ beat' = "off"
        /\ phase' = "barrier" /\ told' = {}
        /\ UNCHANGED <<mode, queue, actId, rec, esc, withdrawal>>
     \/ /\ ~Senses("charging") /\ Senses("link_lost")
        /\ EnterError(queue) /\ UNCHANGED departure
     \/ /\ ~Senses("charging") /\ ~Senses("link_lost") /\ UartFaults
        /\ EnterErrorWith(queue, "none", esc, "off") /\ departure' = FALSE
  /\ UNCHANGED <<estop, latch, interlock, careful>>

StartStop(q, c) ==
  /\ c.kind \in {"stop", "estop", "zero"}
  /\ \/ /\ StopDrive(TRUE, vel, esc, beat) /\ queue' = q /\ told' = {c.id} \ {0}
        /\ estop' = (estop \/ c.kind = "estop")
        /\ mode' = (IF q = <<>> THEN "idle" ELSE mode) /\ phase' = "barrier"
        /\ UNCHANGED <<activeVars, withdrawal>>
     \/ UartFaults /\ Refuse(q, c, esc) /\ UNCHANGED estop
  /\ UNCHANGED <<latch, interlock, departure, careful>>

\* MUTANT: the E-stop latch is not asked.
MotionAllowed_NoEStop(c) ==
  /\ ~departure /\ ~interlock /\ ~Senses("link_lost")
  /\ latch = "none" \/ (c.rec /\ latch \in {"bump", "cliff"})

\* ensure_motion_allowed.
MotionAllowed(c) ==
  /\ ~estop /\ ~departure /\ ~interlock /\ ~Senses("link_lost")
  /\ latch = "none" \/ (c.rec /\ latch \in {"bump", "cliff"})

\* validate_escape_motion; the hazard may be of another generation by now, or
\* the contact on the other side.
EscapeOf(c) == IF c.kind = "escape_bump" THEN "bump" ELSE "cliff"
EscapeValid(c) ==
  /\ latch = EscapeOf(c) /\ Senses(EscapeOf(c)) /\ ~estop /\ ~interlock
  /\ ~Falling /\ ~Senses("charging")
  /\ ~(Senses("bump") /\ Senses("cliff"))

Direction(c) == IF c.kind \in {"forward", "drive"} THEN "forward" ELSE "reverse"

StartDrive(q, c) ==
  LET escape == c.kind \in Escapes
      e == IF escape /\ EscapeValid(c) THEN EscapeOf(c) ELSE esc
  IN
  /\ c.kind \in MotionKinds \ {"zero"}
  /\ \/ /\ MotionAllowed(c) /\ (escape => EscapeValid(c))
        /\ queue' = q /\ act' = "driving" /\ due' = FALSE
        /\ actId' = c.id /\ rec' = c.rec
        /\ vel' = (IF c.kind = "drive" THEN "none" ELSE Direction(c)) /\ esc' = e
        /\ wheels' = Direction(c) /\ phase' = "barrier" /\ told' = {}
        /\ UNCHANGED <<mode, withdrawal, beat>>
     \/ /\ ~MotionAllowed(c) \/ escape \/ UartFaults
        /\ Refuse(q, c, e)
  /\ UNCHANGED <<gateVars, careful>>

\* Wake, sleep, StartOi and SetMode keep the runtime busy for a while.
StartSettle(q, c) ==
  /\ c.kind = "settle"
  /\ \/ /\ queue' = q /\ act' = "busy" /\ due' = FALSE /\ actId' = c.id /\ rec' = c.rec
        /\ phase' = "barrier" /\ told' = {}
        /\ UNCHANGED <<mode, outputVars, withdrawal, beat>>
     \/ UartFaults /\ Refuse(q, c, esc)
  /\ UNCHANGED <<gateVars, careful>>

\* clear_safety_latch with the kind the command names: a latch outlives its
\* command while the body still reports the hazard.
ClearLatch(kind) ==
  IF kind = "charging" /\ interlock
  THEN interlock' = FALSE /\ UNCHANGED latch
  ELSE /\ latch' = (IF latch = kind /\ ~Senses(kind) THEN "none" ELSE latch)
       /\ UNCHANGED interlock

LatchKinds == {"bump", "cliff", "wheel_drop", "tilt", "charging"}

StartImmediate(q, c) ==
  \/ /\ c.kind = "clear_estop" /\ estop' = FALSE
     /\ Complete(q, {c.id}, beat)
     /\ UNCHANGED <<latch, interlock, departure, withdrawal, careful>>
  \/ /\ c.kind = "clear_latch" /\ (\E kind \in LatchKinds : ClearLatch(kind))
     /\ Complete(q, {c.id}, beat)
     /\ UNCHANGED <<estop, departure, withdrawal, careful>>
  \/ /\ c.kind = "careful" /\ ~Senses("link_lost") /\ ~estop
     /\ careful' = "on" /\ latch' = "none" /\ interlock' = FALSE /\ departure' = FALSE
     /\ Complete(q, {c.id}, beat)
     /\ UNCHANGED <<estop, withdrawal>>
  \/ /\ c.kind = "careful" /\ (Senses("link_lost") \/ estop)
     /\ Refuse(q, c, esc)
     /\ UNCHANGED <<gateVars, careful>>
  \/ /\ c.kind = "heartbeat"
     /\ Complete(q, {c.id}, "armed")
     /\ UNCHANGED <<gateVars, withdrawal, careful>>
  \/ /\ c.kind = "clear_queue"
     /\ Complete(Without(q, MotionKinds), {c.id}, beat)
     /\ UNCHANGED <<gateVars, withdrawal, careful>>
  \/ /\ c.kind = "other"
     /\ \/ Complete(q, {c.id}, beat) /\ UNCHANGED withdrawal
        \/ UartFaults /\ Refuse(q, c, esc)
     /\ UNCHANGED <<gateVars, careful>>

Start ==
  /\ phase = "start"
  /\ \/ StartNothing \/ StartDeparture
     \/ /\ queue # <<>> /\ ~DepartureDue
        /\ LET c == Head(queue)
               q == Tail(queue)
           IN  StartStop(q, c) \/ StartDrive(q, c) \/ StartSettle(q, c) \/ StartImmediate(q, c)
  /\ UNCHANGED senseVars

-----------------------------------------------------------------------------
(* Deadlines pass at any time.                                             *)

ActionDue ==
  /\ act # "none" /\ ~due /\ due' = TRUE /\ told' = {}
  /\ UNCHANGED <<phase, mode, queue, act, actId, rec, outputVars, senseVars, gateVars,
                 withdrawal, careful, beat>>
CarefulDue ==
  /\ careful = "on" /\ careful' = "due" /\ told' = {}
  /\ UNCHANGED <<phase, mode, queue, activeVars, outputVars, senseVars, gateVars,
                 withdrawal, beat>>
BeatDue ==
  /\ beat = "armed" /\ beat' = "due" /\ told' = {}
  /\ UNCHANGED <<phase, mode, queue, activeVars, outputVars, senseVars, gateVars,
                 withdrawal, careful>>

Tick == \/ Barrier \/ Sense \/ Take \/ CarefulTimeout \/ Safety \/ Heartbeat
        \/ FullRefresh \/ FullSkip \/ FullError \/ Expiry \/ Advance \/ Start
Clock == ActionDue \/ CarefulDue \/ BeatDue
Next == Tick \/ Clock

Spec == Init /\ [][Next]_vars

\* The runtime ticks for ever, time passes, the Full mode refresh comes round
\* again and again, and a line that fails now and then does not fail for ever.
FairSpec ==
  /\ Spec /\ WF_vars(Tick) /\ WF_vars(ActionDue) /\ SF_vars(FullRefresh)
  /\ SF_vars(CarefulTimeout /\ phase' = "safety")
  /\ SF_vars(Safety /\ phase' = "beat")
  /\ SF_vars(Heartbeat /\ phase' = "full")

-----------------------------------------------------------------------------
(* Properties.                                                             *)

Moving == wheels # "still"
Phases == {"barrier", "sense", "take", "careful", "safety", "beat", "full", "expiry",
           "advance", "start"}

TickTypes == phase \in Phases /\ mode \in {"running", "idle", "error"}
QueueTypes == queue \in Seq(Commands)
ActiveTypes ==
  /\ act \in {"none", "busy", "driving", "departure"} /\ due \in BOOLEAN
  /\ actId \in Ids \cup {0} /\ rec \in BOOLEAN
OutputTypes ==
  /\ vel \in {"none", "forward", "reverse"} /\ esc \in {"none", "bump", "cliff"}
  /\ wheels \in {"still", "forward", "reverse"}
SenseTypes == sensed \subseteq Sensors /\ lastBump \in {"unset", "up", "down"}
GateTypes ==
  /\ estop \in BOOLEAN /\ latch \in LatchKinds \cup {"none"}
  /\ interlock \in BOOLEAN /\ departure \in BOOLEAN
TimerTypes ==
  /\ withdrawal \in BOOLEAN /\ careful \in {"off", "on", "due"}
  /\ beat \in {"off", "armed", "due"} /\ told \subseteq Ids

\* The runtime's fields have their types, and the queue keeps to its capacity.
TypeOK ==
  /\ TickTypes /\ QueueTypes /\ ActiveTypes /\ OutputTypes /\ SenseTypes /\ GateTypes
  /\ TimerTypes /\ Len(queue) <= QueueCap

\* A drive runs only while nothing forbids it: whatever latches, in whatever
\* step of the tick, has ended the drive in the same step; only a recovery
\* motion goes on under the bump or cliff it recovers from.
DriveGated ==
  act = "driving"
    => ~estop /\ ~interlock /\ (latch = "none" \/ (rec /\ latch \in {"bump", "cliff"}))

\* The contact reflex is carried out or ended, never forgotten: while it is
\* active, its reverse runs or is about to, alone in the queue.
WithdrawalCarriedOut ==
  withdrawal =>
    \/ act = "driving" /\ rec /\ vel = "reverse" /\ esc = "none"
    \/ /\ act = "none" /\ queue = <<Recovery>> /\ ~Moving
       /\ phase \in {"beat", "full", "expiry", "advance", "start"}

\* The reverse that needs no lease moves the body only for an active reflex.
ReflexOnly == act = "driving" /\ rec /\ esc = "none" => withdrawal

\* Careful mode neither bypasses an E-stop nor preempts the contact reflex.
CarefulExcluded == careful = "on" => ~estop /\ ~withdrawal

\* A command that was active and no longer is has been given its terminal event.
RunningClosed == [][actId # 0 /\ actId' # actId => actId \in told']_vars

\* A Stop that was taken from the mailbox is not lost: when it leaves the queue,
\* run or thrown out, the wheels stand still.
Waits(kind) == \E c \in ToSet(queue) : c.kind = kind
StopHonoured == [][Waits("stop") /\ ~Waits("stop")' => wheels' = "still"]_vars

\* "Keep every E-stop latched": an E-stop that was taken from the mailbox leaves
\* the queue only to be latched.
EStopKept == [][Waits("estop") /\ ~Waits("estop")' => estop']_vars

\* What the body does of its own accord, the contact reflex and the departure
\* from the dock, comes to an end: no host waits for it, only the tick ends it.
ManoeuvresEnd == /\ withdrawal ~> ~withdrawal
                 /\ act = "departure" ~> act # "departure"

\* Wheels that no action owns, after a stop that failed or a restart of the
\* runtime, come to rest or get an owner.
UnownedMotionEnds == (Moving /\ ~MotorActive) ~> (~Moving \/ MotorActive)
=============================================================================
