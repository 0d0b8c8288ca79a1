# A TLA+ model of Pete's control path

Pete is a robot on an iRobot Create base. Three computers think for it. The
*brainstem* is the firmware that sits between the Create and everything else: it
runs on a Pico W (two cores) or on a Raspberry Pi 5 (two threads), takes commands
from a possessing host, and is the last to decide whether the wheels turn. The
*motherbrain* is the host that normally possesses it; the *forebrain* is the
larger one that trains models for it and steps in when it is gone. This
directory models who may move the body, how a command gets to it and what
becomes of it, how the two hosts pass the body to each other, and how a model
gets from experience to the robot and back without being lost on the way.

Source paths below are relative to `src/crates/pete-brainstem/src/` unless they
begin with `src/`. `PROJECT.json` holds the line-by-line map, the runs, the
mutants, the hazards and the findings.

## 1. Inventory

The repository is a Rust workspace of about fifty crates. What matters here is
which parts have control state of their own.

| part | state | operations | interacts by | hard behaviour | what makes it correct | here |
|---|---|---|---|---|---|---|
| command mailbox (`status/commands.rs`, `status/state.rs`) | one command slot, one CmdVel slot, the active-stream words, all static atomics | submit, preempt, take, mark/clear stream | written by the transport lane, read by the runtime lane, no lock | every word is a separate store | nothing torn, nothing lost, a Stop gets through | `CommandMailbox` |
| sessions and authority (`session.rs`, `status/commands.rs`, `arch/pico_w/*`, `rpi5_control.rs`, `runtime/lifecycle.rs`) | active session, diagnostic slots, control lease, service lease, pending transitions | hello, acquire, renew, expire, revoke | request/acknowledge generations between the lanes, 250 ms waits | late acknowledgements, retries, take-over, expiry | one owner at a time, hand-over over a stopped body | `BrainstemAuthority` |
| runtime tick (`runtime.rs`, `runtime/*`) | queue of 16, active action, latches, timers, reflex | one tick per 10 ms | mailbox, authority, UART, sensors | order inside the tick, UART errors at every step | gates on motion, terminal events, reflex and departure end | `BrainstemRuntime` |
| public event ring (`status/events.rs`, cockpit `EventCursor`) | 128 records, sequence counters, the host's cursor | record, collect, poll, resync | written by both lanes, read over the transport | read-modify-write from two lanes, lost answers, a ring that goes round | every event once, in order, or reported missed | `EventRing` |
| possession (`src/crates/pete-cockpit/src/cockpit/possession/session.rs`) | motor gate, lease, the call under way | execute, renew, retry, recover, exorcize, drop | requests to the brainstem | lost answers, busy bodies, leases that end between two exchanges | no command twice, no velocity before recovery, the retry returns | `MotherbrainPossession` |
| failover (`src/crates/pete-higher-brain/src/failover.rs`) | per host: state, timers, generation | one tick per poll | peer heartbeats, the brainstem's possession surface | ageing observations, crashes, flapping links | one controller, on a lease; somebody serves; handback | `HostFailover` |
| jobs (`src/crates/pete-higher-brain/src/job.rs`) | one JSON record per job, an inbox | enqueue, run, cancel, retry, recover | files shared by worker and commands, no lock | stale copies, deaths between two writes | one run per submission or retry, nothing starves | `ForebrainJobs` |
| candidate store (`src/crates/pete-higher-brain/src/candidate.rs`) | two directories, two symlinks, records | receive, validate, stage, activate, roll back | files | a command dies between two renames | the model served is an approved one and is never lost | `CandidateStore` |
| consolidation (`src/crates/pete-higher-brain/src/coordinator.rs`) | one cycle, in memory and on disk | start, tick, approve | calls to a backend | failing calls and saves, restarts, lost power | phases in order with one forebrain, activation only as agreed | `Consolidation` |
| sleep controller (`src/crates/pete-runtime/src/sleep.rs`) | session, plan, 4096 consumed inputs | one tick per cycle | the motherbrain's runtime | interruption, deferral, a record that forgets | what is recorded was done, sleeping ends | `SleepController` |
| motherbrain reset (`runtime/command_queue.rs:138-259`) | pulse, cooldown, 16 replay records | request, poll, replay | - | - | - | not modelled: no host command decodes to it |
| network (`dhcp.rs`, `icmp.rs`, `network_registry.rs`) | lease and name tables | DHCP handlers, registration | UDP | duplicated packets, full tables | one address per peer | not modelled |
| auditory annunciator (`audio.rs`) | cue queue by priority | request, poll | runtime | - | urgent cue first | not modelled: sequential |
| drivers and boards (`drivers/*`, `arch/*`) | registers, byte parsers | UART, IMU, LEDs | runtime | I/O errors | - | inputs of the models |
| bundle transfer (`src/crates/pete-higher-brain/src/transfer.rs`, `bundle.rs`) | partial files | send, resume, verify | SFTP, files | interrupted copies | complete or absent | not modelled |
| events, ledger (`src/crates/pete-events`, `pete-ledger`) | event types, a log file | dispatch, append | in process | - | - | not modelled |
| UPS (`src/crates/pete-ups`) | - | assess | I2C | - | - | not modelled: a pure assessment; `Consolidation` takes its result as input |
| conductor, actions, memory, now, skills, cognition, behaviors, experience, autonomic | goals, world model | per tick | in process | heuristics | - | not modelled: numeric and heuristic |
| models, neat, training, sim, map, worldlab | weights, physics | - | - | floating point | - | not modelled |
| sensors, perception, mouth, server, ui, tools, llm, body | devices, HTTP | - | - | I/O | - | not modelled |

Two lanes run at once and share nothing but atomics: the *transport lane*
(embassy executor on core 0, or one control thread) handles one request at a
time, blocking for up to 250 ms; the *runtime lane* (core 1, or the main thread)
runs `Runtime::tick` for ever. Along the way of a command there are five parts:

    HostFailover -> MotherbrainPossession -> BrainstemAuthority -> CommandMailbox -> BrainstemRuntime -> wheels
    which host?     sent how often?          may it?               does it arrive?   what becomes of it?
                                                                                     |
                    the host hears of it  <-  EventRing  <---------------------------+

and along the way of a model there are four:

    SleepController   Consolidation        ForebrainJobs        CandidateStore
    what to work on   phase by phase  <->  one run per job  ->  one model at a time

## 2. Modules

| module | what it is |
|---|---|
| `CommandMailbox` | the two slots at the grain of single loads and stores |
| `HandoverBuffer` | abstract specification: a one-place buffer |
| `MailboxProofs` | types; a quiet Stop is delivered; exact hand-over; refinement of `HandoverBuffer` |
| `BrainstemAuthority` | sessions, leases and barriers of both lanes |
| `AuthorityProofs` | types; service excludes control; hand-over over a stopped body; the body moves for its owner; a command that comes under a lapsed lease is refused |
| `BrainstemRuntime` | one tick, call by call, with UART faults |
| `RuntimeProofs` | types; gates on drives; terminal events; the contact reflex; careful mode; Stops honoured |
| `EventRing` | the ring at the grain of its atomics, two recorders, one paging reader and its cursor |
| `MotherbrainPossession` | one call of the host's possession, exchange by exchange |
| `HostFailover` | both hosts' failover machines, the links between them, the body's lease |
| `HostProofs` | failover: types, control by grant and by lease, acquisition of a free body; ring: types, exact and ordered delivery; the types of `MCHosts` |
| `ForebrainJobs` | worker and commands as processes on one directory |
| `JobProofs` | types; runs are authorised, one more at most where submissions overlapped; records are truthful |
| `CandidateStore` | the store rename by rename, with commands that die |
| `ActiveModel` | abstract specification: one model is served, changed in one step by an operator |
| `CandidateProofs` | types; records agree with links; the old model is kept; refinement of `ActiveModel` |
| `Consolidation` | the cycle in memory and on disk, call by call |
| `ConsolidationProofs` | types; each phase follows; progress is durable; the types of `MCHigherBrain` |
| `SleepController` | one tick of the sleep lifecycle |
| `MotherbrainProofs` | possession: types, a call moves the body once, recovery before driving; sleep: types, what is recorded was done |
| `MCMailbox`, `MCAuthority`, `MCRuntime` | the definitions the configurations use |
| `MCHigherBrain` | jobs, candidates and consolidation as parts of one run |
| `MCHosts` | failover, ring, possession and sleep as parts of one run |

`MCHigherBrain` and `MCHosts` put modules that share no variable side by side: a
behaviour picks one part at its start and moves only that one, so a run explores
the sum of the parts and not their product.

### CommandMailbox

`slot` is `PENDING_COMMAND_*`, `vel` is `PENDING_VELOCITY_*`, `stream` is
`ACTIVE_VELOCITY_STREAM*`. `sub` is the program counter and registers of
`submit_control_command_with_service_identity`, `take` those of
`take_control_command`; there is an action for every load or store the other
lane can observe (`SubmitStoreId`, `SubmitStoreWord`, `SubmitStoreKind`,
`TakeLoadWord`, `TakeClear`, ...). The payload words A to D, duration, sequence
and service hashes are `Words` equal words; a command's words all carry its
payload, so that a torn hand-over shows. Three pairs of adjacent accesses of
one lane are one action where nothing the other lane does in between can tell
(KIND and ID at the Busy check; KIND and renewal flag when a Stop clears the
CmdVel slot; the words of `matching_velocity_stream`). `offer`, `accepted`,
`rejected`, `interrupted`, `handed`, `velHanded`, `quiet` and the `owner` field
are history.

`HandoverBuffer` is a place that is empty or holds a command, a `Put` and a
`Get`. `SlotIsBuffer` says that the command slot, seen through whole commands,
implements it: the two KIND stores are the linearisation points.

### BrainstemAuthority

`tpc` is the transport lane's handler (`handle_handshake_json`,
`handle_authority_compact`, `install_service_authority`), `rpc` the runtime's
place among the calls of a tick that decide ownership: `poll_session_replace`,
`poll_authority_transition`, the command take, the safety policy, the
heartbeat, `take_expired_authority`, the motion deadline. Request and
acknowledgement are separate steps on both sides, as in the code: the request
stores its words, then publishes a generation; the runtime acts, then loads the
words *again* in `acknowledge_authority_transition`, then acknowledges. A wait
that runs out (`TransitionTimeout`, `HelloTimeout`) leaves the request pending.
Tokens are generations (the hash of a lease id names its generation and
session, so it is represented by it); expiry is a flag `leaseLive` that the
clock clears at any time and a request for a lease sets, because
`request_authority_transition` writes the shared expiry before it is granted.
A command is admitted word by word: `Command` checks the session and takes the
ids it carries into the handler's registers, `Check` is one load of
`active_authority_matches` at a time (expiry, lease id, lease session), and
`SubmitMotion` or `SubmitHeartbeat` stores into the mailbox, each a step of its
own, so that the clock and the runtime lane come in between. `late` remembers
whether the lease had run out when the command came.
The body is reduced to who moves it: `queued`, `moving` and `mail` hold the
lease a command was admitted under. A contact withdrawal may begin when the
safety policy runs, a heartbeat may arm.

### BrainstemRuntime

`phase` is the place in `Runtime::tick`. Each step is one of its calls:
barriers, `poll` (link and sensors), `poll_control_command`,
`enforce_careful_mode_timeout`, `enforce_safety_policy`,
`enforce_heartbeat_stop`, `maintain_full_mode` and the lights,
`take_expired_authority`, `advance_active_action`, `start_next_command` with
`enter_idle`. An `Err` anywhere ends the tick in `enter_error`, which keeps the
queue, as in the code. Inputs are free: every tick may bring any offered
command, any subset of the sensors, a new owner or none, and a deadline
(`ActionDue`, `CarefulDue`, `BeatDue`) may pass between any two calls.
With `UartFaults` any write to the Create may fail; a `stop_drive` that fails
leaves the wheels as they were, and the callers that ignore its `Err` go on.

Commands are abstracted to what they do to this state: `forward`, `reverse`,
`zero` (CmdVel), `drive` (DriveDirect, DriveArc, bounded drives),
`escape_bump`/`escape_cliff`, `settle` (anything that keeps the runtime busy:
power pulse, wake, mode change; a script's commands are taken as one such step),
`other` (done at once). Sensors likewise: `tilt` is a held tilt or an impact,
`link_lost` a stale Create link, `not_full` an OI mode other than Full. Commands
taken and not among those the runtime knows (`_ => None`) leave the state as a
tick without a command does.

### EventRing

`next` is `EVENT_NEXT_SEQ`, `ring` the slots with their `EVENT_SEQ`, `EVENT_KIND`
and data words. `recorder` is where each lane stands in `record_public_event`
(reserve by load, store the next number, data, kind, publish the sequence
number); `reader` is the answer of `collect_events_since` under way, scanning by
number and loading kind and data separately. `Accept`, `Refuse` and `Resync` are
the host: `EventCursor::poll`, `ensure_no_missed_events` and
`resync_event_cursor_from_status`. An answer may be lost (`LoseAnswer`). The
guarantees are stated for events whose lanes did not write one slot at a time
(`collided`), which the ring does not defend against.

### MotherbrainPossession

`call` is the call under way: operation, step, attempt and whether the lease was
renewed for it. One action per exchange: `Renew` (`maintain`), `Exchange`
(`execute_with_busy_retry` with its answers: accepted, busy, lease rejected,
refused, lost), `Wait`, `CheckSafety` and `Reopen` (`reopen_gate_if_safety_clear`).
The brainstem is external: the lease may end, a rival may take the body and a
latch may trip between any two exchanges, and a lost answer leaves open whether
the request was applied.

### HostFailover

`machine` holds the fields of `HostFailover` that later ticks read, with instants
as ages that stop at `Horizon`. `Tick(h, ...)` is the whole of `tick`:
`MotherbrainTick` and `ForebrainTick` are its two halves, branch by branch.
`seen` is the last poll of the possession surface and of the peer, `requests`
and `replies` are acquisitions under way, `body` the brainstem's lease. Faults
(a late tick, a tick on an old poll, a crash and restart with a new boot
identity, a link that changes, a lost reply) are limited by `MaxFaults`. The
body's generations count from 1 and are not bounded by a constant: a lease runs
out without a fault when it is no longer than the time between two renewals, so
no number of faults limits them in general. 0 (`NoGeneration`) is what a host
knows before it has acquired anything.

### ForebrainJobs, CandidateStore, Consolidation

All three are programs that write files by atomic rename and may die between any
two renames. In `ForebrainJobs` the worker and one operator command run at once,
each with its own copy of the record it holds; `credit` counts the jobs first
recorded and the retries against the runs begun. A submission saved over a record
that exists by then earns nothing, so the run it leads to goes below zero;
`overlapped` remembers the jobs where two submissions looked for a record before
either had saved one, the only way the code lets that happen. In
`CandidateStore` commands run one at a time, copies may go bad on disk, and
validation is repeated where the code repeats it; `approved` is what operators
have given `--approve` for, whether or not the activation then went through.
`ActiveModel` is what the operator may rely on: a model is chosen when its copy
is whole (`Chosen` is the target of the command under way) and approved, and the
served model changes in one step, to the one chosen; copies may go bad in
between, as they may on disk. In `Consolidation` `cycle`
is the coordinator's memory and `saved` its file; a save may fail and leave the
two apart. The backend is a trait, so its calls are external and leave `effects`.

### SleepController

`SleepTick` is `tick`: start, interrupt, proceed through the phases, execute the
plan's items under the inputs of that tick, finish. `consumed` is the bounded
record, oldest first. Three histories are compared with it: `done`, the planned
inputs of the items that completed; `worked`, what those items really took up
(`TakenUp`: training its plan, consolidation and replay whatever their tick
offers, `sleep.rs:1034` to `:1051`); and `again`, what they took up although it
was recorded. `ExecutePhase` runs the items of a phase in the order of the plan; `Recorded` is the loop of
`finish_session` over the inputs of the items that completed (`Consumption`),
`MarkConsumed` its body, which drops the oldest input when the record is full.
The budget reservation is left out because a plan never exceeds it.

## 3. Runs

| run | configuration | shows |
|---|---|---|
| `mailbox_busy` | 3 ids, 2 payloads, 2 words, ordinary commands and CmdVels, fair | `HandedExactly`, `SlotIsBuffer`, `EventuallyTaken`: while nothing may overwrite a pending command the slot is exact |
| `mailbox_stop` | 3 ids, every kind | `QuietStopDelivered`: overwriting Stops are delivered if stored between takes |
| `authority_handover` | motherbrain and recovery forebrain, 2 sessions, 2 leases | `HandsOverStopped`, `MovesForOwner`, `LapsedNeverAdmitted` |
| `authority_late` | motherbrain and service tool, waits run out, 2 sessions, 2 leases, fair | `ServiceExcludesControl`, `LapsedLeaseEnds` |
| `runtime_motion` | 5 sensors, 10 kinds of command, queue of 2 | `TypeOK`, `WithdrawalCarriedOut`, `ReflexOnly`, `StopHonoured` |
| `runtime_faults` | 5 sensors, careful mode, heartbeat, E-stop, UART faults | `DriveGated`, `CarefulExcluded`, `RunningClosed` |
| `runtime_liveness` | 2 sensors, UART faults, wheels turning at boot, fair | `ManoeuvresEnd`, `UnownedMotionEnds` |
| `higher_brain` | 2 candidates, 2 jobs, 2 forebrains and 2 cycles; one death, one retry, three faults; fair | all: `HigherTypeOK`; candidates: `RecordsAgree`, `SelectsApprovedModel` (the refinement), `SwitchKeepsOld`; jobs: `RunsAreAuthorised`, `RecordsTruthful`, `JobsAreServed`; cycle: `EachPhaseFollows`, `DurableProgress`, `CycleGoesOn` |
| `hosts` | 4 links, one fault; ring of 2 with 3 events and a lost answer; 4 attempts; 1 episode, 1 failure; fair | all: `HostsTypeOK`; failover: `ControlsByGrant`, `ContinuesOnLease`, `AsksForFreeBody`, `BodyIsServed`; ring: `DeliversExact`, `OnceInOrder`, `CatchesUp`; possession: `AppliedOnce`, `DrivesAfterRecovery`; sleep: `WorkRecorded`, `SettlesAwake` |
| `runtime_estop_lost` | cliff, forward, E-stop | violated: `EStopKept` |
| `event_hole` | ring of 2, 4 events | violated: `NoHole` |
| `possession_panic` | 3 attempts | violated: `BusyRetryReturns` |

The types of the mailbox and of the authority have no run of their own: they are
theorems (section 4).

Every property of a passing run has a mutant: a named variant of one definition
of the model, a change a programmer could make by mistake (a dropped early
return, a store in the wrong order, a forgotten reset), that breaks it.

**Bounds.** Three mailbox ids are one pending, one being submitted and one
being taken; two payloads tell a torn hand-over from a whole one, and two words
give the stores an order. Two sessions and two leases give an owner, a
take-over and a renewal or second take-over, with a stale request of each still
pending; `DiagnosticSlots = 1` stands for the table being full. A queue of two
holds a running script's next step and one command behind it, and is reached
full; the code's 16 adds only longer waits. One command id suffices where the
property does not compare ids of two commands (`0` is the runtime's own).
Two candidates are one serving and one replacing it; two jobs one running and
one behind it, of which one is come back to (`Named`), since the property counts
per job; two cycles show what one leaves to the next. A ring of two goes round
with the third event, and a batch of one makes every answer a page. Failover's
thresholds are small but keep the order of the defaults that matters (freshness
within a lease, grace the longest), and one fault of any kind comes at any
moment; the forebrain's own association is not fragile, so that both liveness
premises can be met. Three or four busy attempts stand for the code's limit: the
last, the one before and the rest. The two references make five pairs of input
and work, one more than the record holds, so that it overflows; the episode is on
offer in every tick, the failure now and then, so that plans and offers differ.
No run uses a state constraint: the bounds are guards (`MaxSessions`,
`MaxLeases`, `MaxDeaths`, each id offered once) or capacities. Deadlock checking
is on except in `hosts`, `event_hole` and `possession_panic`: a ring comes to
rest when its events are recorded and read, and a dropped or panicked possession
makes no more calls.

**Fairness.** *Mailbox*: each lane that has begun takes its next step
(`WF` of `TransportStep`, `TakeStep`): both are straight-line code. *Authority*:
the runtime ticks for ever, a handler's wait ends, a motion deadline passes;
nothing says that a host ever renews, or that a lease expires. *Runtime*:
`WF(Tick)`, since the loop never blocks; `WF(ActionDue)`, since time passes;
`SF(FullRefresh)`, since the refresh is due every period whatever else happens
(it is withheld while a low battery charges, which the sensors of that run leave
out); and `SF` of the fault-free outcomes of the three calls before it, which
says that a UART that fails now and then does not fail in every tick. Nothing is
assumed of the host or of the sensors. *Jobs*: the worker service is restarted
and goes on (`WF(WorkerStep)`), nothing of the commands. *Cycle*: the motherbrain
restarts, calls `tick` periodically, and the robot is on its dock again sooner
or later. *Failover*: `SF` of a tick at a safe command boundary, since the hosts
tick periodically and a command ends; requests arrive; time passes. *Ring*: each
lane finishes a record it began, polls are answered and taken. *Possession*: a
call under way goes on. *Sleep*: the runtime ticks.

## 4. Proofs

All theorems hold for every value of the constants under the named assumptions
of the module (finite sets of kinds, natural bounds), with no bound on the
number of ids, hosts, sensors or commands.

**Mailbox.**

* `MailboxTypeCorrect`, `QuietStopsDelivered`. The invariant adds to the
  property what the lanes' registers say about the slot: which fields have been
  stored at `next`, and who owns the slot while a take is between its load of
  KIND and its store. The Busy check makes everything but a Stop keep out of a
  full slot, so a quiet Stop can leave it through `TakeClear` or another Stop
  only.
* `AlwaysHandedExactly`, `SlotImplementsBuffer`, under `OnlyWaiting`: no command
  is offered that overwrites a full slot, and no heartbeat. That is what
  `mailbox_busy` offers; a preempting command stores over a command that is being
  taken, and then hand-over is not exact. `HandInv` says what keeps the lanes
  apart: a submit stores while the slot is empty and finds there what it stored
  (`StoresAlone`), a take has copied the words it loaded from the command still
  in the slot (`TakesCopy`), the pending command is a whole one that was offered
  and not handed over (`SlotExact`), and each command the slot admitted is in
  exactly one place (`Fates`). The refinement goes action by action: only the
  KIND stores of the two lanes change the abstract buffer.

**Authority.**

* `ServiceNeverWithControl`. The invariant orders generations: acknowledged is
  at most requested, a request not yet published is newer than both. A service
  lease is stored by the handler only while its own generation is the one
  acknowledged, and that acknowledgement has cleared the control lease; any
  later control lease is acknowledged with a newer generation and clears the
  service lease. It needs no hypothesis on the waits.
* `LeaseHandedOverStopped`. Under `~Timeouts`: the pending words cannot change
  between the runtime's comparison and its acknowledgement, so an acknowledged
  lease of another session follows a stop in the same barrier.
* `BodyMovesForOwner`, `LapsedLeaseNeverAdmits`, also under `~Timeouts`: after a
  wait that ran out, a request that nobody awaits has already moved the shared
  expiry. `MovesForOwner` speaks of the drive only; the invariant (`OwnerInv`)
  needs the queue, the mailbox and the transition about to be acknowledged
  (`BodyOwned`), and has to hold for an expired lease too, which the next
  request revives. It adds that nothing in the body or the leases is newer than
  the last generation handed out (`NothingNewer`), so a request is for a lease
  nobody has seen (`AwaitedIsFresh`), and that a lapsed lease looks live only
  while a request is awaited (`RevivedIsAwaited`), when the one handler that
  would admit a command waits. Of a command under check it says that it carries
  its lease's session and that, past the last load, its session still owns the
  lease or the lease was revoked since (`CheckedForOwner`), and that one that came
  under a lapsed lease does not get past the load of the lease id
  (`LateIsRefused`): if the expiry looks live by then, it is another lease's.
* `AuthorityTypeCorrect`.

**Runtime.**

* `DrivesAreGated`. `DriveGated` alone is not inductive: the proof adds that a
  command starts only when no action is active (`StartsIdle`) and that only a
  drive or settling step holds a command id (`IdHeld`).
* `RunningCommandsClosed`. The action property, from the same invariant.
* `ReflexIsCarriedOut`. As long as careful mode is never overdue, an active
  reflex has its reverse running or alone in the queue; the strengthening
  (`ReflexInv`) adds that nothing stands in the way of the start: mode Running,
  no departure, no escape. The hypothesis is the one step that breaks it, see
  the divergences.
* `RuntimeTypeCorrect`. The queue keeps its type and its capacity through
  `Without`, the recursive function that drops commands of some kinds: what it
  keeps of each prefix of the queue (`KeptUpTo`), by induction over the prefixes
  in the form of a least counterexample (`LeastOf`), is a sequence of commands of
  the queue, none further back than it was (`WithoutFrom`).
* `CarefulAlwaysExcluded`, faults included. `CarefulExcluded` speaks of an E-stop
  that has run; the invariant (`CarefulInv`) needs the one that still waits: it is
  the first of the queue, and while it waits nothing is active and careful mode
  is off (`EStopFirst`), so that nothing before it can switch careful mode on.
  While the reflex is active its own reverse is all there is in the queue
  (`ReflexAlone`).
* `StopsAreHonoured`, `ReflexDrivesOnly`, on a UART that does not fail
  (`~UartFaults`), as the runs check them: a failed write keeps the queue of a
  runtime in error, and the reverse in it outlives its reflex. A Stop that was
  taken is the first of the queue of a tick that still has to start it
  (`StopFirst`). A recovery motion that is no escape waits only for an active
  reflex (`RecoveryOwned`), and a reflex that waits is started by this very tick,
  since the safety policy has passed and nothing is in the way (`ReflexNext`): no
  step ends the reflex and leaves its reverse behind.

**Higher brain.**

* `StoreTypeCorrect`, `RecordsAgreeAlways`, `SwitchAlwaysKeepsOld` and
  `StoreImplementsModel`, for any set of candidates and any death or damage. The
  invariant says what each step of a command has already seen: whatever the links
  and the command hold was approved (`LinksApproved`), the register holds the link
  as it is (nobody else writes it), and at `switch` `active/previous` is that
  register. The refinement follows step by step: `Activate` and `Rollback` choose
  a copy they have just validated, `Switch` and `Restore` are the only steps that
  change the model served, `Stage` and `Damage` change what is whole.
* `JobTypeCorrect`, `RunsAlwaysAuthorised`, `RecordsAlwaysTruthful`, for any
  number of jobs, retries and deaths. `JobInv` says what the record a process is
  about to save claims (`CopiesFollow`), that a submission which another one's
  save has overtaken is known as overlapping (`OverlapsTold`: no third can be under
  way, and whatever else is saved has a record already), that a record that may be
  picked, and the one the worker picked and has not begun, has a run to its credit,
  counting the one extra that a finished overlap allows (`RunsCredited`), and that a record says running while the worker runs its
  job or, after a death, while the next worker still has it to recover
  (`RunningAccounted`).
* `CycleTypeCorrect`, `PhasesAlwaysFollow`, `ProgressIsDurable`, for any
  forebrains, cycles, retries and faults. `CycleInv` says what a cycle, in
  memory or on disk, may rely on at its phase (`Grounded`), and that memory is
  the cycle on disk, at most one phase ahead, or a later one that took the place
  of a finished one (`MemoryAhead`): that is what a restart falls back to. It
  assumes that `NoForebrain` is not a forebrain.
* `HigherTypeCorrect`. The parts of `MCHigherBrain` share no variable, so the
  conjunction of their three invariants (`HigherInv`) is inductive, whichever
  part moves.

**Hosts.**

* `ControlAlwaysGranted`, `ControlEndsWithLease`, `AsksOnlyForFreeBody`, for any
  thresholds and number of faults. `FailoverInv` says that whoever owns the
  body, is seen to own it, was told so or says so was granted it (`GrantKnown`);
  that a lease a host has seen itself hold, and that has not run out since, is
  the body's, which runs at least as long, or the host released it itself
  (`LeaseKnown`); and that a body seen free was free as long ago as it was seen
  so (`FreeKnown`). They assume that freshness is at least one and below the age
  at which instants stop (`Horizon`), as it is in the code, whose instants never
  stop.
* `FailoverTypeCorrect`. That boot identities stay within the faults needs the
  budget: faults left and restarts of all hosts together never exceed
  `MaxFaults` (`Budget`), as a restart is a fault.
* `RingTypeCorrect`, `AlwaysDeliversExact`, `AlwaysOnceInOrder`, for any size of
  ring and batch. Until two lanes collide, lanes that write have slots of their
  own (`LanesApart`), a slot that holds a number holds that event unless a lane
  is overwriting it (`SlotsExact`), and what an answer has read is exact, and
  complete up to where it scans, as long as its slots have not been lapped
  (`ReadExactly`, `ReadAll`); the drop check at the end of the answer settles
  whether they have.
* `PossessionTypeCorrect`, `AppliedAtMostOnce`, `RecoveryBeforeDriving`, for any
  number of attempts. The invariant (`PossessionInv`) adds that a call has
  applied nothing while its own request is still to be sent (`CallProgress`),
  that an open gate has a recovery behind it and a drive is under way behind an
  open gate only (`GateProgress`).
* `SleepTypeCorrect`, `WorkAlwaysRecorded`, for any references, offers and size
  of the record. The session (`SessionOK`): what lies ahead of its phase is still
  pending, and no item of its plan holds an input that the record holds for that
  kind of work. The record (`RecordOK`): bounded, and no input twice. The work
  (`WorkOK`): what was planned and completed is in the record or belongs to a completed
  item of the session, which `finish_session` is about to record, as long as all
  of it fits. The training (`TrainedOK`): it was done on what was planned for it,
  and on nothing the record held. The lemmas about `Recorded` follow the loop by induction over the
  pairs taken, in the form of a least counterexample (`LeastNumber`): a record
  keeps its bound and takes in nothing but those pairs, and with room for all of
  them it loses nothing.
* `HostsTypeCorrect`: as for `HigherTypeCorrect`, from the invariants of the four
  parts. A host that never starts, as in the behaviours of the other parts, is
  outside `FailoverInv` and keeps its types because it keeps its variables.

Every safety property of the passing runs is a theorem. Left to TLC: the liveness
properties (`EventuallyTaken`, `LapsedLeaseEnds`, `ManoeuvresEnd`,
`UnownedMotionEnds`, `JobsAreServed`, `CycleGoesOn`, `BodyIsServed`, `CatchesUp`,
`SettlesAwake`), since fairness is about ENABLED, which the prover does not
decide. The abstract specifications state safety only, so the refinement theorems
are complete. Where a theorem has a hypothesis (`OnlyWaiting`, `~Timeouts`,
`~UartFaults`, careful mode not overdue), the run that checks the property is
configured so, and the paragraph on the theorem says what goes wrong without it.

## 5. Divergences

Kept as runs: an E-stop and a safety trip in one tick lose the E-stop
(`runtime/safety.rs:210`); an event that is numbered but not yet published is
stepped over by a poll and never reported (`status/events.rs:57`); a lease
rejected on the last busy attempt is renewed and the loop then runs into its
`unreachable!` (`possession/session.rs:249`).

Also seen in these models while they were developed, and the reason for a
restriction of a run:

* A Stop accepted during a take is erased (`status/commands.rs:306`, against
  `src/crates/pete-brainstem/README.md:707`).
* After a take-over the body can move for the previous owner, whose CmdVel waited
  in the mailbox (`runtime/lifecycle.rs:227`, against
  `src/docs/015-resilient-multi-brain-network.md:57`).
* Admission is check, then use: a lease that runs out, or is revoked by the
  runtime lane, after the check (`arch/pico_w/commands.rs:586`) still has its
  command stored (`:598`) and carried out. `LapsedNeverAdmitted` speaks of the
  lease as it was when the command came, and `MovesForOwner` of live leases.
* A motion command on the dock moves the body in spite of an E-stop
  (`runtime/execution.rs:541`).
* A HeartbeatStop that runs alone is disarmed as it is carried out
  (`runtime/motion.rs:122`).
* A rollback is two renames; a command that dies between them leaves
  `active/current` and `active/previous` at one model (`candidate.rs:344`,
  against `src/docs/018-higher-brain-framework.md:154`). `SelectsApprovedModel`
  holds through it.
* Two overlapping submissions of one envelope, the worker's inbox and a
  `job-submit`, may each find no record; the later save puts a fresh one over the
  earlier, finished or not, and the job is trained again (`job.rs:195` to `:203`,
  whose early return means a second submission to change nothing).
  `RunsAreAuthorised` allows one run more for such a job and for no other.
* The forebrain's grace timers keep the instant of an earlier outage, so that a
  take-over may follow at once on the next one (`failover.rs:646`, `:727`, against
  `src/docs/026-brainstem-transit-failover.md:32`).
* `ManoeuvresEnd` fails once careful mode is offered: a careful deadline that
  passes between `enforce_careful_mode_timeout` and `enforce_safety_policy` lets
  the next tick's timeout stop the reflex without ending it
  (`runtime/safety.rs:350`); ordinary commands are dropped from then on.
* `ReflexOnly` fails with UART faults: `enter_error` keeps the queued reverse,
  which runs with the next command (`runtime/motion.rs:143`).
* `HandsOverStopped` fails when waits run out: a request of another session
  stored between the runtime's comparison and its acknowledgement is installed
  without the stop (`status/commands.rs:562`).
* With a full queue a new CmdVel interrupts the running one and is itself
  dropped (`runtime/command_queue.rs:308`); the wheels are stopped only by the
  next stop or Full refresh (`UnownedMotionEnds`).
* A CmdVel equal to a running escape's velocity extends the escape
  (`runtime/command_queue.rs:293`).
* Queued commands are dropped without an event by every `commands.clear()`
  (`runtime/safety.rs:210`, `runtime/execution.rs:667`).
* Consolidation and replay take up the references their tick offers, not those
  planned (`sleep.rs:1034` to `:1051`): an episode that is recorded and still on
  offer is worked on again in every session, against
  `src/docs/024-sleep-and-grounded-semantics.md:61` ("already completed local work
  is not repeated for those inputs"), and an input planned but no longer on offer,
  or a failure planned for replay, is recorded without having been taken up.
  `WorkRecorded` therefore speaks of the work planned, and of the work really done
  for training only.
* A motherbrain takes over a live recovery lease (`arch/pico_w/authority.rs:302`,
  against `src/docs/015-resilient-multi-brain-network.md:64`); the same hello is
  given a second session if another peer's came in between (`session.rs:99`,
  against `src/docs/014-cockpit-session-handshake.md:69`).

## 6. Not modelled

Weak memory: the mailbox interleaves accesses in program order, which is what
the Pico W's cores do; on the Pi 5 most of the stores are `Relaxed`. Clocks: a
deadline has passed or not; the 71-minute wrap of `now_ms` (`runtime/state.rs:6`)
is a hazard without a property. `Dock` and `seek_dock`, where the Create drives
itself. The wake protocol inside a settling step. Odometry, the side of a
contact and the generation of a hazard (a valid escape may be refused in the
model). Song payloads. Device proofs and text encodings.

Seen in the code and out of the properties' reach: a rejected SongDefine
overwrites the tones of a pending one (`status/commands.rs:786`); a CmdVel
recorded as renewal of a stream that ended meanwhile (`status/commands.rs:179`)
needs the composition of section 7; a bumper held since before the dock looks
freshly pressed after it (`runtime/safety.rs:104`); `validate_escape_motion`
reads the contact bits in the opposite order to the Create
(`status/commands.rs:1240`); a 750 ms heartbeat may lapse during up to 3 s of
busy retries (`possession/session.rs:342`); activating the current candidate
again loses the rollback target (`candidate.rs:324`); a staged tree is renamed
without syncing its files (`candidate.rs:418`); a motherbrain that is seen by the
forebrain but has lost the body keeps it without a controller
(`failover.rs:448`); a sleep request that comes while sleep is blocked is
forgotten (`sleep.rs:438`); a DHCP lease is stored word by word in slot `id % 8`
and never removed on RELEASE (`network_registry.rs:49`).

Of the hosts: what a job trains, what a sleep item computes and what a backend
call does are abstracted to done or not. Bundle transfer, the ledger and the
access point's DHCP and name tables are files and packets with little control;
the annunciator and the UPS assessment are sequential code with tests of their
own. Cognition, learning, mapping, simulation, perception and the user
interfaces, which are most of the repository's lines, are numeric, heuristic or
I/O code: there is no state machine in them that TLC could explore with profit.

## 7. Plan

1. `BrainstemControl`: composition of authority, mailbox and runtime over shared
   variables, with the CmdVel renewal protocol; a command's life from accept to
   one terminal event.
2. `MotherbrainPossession` as the environment of `BrainstemAuthority` in place of
   its external brainstem.
3. Bundle transfer and the access point's tables.
