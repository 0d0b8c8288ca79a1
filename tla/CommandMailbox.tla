--------------------------- MODULE CommandMailbox ---------------------------
(***************************************************************************)
(* The command mailbox of pete-brainstem (status/commands.rs): the static  *)
(* atomics PENDING_COMMAND_* and PENDING_VELOCITY_* through which the      *)
(* transport lane (Pico W core 0, or the Raspberry Pi control thread)      *)
(* hands host commands to the runtime lane (core 1, or the main thread).   *)
(*                                                                         *)
(* Neither lane locks.  Every load and store of a shared word that the     *)
(* other lane can interleave with is a step of its own; a run of payload   *)
(* words (A, B, C, D, DURATION_MS, SEQ, service hashes) is Words words     *)
(* stored and loaded one by one.  Steps of the two lanes interleave        *)
(* sequentially consistently, which is what the RP2040's in-order cores    *)
(* give; the weaker order of Relaxed stores on the Raspberry Pi is not     *)
(* modelled.  The payload of a command is one value, repeated in each of   *)
(* its words, so that a hand-over that mixes two commands is visible.      *)
(***************************************************************************)
EXTENDS Naturals, Sequences

CONSTANTS Ids,       \* command ids the host uses, each for one command
          Payloads,  \* what a command's payload words may hold
          Words,     \* payload words per slot
          Offered    \* the kinds of commands the host sends

ASSUME IdsAssumption == Ids \subseteq Nat \ {0}
ASSUME WordsAssumption == Words \in Nat \ {0}

NoId == 0
None == "none"

\* Stop and EStop take the slot over whatever is pending; a HeartbeatStop
\* refreshes a pending HeartbeatStop; every other slot command waits (Busy).
Preempting == {"stop", "estop"}
SlotKinds == {"ordinary", "heartbeat"} \cup Preempting
Kinds == SlotKinds \cup {"cmd_vel", "info", "unsupported"}

ASSUME OfferedAssumption == Offered \subseteq Kinds

VARIABLES slot,    \* PENDING_COMMAND_{KIND, ID, payload}; .owner: see below
          vel,     \* PENDING_VELOCITY_{KIND, ID, payload, IS_RENEWAL}
          stream,  \* ACTIVE_VELOCITY_STREAM{, _ID, _A/_B}
          sub,     \* the transport lane inside submit_control_command
          take,    \* the runtime lane inside take_control_command
          \* history: what was offered, the public lifecycle events (as pairs
          \* <<by, id>> for interruptions), what the runtime was handed from
          \* each slot, and which KIND stores met no take in progress
          offer, accepted, rejected, interrupted, handed, velHanded, quiet

events == <<accepted, rejected, interrupted>>
history == <<offer, events, handed, velHanded, quiet>>
vars == <<slot, vel, stream, sub, take, history>>

\* slot.owner and take.owner are history: the id of the submit that stored the
\* KIND word now in the slot, or that the take loaded.
EmptyWords == [w \in 1..Words |-> None]
NoCommand == [kind |-> None, pay |-> None]
IdleSub == [pc |-> "idle", id |-> NoId, kind |-> None, pay |-> None, next |-> 0,
            rep |-> NoId, vrep |-> NoId, renews |-> FALSE]
IdleTake == [pc |-> "idle", kind |-> None, words |-> EmptyWords, id |-> NoId,
             next |-> 1, owner |-> NoId]

Init ==
  /\ slot = [kind |-> None, id |-> NoId, words |-> EmptyWords, owner |-> NoId]
  /\ vel = [kind |-> None, id |-> NoId, words |-> EmptyWords, renewal |-> FALSE]
  /\ stream = [on |-> FALSE, id |-> NoId, pay |-> None]
  /\ sub = IdleSub
  /\ take = IdleTake
  /\ offer = [c \in Ids |-> NoCommand]
  /\ accepted = {} /\ rejected = {} /\ interrupted = {}
  /\ handed = <<>> /\ velHanded = <<>>
  /\ quiet = {}

-----------------------------------------------------------------------------
(* The transport lane: submit_control_command_with_service_identity.       *)

Enter(c, k, p) ==
  /\ sub.pc = "idle"
  /\ offer[c] = NoCommand
  /\ k \in Offered
  /\ offer' = [offer EXCEPT ![c] = [kind |-> k, pay |-> p]]

Submitting(c, k, p, pc) == [IdleSub EXCEPT !.pc = pc, !.id = c, !.kind = k, !.pay = p]

Goto(pc) == sub' = [sub EXCEPT !.pc = pc]

\* Status, Ping, GetEvents and GetCapabilities are answered on the spot, an
\* unsupported command is refused on the spot.
SubmitImmediate(c, k, p) ==
  /\ k \in {"info", "unsupported"}
  /\ Enter(c, k, p)
  /\ accepted' = IF k = "info" THEN accepted \cup {c} ELSE accepted
  /\ rejected' = IF k = "info" THEN rejected ELSE rejected \cup {c}
  /\ UNCHANGED <<slot, vel, stream, sub, take, interrupted, handed, velHanded, quiet>>

\* A slot command.  Stop and EStop start with the velocity slot
\* (preempt_pending_commands_for_safety), the others with the Busy check.
SubmitSlotCommand(c, k, p) ==
  /\ k \in SlotKinds
  /\ Enter(c, k, p)
  /\ sub' = Submitting(c, k, p, IF k \in Preempting THEN "load_vel" ELSE "check")
  /\ UNCHANGED <<slot, vel, stream, take, events, handed, velHanded, quiet>>

PreemptLoadVelocity ==
  /\ sub.pc = "load_vel"
  /\ sub' = [sub EXCEPT !.pc = IF vel.kind # None THEN "load_vel_id" ELSE "clear_vel"]
  /\ UNCHANGED <<slot, vel, stream, take, history>>

PreemptLoadVelocityId ==
  /\ sub.pc = "load_vel_id"
  /\ sub' = [sub EXCEPT !.pc = "clear_vel", !.vrep = IF vel.renewal THEN NoId ELSE vel.id]
  /\ UNCHANGED <<slot, vel, stream, take, history>>

PreemptClearVelocity ==
  /\ sub.pc = "clear_vel"
  /\ vel' = [vel EXCEPT !.kind = None, !.renewal = FALSE]
  /\ Goto("check")
  /\ UNCHANGED <<slot, stream, take, history>>

\* MUTANT: a heartbeat replaces whatever is pending.
Replaces_AnyHeartbeat(k, pending) == k \in Preempting \cup {"heartbeat"}

\* MUTANT: the latest command always wins.
Replaces_Always(k, pending) == TRUE

\* The load of PENDING_COMMAND_KIND and _ID, and the Busy early return.
Replaces(k, pending) == k \in Preempting \/ (k = "heartbeat" /\ pending = "heartbeat")

SubmitCheck ==
  /\ sub.pc = "check"
  /\ IF slot.kind # None /\ ~Replaces(sub.kind, slot.kind)
     THEN /\ sub' = IdleSub
          /\ rejected' = rejected \cup {sub.id}
     ELSE /\ sub' = [sub EXCEPT !.pc = "store", !.next = 0,
                                !.rep = IF slot.kind # None THEN slot.id ELSE NoId]
          /\ UNCHANGED rejected
  /\ UNCHANGED <<slot, vel, stream, take, offer, accepted, interrupted, handed, velHanded, quiet>>

\* MUTANT: the KIND word is published before the payload words.
SubmitStoreId_KindFirst ==
  /\ sub.pc = "store" /\ sub.next = 0
  /\ slot' = [slot EXCEPT !.id = sub.id, !.kind = sub.kind, !.owner = sub.id]
  /\ sub' = [sub EXCEPT !.next = 1]
  /\ UNCHANGED <<vel, stream, take, history>>

\* ID first, then the payload words, KIND last.
SubmitStoreId ==
  /\ sub.pc = "store" /\ sub.next = 0
  /\ slot' = [slot EXCEPT !.id = sub.id]
  /\ sub' = [sub EXCEPT !.next = 1]
  /\ UNCHANGED <<vel, stream, take, history>>

SubmitStoreWord ==
  /\ sub.pc = "store" /\ sub.next \in 1..Words
  /\ slot' = [slot EXCEPT !.words[sub.next] = sub.pay]
  /\ sub' = [sub EXCEPT !.next = @ + 1]
  /\ UNCHANGED <<vel, stream, take, history>>

SubmitStoreKind ==
  /\ sub.pc = "store" /\ sub.next = Words + 1
  /\ slot' = [slot EXCEPT !.kind = sub.kind, !.owner = sub.id]
  /\ Goto("publish")
  /\ quiet' = IF take.pc = "idle" THEN quiet \cup {sub.id} ELSE quiet
  /\ UNCHANGED <<vel, stream, take, offer, events, handed, velHanded>>

\* The CommandAccepted event (CommandRenewed, which opens no lifecycle of its
\* own, for a CmdVel that repeats the running velocity), and one
\* CommandInterrupted per replaced command.
SubmitPublish ==
  /\ sub.pc = "publish"
  /\ accepted' = IF sub.renews THEN accepted ELSE accepted \cup {sub.id}
  /\ interrupted' = interrupted \cup ({sub.id} \X ({sub.rep, sub.vrep} \ {NoId}))
  /\ sub' = IdleSub
  /\ UNCHANGED <<slot, vel, stream, take, offer, rejected, handed, velHanded, quiet>>

\* CmdVel has a slot of its own that a newer CmdVel overwrites.  First
\* matching_velocity_stream: does this repeat the velocity that is running?
SubmitVelocity(c, p) ==
  /\ Enter(c, "cmd_vel", p)
  /\ sub' = [Submitting(c, "cmd_vel", p, "vel_check") EXCEPT
                !.renews = stream.on /\ stream.pay = p]
  /\ UNCHANGED <<slot, vel, stream, take, events, handed, velHanded, quiet>>

\* seq_is_current_or_newer: the host numbers its commands, so the id stands
\* for the sequence number (the u32 wrap is out of the model's range).
VelocityCheck ==
  /\ sub.pc = "vel_check"
  /\ IF vel.kind # None /\ sub.id < vel.id
     THEN /\ sub' = IdleSub
          /\ rejected' = rejected \cup {sub.id}
     ELSE /\ Goto(IF vel.kind # None THEN "vel_replaced" ELSE "vel_store")
          /\ UNCHANGED rejected
  /\ UNCHANGED <<slot, vel, stream, take, offer, accepted, interrupted, handed, velHanded, quiet>>

VelocityLoadReplaced ==
  /\ sub.pc = "vel_replaced"
  /\ sub' = [sub EXCEPT !.pc = "vel_store", !.vrep = IF vel.renewal THEN NoId ELSE vel.id]
  /\ UNCHANGED <<slot, vel, stream, take, history>>

VelocityStoreId ==
  /\ sub.pc = "vel_store" /\ sub.next = 0
  /\ vel' = [vel EXCEPT !.id = sub.id]
  /\ sub' = [sub EXCEPT !.next = 1]
  /\ UNCHANGED <<slot, stream, take, history>>

VelocityStoreWord ==
  /\ sub.pc = "vel_store" /\ sub.next \in 1..Words
  /\ vel' = [vel EXCEPT !.words[sub.next] = sub.pay]
  /\ sub' = [sub EXCEPT !.next = @ + 1]
  /\ UNCHANGED <<slot, stream, take, history>>

VelocityStoreRenewal ==
  /\ sub.pc = "vel_store" /\ sub.next = Words + 1
  /\ vel' = [vel EXCEPT !.renewal = sub.renews]
  /\ sub' = [sub EXCEPT !.next = @ + 1]
  /\ UNCHANGED <<slot, stream, take, history>>

VelocityStoreKind ==
  /\ sub.pc = "vel_store" /\ sub.next = Words + 2
  /\ vel' = [vel EXCEPT !.kind = "cmd_vel"]
  /\ Goto("publish")
  /\ UNCHANGED <<slot, stream, take, history>>

-----------------------------------------------------------------------------
(* The runtime lane: take_control_command, once per tick.                  *)

\* MUTANT: the command slot is never looked at.
TakeLoadKind_VelocityOnly ==
  /\ take.pc = "idle"
  /\ take' = [IdleTake EXCEPT !.pc = "vel_kind"]
  /\ UNCHANGED <<slot, vel, stream, sub, history>>

TakeLoadKind ==
  /\ take.pc = "idle"
  /\ take' = IF slot.kind # None
             THEN [IdleTake EXCEPT !.pc = "words", !.kind = slot.kind, !.owner = slot.owner]
             ELSE [IdleTake EXCEPT !.pc = "vel_kind"]
  /\ UNCHANGED <<slot, vel, stream, sub, history>>

TakeLoadWord ==
  /\ take.pc = "words" /\ take.next \in 1..Words
  /\ take' = [take EXCEPT !.words[take.next] = slot.words[take.next], !.next = @ + 1]
  /\ UNCHANGED <<slot, vel, stream, sub, history>>

TakeLoadId ==
  /\ take.pc = "words" /\ take.next = Words + 1
  /\ take' = [take EXCEPT !.id = slot.id, !.pc = "clear"]
  /\ UNCHANGED <<slot, vel, stream, sub, history>>

\* The unconditional store of None, and the hand-over to the runtime.
TakenCommand == [kind |-> take.kind, id |-> take.id, words |-> take.words,
                 owner |-> take.owner]

TakeClear ==
  /\ take.pc = "clear"
  /\ slot' = [slot EXCEPT !.kind = None]
  /\ handed' = Append(handed, TakenCommand)
  /\ take' = IdleTake
  /\ UNCHANGED <<vel, stream, sub, offer, events, velHanded, quiet>>

TakeLoadVelocityKind ==
  /\ take.pc = "vel_kind"
  /\ take' = IF vel.kind = None THEN IdleTake
             ELSE [take EXCEPT !.pc = "vel_words", !.kind = "cmd_vel"]
  /\ UNCHANGED <<slot, vel, stream, sub, history>>

TakeLoadVelocityWord ==
  /\ take.pc = "vel_words" /\ take.next \in 1..Words
  /\ take' = [take EXCEPT !.words[take.next] = vel.words[take.next], !.next = @ + 1]
  /\ UNCHANGED <<slot, vel, stream, sub, history>>

TakeLoadVelocityId ==
  /\ take.pc = "vel_words" /\ take.next = Words + 1
  /\ take' = [take EXCEPT !.id = vel.id, !.owner = vel.id, !.pc = "vel_clear"]
  /\ UNCHANGED <<slot, vel, stream, sub, history>>

TakeClearVelocity ==
  /\ take.pc = "vel_clear"
  /\ vel' = [vel EXCEPT !.kind = None]
  /\ take' = [take EXCEPT !.pc = "vel_renewal"]
  /\ UNCHANGED <<slot, stream, sub, history>>

TakeClearRenewal ==
  /\ take.pc = "vel_renewal"
  /\ vel' = [vel EXCEPT !.renewal = FALSE]
  /\ velHanded' = Append(velHanded, TakenCommand)
  /\ take' = IdleTake
  /\ UNCHANGED <<slot, stream, sub, offer, events, handed, quiet>>

\* Between two takes the runtime may start the velocity it was last handed
\* (mark_velocity_stream_active) or stop the drive (clear_velocity_stream).
StreamStart ==
  /\ take.pc = "idle" /\ velHanded # <<>>
  /\ LET c == velHanded[Len(velHanded)]
     IN  stream' = [on |-> TRUE, id |-> c.id, pay |-> c.words[1]]
  /\ UNCHANGED <<slot, vel, sub, take, history>>

StreamStop ==
  /\ take.pc = "idle" /\ stream.on
  /\ stream' = [stream EXCEPT !.on = FALSE, !.id = NoId]
  /\ UNCHANGED <<slot, vel, sub, take, history>>

-----------------------------------------------------------------------------
TransportStep ==
  \/ PreemptLoadVelocity \/ PreemptLoadVelocityId \/ PreemptClearVelocity \/ SubmitCheck
  \/ SubmitStoreId \/ SubmitStoreWord \/ SubmitStoreKind \/ SubmitPublish
  \/ VelocityCheck \/ VelocityLoadReplaced \/ VelocityStoreId \/ VelocityStoreWord
  \/ VelocityStoreRenewal \/ VelocityStoreKind

TakeStep ==
  \/ TakeLoadKind \/ TakeLoadWord \/ TakeLoadId \/ TakeClear
  \/ TakeLoadVelocityKind \/ TakeLoadVelocityWord \/ TakeLoadVelocityId
  \/ TakeClearVelocity \/ TakeClearRenewal

Offer == \E c \in Ids, p \in Payloads :
           \/ \E k \in Kinds : SubmitImmediate(c, k, p) \/ SubmitSlotCommand(c, k, p)
           \/ SubmitVelocity(c, p)

Next == Offer \/ TransportStep \/ TakeStep \/ StreamStart \/ StreamStop

Spec == Init /\ [][Next]_vars

\* Both lanes keep running: the handler runs to its return, the runtime ticks.
FairSpec == Spec /\ WF_vars(TransportStep) /\ WF_vars(TakeStep)
-----------------------------------------------------------------------------
(* Properties.                                                             *)

SubPcs == {"idle", "load_vel", "load_vel_id", "clear_vel", "check", "store",
           "vel_check", "vel_replaced", "vel_store", "publish"}
TakePcs == {"idle", "words", "clear", "vel_kind", "vel_words", "vel_clear", "vel_renewal"}
WordValues == Payloads \cup {None}
WordVectors == [1..Words -> WordValues]
IdOrNone == Ids \cup {NoId}
SubFields == 0..(Words + 2)   \* the next field to store
TakeFields == 1..(Words + 1)  \* the next payload word to load
SlotType == [kind: SlotKinds \cup {None}, id: IdOrNone, words: WordVectors, owner: IdOrNone]
VelType == [kind: {None, "cmd_vel"}, id: IdOrNone, words: WordVectors, renewal: BOOLEAN]
StreamType == [on: BOOLEAN, id: IdOrNone, pay: WordValues]
SubType == [pc: SubPcs, id: IdOrNone, kind: Kinds \cup {None}, pay: WordValues,
            next: SubFields, rep: IdOrNone, vrep: IdOrNone, renews: BOOLEAN]
TakeType == [pc: TakePcs, kind: Kinds \cup {None}, words: WordVectors, id: IdOrNone,
             next: TakeFields, owner: IdOrNone]
HandedType == [kind: Kinds \cup {None}, id: IdOrNone, words: WordVectors, owner: IdOrNone]
OfferType == [kind: Kinds \cup {None}, pay: WordValues]

\* The two slots, both lanes' registers and the history have their types.
TypeOK ==
  /\ slot \in SlotType /\ vel \in VelType /\ stream \in StreamType
  /\ sub \in SubType /\ take \in TakeType
  /\ offer \in [Ids -> OfferType]
  /\ accepted \subseteq Ids /\ rejected \subseteq Ids /\ quiet \subseteq Ids
  /\ interrupted \subseteq Ids \X Ids
  /\ handed \in Seq(HandedType) /\ velHanded \in Seq(HandedType)

Whole(x) == [kind |-> x.kind, id |-> x.id, words |-> x.words]
AsOffered(c) == [kind |-> offer[c].kind, id |-> c,
                 words |-> [w \in 1..Words |-> offer[c].pay]]
HandedIds == {handed[i].id : i \in DOMAIN handed}
HandedOwners == {handed[i].owner : i \in DOMAIN handed}
PendingId(c) == slot.kind # None /\ slot.id = c

\* A command the runtime takes from the command slot is exactly one the host
\* offered (id, kind and every payload word of the same submit), and none is
\* taken twice; an accepted one is either still in the slot or was taken, never
\* both and never neither, and a rejected one is nowhere: the Busy check keeps
\* the two lanes out of each other's way.
HandedExactly ==
  /\ \A i \in DOMAIN handed : /\ handed[i].id \in Ids
                             /\ Whole(handed[i]) = AsOffered(handed[i].id)
  /\ \A i, j \in DOMAIN handed : i # j => handed[i].id # handed[j].id
  /\ \A c \in Ids : offer[c].kind \in SlotKinds =>
       /\ c \in accepted => (c \in HandedIds) # PendingId(c)
       /\ c \in rejected => c \notin HandedIds /\ ~PendingId(c)

\* Seen through its whole commands, the command slot is the one-place buffer.
SlotCommands == [kind: SlotKinds, id: Ids, words: {[w \in 1..Words |-> p] : p \in Payloads}]
EmptySlot == [kind |-> None, id |-> NoId, words |-> EmptyWords]
BufferPlace == IF slot.kind = None THEN EmptySlot ELSE Whole(slot)
BufferReceived == [i \in 1..Len(handed) |-> Whole(handed[i])]
BufferUsed == HandedIds \cup (IF slot.kind = None THEN {} ELSE {slot.id})

Buffer == INSTANCE HandoverBuffer WITH
            Commands <- SlotCommands, Empty <- EmptySlot,
            place <- BufferPlace, received <- BufferReceived, used <- BufferUsed

\* The command slot implements the one-place buffer: the KIND stores of the
\* two lanes are the points where a command is put and got.
SlotIsBuffer == Buffer!BufferSpec

\* A stop was delivered to the runtime, is still on its way to it, or was
\* replaced by a later stop that says so in the event log.
StopOnItsWay(c) ==
  \/ c \in HandedOwners
  \/ take.pc \in {"words", "clear"} /\ take.owner = c
  \/ slot.kind # None /\ slot.owner = c
  \/ \E d \in Ids : <<d, c>> \in interrupted /\ offer[d].kind \in Preempting
  \/ sub.pc = "publish" /\ sub.rep = c /\ sub.kind \in Preempting

\* A Stop or EStop whose KIND word was stored while no take was in progress
\* reaches the runtime: no other command can push it out of the slot.
QuietStopDelivered ==
  \A c \in quiet : offer[c].kind \in Preempting => StopOnItsWay(c)

\* The runtime lane's polling empties the slot: an accepted command is taken.
EventuallyTaken ==
  \A c \in Ids : (c \in accepted /\ PendingId(c)) ~> (slot.kind = None)
=============================================================================
