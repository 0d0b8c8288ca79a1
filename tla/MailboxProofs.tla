---------------------------- MODULE MailboxProofs ----------------------------
(***************************************************************************)
(* Proofs about the command mailbox, for every set of command ids and      *)
(* payloads and every number of payload words.                             *)
(***************************************************************************)
EXTENDS CommandMailbox, TLAPS, SequenceTheorems

\* What the registers of the two lanes hold inside a handler.
SubInside ==
  /\ sub.pc # "idle" => sub.id \in Ids /\ sub.pay \in Payloads
  /\ sub.pc \in {"load_vel", "load_vel_id", "clear_vel", "check", "store"}
       => sub.kind \in SlotKinds

TypeInv == TypeOK /\ SubInside

\* Field counters and the registers they are part of stay in their types.
LEMMA FieldCounters ==
  /\ 0 \in SubFields /\ 1 \in SubFields /\ 1 \in TakeFields
  /\ \A n \in 1..(Words + 1) : n + 1 \in SubFields
  /\ \A n \in 1..Words : n + 1 \in TakeFields
  /\ Words + 1 \in SubFields
BY WordsAssumption DEF SubFields, TakeFields

LEMMA FirstWordType ==
  ASSUME NEW h \in HandedType
  PROVE  h.words[1] \in WordValues
<1>1. 1 \in 1..Words
  BY WordsAssumption
<1> QED  BY <1>1 DEF HandedType, WordVectors

LEMMA TakeWordType ==
  ASSUME NEW t \in TakeType, t.next \in 1..Words, NEW v \in WordValues
  PROVE  [t EXCEPT !.words[t.next] = v, !.next = t.next + 1] \in TakeType
<1>1. [t.words EXCEPT ![t.next] = v] \in WordVectors
  BY DEF TakeType, WordVectors
<1>2. [t EXCEPT !.words = [t.words EXCEPT ![t.next] = v]] \in TakeType
  BY <1>1 DEF TakeType
<1>3. [t EXCEPT !.words[t.next] = v] = [t EXCEPT !.words = [t.words EXCEPT ![t.next] = v]]
  OBVIOUS
<1> QED  BY <1>2, <1>3, FieldCounters DEF TakeType

LEMMA TypeInvInit == Init => TypeInv
<1> SUFFICES ASSUME Init PROVE TypeInv
  OBVIOUS
<1>1. EmptyWords \in WordVectors /\ NoId \in IdOrNone
  BY DEF EmptyWords, WordVectors, WordValues, IdOrNone
<1>2. slot \in SlotType /\ vel \in VelType /\ stream \in StreamType
  BY <1>1 DEF Init, SlotType, VelType, StreamType, WordValues
<1>3. sub \in SubType
  BY <1>1, FieldCounters DEF Init, IdleSub, SubType, SubPcs, WordValues
<1>4. take \in TakeType
  BY <1>1, FieldCounters DEF Init, IdleTake, TakeType, TakePcs
<1>5. offer \in [Ids -> OfferType]
  BY DEF Init, OfferType, NoCommand, WordValues
<1> QED
  BY <1>2, <1>3, <1>4, <1>5 DEF Init, TypeInv, TypeOK, SubInside, IdleSub

LEMMA TypeInvStep == TypeInv /\ [Next]_vars => TypeInv'
<1> SUFFICES ASSUME TypeInv, [Next]_vars PROVE TypeInv'
  OBVIOUS
<1>0. /\ IdleSub \in SubType /\ IdleSub.pc = "idle"
      /\ IdleTake \in TakeType
      /\ Ids \subseteq IdOrNone /\ NoId \in IdOrNone /\ Payloads \subseteq WordValues
      /\ SlotKinds \subseteq Kinds /\ None \notin SlotKinds
  <2>1. EmptyWords \in WordVectors /\ NoId \in IdOrNone
    BY DEF EmptyWords, WordVectors, WordValues, IdOrNone
  <2> QED
    BY <2>1, FieldCounters
    DEF IdleSub, IdleTake, SubType, TakeType, SubPcs, TakePcs, IdOrNone, WordValues,
        Kinds, SlotKinds, Preempting, None
<1> USE <1>0 DEF TypeInv, TypeOK, SubInside
<1>1. CASE Offer
  <2>1. ASSUME NEW c \in Ids, NEW p \in Payloads, NEW k \in Kinds, Enter(c, k, p)
        PROVE  offer' \in [Ids -> OfferType]
    BY <2>1 DEF Enter, OfferType
  <2>2. ASSUME NEW c \in Ids, NEW p \in Payloads, NEW k \in Kinds, NEW pc \in SubPcs
        PROVE  /\ Submitting(c, k, p, pc) \in SubType
               /\ Submitting(c, k, p, pc).pc = pc /\ Submitting(c, k, p, pc).next = 0
               /\ Submitting(c, k, p, pc).id = c /\ Submitting(c, k, p, pc).pay = p
               /\ Submitting(c, k, p, pc).kind = k
    BY <2>2, FieldCounters DEF Submitting, SubType, IdleSub
  <2>3. ASSUME NEW c \in Ids, NEW p \in Payloads, NEW k \in Kinds,
               SubmitImmediate(c, k, p)
        PROVE  TypeInv'
    BY <2>3, <2>1 DEF SubmitImmediate
  <2>4. ASSUME NEW c \in Ids, NEW p \in Payloads, NEW k \in Kinds,
               SubmitSlotCommand(c, k, p)
        PROVE  TypeInv'
    <3> DEFINE pc == IF k \in Preempting THEN "load_vel" ELSE "check"
    <3>1. pc \in SubPcs /\ pc # "idle"
      BY DEF SubPcs
    <3>2. sub' = Submitting(c, k, p, pc)
      BY <2>4 DEF SubmitSlotCommand
    <3>3. sub' \in SubType /\ SubInside'
      BY <3>1, <3>2, <2>2, <2>4 DEF SubmitSlotCommand
    <3> QED  BY <2>4, <3>3, <2>1 DEF SubmitSlotCommand, events
  <2>5. ASSUME NEW c \in Ids, NEW p \in Payloads, SubmitVelocity(c, p)
        PROVE  TypeInv'
    <3>1. "cmd_vel" \in Kinds /\ "vel_check" \in SubPcs
      BY DEF Kinds, SubPcs
    <3> DEFINE b == stream.on /\ stream.pay = p
    <3>b. b \in BOOLEAN
      BY DEF StreamType
    <3>2. sub' \in SubType
      <4>1. sub' = [Submitting(c, "cmd_vel", p, "vel_check") EXCEPT !.renews = b]
        BY <2>5 DEF SubmitVelocity
      <4> HIDE DEF b
      <4> QED  BY <4>1, <3>1, <3>b, <2>2 DEF SubType
    <3>3. SubInside'
      BY <3>1, <2>5, <2>2 DEF SubmitVelocity, SubType
    <3> QED  BY <2>5, <2>1, <3>1, <3>2, <3>3 DEF SubmitVelocity, events
  <2> QED  BY <1>1, <2>3, <2>4, <2>5 DEF Offer
<1>2. CASE PreemptLoadVelocity
  <2>1. sub' \in SubType /\ SubInside'
    BY <1>2 DEF PreemptLoadVelocity, SubType, SubPcs
  <2> QED  BY <1>2, <2>1 DEF PreemptLoadVelocity, history, events
<1>3. CASE PreemptLoadVelocityId
  <2>1. sub' \in SubType /\ SubInside'
    BY <1>3 DEF PreemptLoadVelocityId, SubType, SubPcs, VelType
  <2> QED  BY <1>3, <2>1 DEF PreemptLoadVelocityId, history, events
<1>4. CASE PreemptClearVelocity
  <2>1. sub' \in SubType /\ SubInside' /\ vel' \in VelType
    BY <1>4 DEF PreemptClearVelocity, Goto, SubType, SubPcs, VelType
  <2> QED  BY <1>4, <2>1 DEF PreemptClearVelocity, history, events
<1>5. CASE SubmitCheck
  <2>1. CASE slot.kind # None /\ ~Replaces(sub.kind, slot.kind)
    BY <1>5, <2>1 DEF SubmitCheck
  <2>2. CASE ~(slot.kind # None /\ ~Replaces(sub.kind, slot.kind))
    <3> DEFINE r == IF slot.kind # None THEN slot.id ELSE NoId
    <3>1. r \in IdOrNone
      BY DEF SlotType
    <3>2. sub' = [sub EXCEPT !.pc = "store", !.next = 0, !.rep = r]
      BY <1>5, <2>2 DEF SubmitCheck
    <3>3. sub' \in SubType
      BY <3>1, <3>2, FieldCounters DEF SubType, SubPcs
    <3>4. SubInside'
      BY <1>5, <3>2 DEF SubmitCheck, SubType
    <3> QED  BY <1>5, <2>2, <3>3, <3>4 DEF SubmitCheck
  <2> QED  BY <2>1, <2>2
<1>6. CASE SubmitStoreId
  <2>1. sub' \in SubType
    BY <1>6, FieldCounters DEF SubmitStoreId, SubType
  <2>2. SubInside' /\ slot' \in SlotType
    BY <1>6 DEF SubmitStoreId, SubType, SlotType
  <2> QED  BY <1>6, <2>1, <2>2 DEF SubmitStoreId, history, events
<1>7. CASE SubmitStoreWord
  <2>1. sub' \in SubType
    BY <1>7, FieldCounters, WordsAssumption DEF SubmitStoreWord, SubType
  <2>2. SubInside'
    BY <1>7 DEF SubmitStoreWord, SubType
  <2>3. slot' \in SlotType
    BY <1>7 DEF SubmitStoreWord, SlotType, WordVectors
  <2> QED  BY <1>7, <2>1, <2>2, <2>3 DEF SubmitStoreWord, history, events
<1>8. CASE SubmitStoreKind
  <2>1. sub' \in SubType /\ SubInside' /\ slot' \in SlotType
    BY <1>8 DEF SubmitStoreKind, Goto, SubType, SubPcs, SlotType
  <2> QED  BY <1>8, <2>1 DEF SubmitStoreKind, events
<1>9. CASE SubmitPublish
  <2>1. interrupted' \subseteq Ids \X Ids
    BY <1>9 DEF SubmitPublish, SubType, IdOrNone
  <2> QED  BY <1>9, <2>1 DEF SubmitPublish
<1>10. CASE VelocityCheck
  <2>1. sub' \in SubType /\ SubInside'
    BY <1>10 DEF VelocityCheck, Goto, SubType, SubPcs
  <2> QED  BY <1>10, <2>1 DEF VelocityCheck
<1>11. CASE VelocityLoadReplaced
  <2>1. sub' \in SubType /\ SubInside'
    BY <1>11 DEF VelocityLoadReplaced, SubType, SubPcs, VelType
  <2> QED  BY <1>11, <2>1 DEF VelocityLoadReplaced, history, events
<1>12. CASE VelocityStoreId
  <2>1. sub' \in SubType
    BY <1>12, FieldCounters, WordsAssumption DEF VelocityStoreId, SubType
  <2>2. SubInside'
    BY <1>12 DEF VelocityStoreId, SubType
  <2>3. vel' \in VelType
    BY <1>12 DEF VelocityStoreId, VelType, WordVectors
  <2> QED  BY <1>12, <2>1, <2>2, <2>3 DEF VelocityStoreId, history, events
<1>13. CASE VelocityStoreWord
  <2>1. sub' \in SubType
    <3>1. sub.next + 1 \in SubFields
      BY <1>13, FieldCounters, WordsAssumption DEF VelocityStoreWord
    <3> QED  BY <1>13, <3>1 DEF VelocityStoreWord, SubType
  <2>2. SubInside'
    BY <1>13 DEF VelocityStoreWord, SubType
  <2>3. vel' \in VelType
    BY <1>13 DEF VelocityStoreWord, VelType, WordVectors
  <2> QED  BY <1>13, <2>1, <2>2, <2>3 DEF VelocityStoreWord, history, events
<1>14. CASE VelocityStoreRenewal
  <2>1. sub' \in SubType
    <3>1. sub.next + 1 \in SubFields
      BY <1>14, FieldCounters, WordsAssumption DEF VelocityStoreRenewal
    <3> QED  BY <1>14, <3>1 DEF VelocityStoreRenewal, SubType
  <2>2. SubInside'
    BY <1>14 DEF VelocityStoreRenewal, SubType
  <2>3. vel' \in VelType
    BY <1>14 DEF VelocityStoreRenewal, VelType, SubType
  <2> QED  BY <1>14, <2>1, <2>2, <2>3 DEF VelocityStoreRenewal, history, events
<1>15. CASE VelocityStoreKind
  <2>1. sub' \in SubType /\ SubInside' /\ vel' \in VelType
    BY <1>15 DEF VelocityStoreKind, Goto, SubType, SubPcs, VelType
  <2> QED  BY <1>15, <2>1 DEF VelocityStoreKind, history, events
<1>16. CASE TakeLoadKind
  <2>1. take' \in TakeType
    BY <1>16 DEF TakeLoadKind, TakeType, TakePcs, SlotType
  <2> QED  BY <1>16, <2>1 DEF TakeLoadKind, history, events
<1>17. CASE TakeLoadWord
  <2>1. take' \in TakeType
    <3>1. slot.words[take.next] \in WordValues
      BY <1>17 DEF TakeLoadWord, SlotType, WordVectors
    <3> QED  BY <1>17, <3>1, TakeWordType DEF TakeLoadWord
  <2> QED  BY <1>17, <2>1 DEF TakeLoadWord, history, events
<1>18. CASE TakeLoadId
  <2>1. take' \in TakeType
    BY <1>18 DEF TakeLoadId, TakeType, TakePcs, SlotType
  <2> QED  BY <1>18, <2>1 DEF TakeLoadId, history, events
<1> DEFINE Taken == TakenCommand \in HandedType
<1>19. Taken
  BY DEF TakenCommand, TakeType, HandedType
<1>20. CASE TakeClear
  <2>1. slot' \in SlotType
    BY <1>20 DEF TakeClear, SlotType
  <2>2. handed' \in Seq(HandedType)
    BY <1>20, <1>19 DEF TakeClear
  <2> QED  BY <1>20, <2>1, <2>2 DEF TakeClear, events
<1>21. CASE TakeLoadVelocityKind
  <2>1. take' \in TakeType
    BY <1>21 DEF TakeLoadVelocityKind, TakeType, TakePcs, Kinds
  <2> QED  BY <1>21, <2>1 DEF TakeLoadVelocityKind, history, events
<1>22. CASE TakeLoadVelocityWord
  <2>1. take' \in TakeType
    <3>1. vel.words[take.next] \in WordValues
      BY <1>22 DEF TakeLoadVelocityWord, VelType, WordVectors
    <3> QED  BY <1>22, <3>1, TakeWordType DEF TakeLoadVelocityWord
  <2> QED  BY <1>22, <2>1 DEF TakeLoadVelocityWord, history, events
<1>23. CASE TakeLoadVelocityId
  <2>1. take' \in TakeType
    BY <1>23 DEF TakeLoadVelocityId, TakeType, TakePcs, VelType
  <2> QED  BY <1>23, <2>1 DEF TakeLoadVelocityId, history, events
<1>24. CASE TakeClearVelocity
  <2>1. take' \in TakeType /\ vel' \in VelType
    BY <1>24 DEF TakeClearVelocity, TakeType, TakePcs, VelType
  <2> QED  BY <1>24, <2>1 DEF TakeClearVelocity, history, events
<1>25. CASE TakeClearRenewal
  <2>1. vel' \in VelType
    BY <1>25 DEF TakeClearRenewal, VelType
  <2>2. velHanded' \in Seq(HandedType)
    BY <1>25, <1>19 DEF TakeClearRenewal
  <2> QED  BY <1>25, <2>1, <2>2 DEF TakeClearRenewal, events
<1>26. CASE StreamStart
  <2>1. velHanded[Len(velHanded)] \in HandedType
    BY <1>26 DEF StreamStart
  <2>2. stream' \in StreamType
    <3>1. velHanded[Len(velHanded)].words[1] \in WordValues
      BY <2>1, FirstWordType
    <3> QED  BY <1>26, <2>1, <3>1 DEF StreamStart, StreamType, HandedType
  <2> QED  BY <1>26, <2>2 DEF StreamStart, history, events
<1>27. CASE StreamStop
  <2>1. stream' \in StreamType
    BY <1>27 DEF StreamStop, StreamType
  <2> QED  BY <1>27, <2>1 DEF StreamStop, history, events
<1>28. CASE UNCHANGED vars
  BY <1>28 DEF vars, history, events
<1> QED
  BY <1>1, <1>2, <1>3, <1>4, <1>5, <1>6, <1>7, <1>8, <1>9, <1>10, <1>11, <1>12, <1>13,
     <1>14, <1>15, <1>16, <1>17, <1>18, <1>20, <1>21, <1>22, <1>23, <1>24, <1>25, <1>26,
     <1>27, <1>28
  DEF Next, TransportStep, TakeStep

\* The slots, the lanes' registers and the history keep their types in every
\* interleaving of the transport lane and the runtime lane.
THEOREM MailboxTypeCorrect == Spec => []TypeOK
<1>1. TypeInv => TypeOK
  BY DEF TypeInv
<1> QED  BY <1>1, TypeInvInit, TypeInvStep, PTL DEF Spec

-----------------------------------------------------------------------------
(* Stops.  QuietStopDelivered is not inductive: it needs to know whose      *)
(* command the slot holds, whom a submit in progress is about to replace,   *)
(* and that a take in progress holds every quiet command still in the slot. *)

InSlotSubmit == {"load_vel", "load_vel_id", "clear_vel", "check", "store"}
InSlotTake == {"words", "clear"}

SlotOwned ==
  slot.kind # None => /\ slot.owner \in Ids
                      /\ offer[slot.owner].kind = slot.kind
                      /\ sub.pc # "store" => slot.id = slot.owner

SubmitKnows ==
  /\ sub.pc # "idle" => offer[sub.id].kind = sub.kind
  /\ sub.pc \in InSlotSubmit => sub.id \notin quiet
  /\ sub.pc = "store" =>
       /\ sub.next # 0 => slot.id = sub.id
       /\ slot.kind # None => slot.owner = sub.rep /\ Replaces(sub.kind, slot.kind)

TakeHoldsQuiet ==
  take.pc \in InSlotTake /\ slot.kind # None /\ slot.owner \in quiet
    => take.owner = slot.owner

QuietOffered == \A c \in quiet : offer[c] # NoCommand

StopInv == TypeInv /\ SlotOwned /\ SubmitKnows /\ TakeHoldsQuiet /\ QuietOffered
                   /\ QuietStopDelivered

LEMMA StopInvInit == Init => StopInv
<1> SUFFICES ASSUME Init PROVE StopInv
  OBVIOUS
<1>1. slot.kind = None /\ sub.pc = "idle" /\ quiet = {} /\ take.pc = "idle"
  BY DEF Init, IdleSub, IdleTake
<1> QED
  BY <1>1, TypeInvInit
  DEF StopInv, SlotOwned, SubmitKnows, TakeHoldsQuiet, QuietOffered, QuietStopDelivered,
      InSlotSubmit, InSlotTake

\* Steps that leave the command slot, its history and the taker's view of it
\* alone, and move the transport lane at most between points before the store.
LEMMA StopInvFrame ==
  ASSUME StopInv, TypeInv',
         UNCHANGED <<slot, offer, handed, interrupted, quiet>>,
         sub' = sub \/ (/\ sub.pc \notin {"store", "publish"} /\ sub'.pc # "store"
                        /\ sub'.pc \in InSlotSubmit => sub.pc \in InSlotSubmit
                        /\ sub'.pc # "idle" => /\ sub.pc # "idle"
                                               /\ sub'.id = sub.id
                                               /\ sub'.kind = sub.kind),
         take'.pc \in InSlotTake => take.pc \in InSlotTake /\ take'.owner = take.owner,
         take.pc \in InSlotTake => take'.pc \in InSlotTake
  PROVE  StopInv'
<1>1. SlotOwned' /\ SubmitKnows' /\ TakeHoldsQuiet' /\ QuietOffered'
  BY DEF StopInv, SlotOwned, SubmitKnows, TakeHoldsQuiet, QuietOffered, InSlotSubmit
<1>2. ASSUME NEW c \in quiet, offer[c].kind \in Preempting
      PROVE  StopOnItsWay(c)'
  <2>1. StopOnItsWay(c)
    BY <1>2 DEF StopInv, QuietStopDelivered
  <2> QED
    BY <2>1 DEF StopOnItsWay, HandedOwners, InSlotTake
<1>3. QuietStopDelivered'
  BY <1>2 DEF QuietStopDelivered
<1> QED  BY <1>1, <1>3 DEF StopInv

LEMMA StopInvStep == StopInv /\ [Next]_vars => StopInv'
<1> SUFFICES ASSUME StopInv, [Next]_vars PROVE StopInv'
  OBVIOUS
<1>t. TypeInv /\ TypeInv'
  BY TypeInvStep DEF StopInv
<1>f. /\ sub \in SubType /\ take \in TakeType /\ slot \in SlotType /\ quiet \subseteq Ids
      /\ IdleSub.pc = "idle" /\ IdleTake.pc = "idle" /\ NoId \notin Ids
      /\ None \notin SlotKinds /\ SubInside /\ offer \in [Ids -> OfferType]
      /\ handed \in Seq(HandedType)
  BY <1>t, IdsAssumption
  DEF TypeInv, TypeOK, IdleSub, IdleTake, NoId, SlotKinds, Preempting, None
<1>1. CASE TakeLoadWord
  BY <1>1, <1>t, <1>f, StopInvFrame DEF TakeLoadWord, history, events, InSlotSubmit, InSlotTake, SubType, TakeType
<1>2. CASE TakeLoadVelocityKind
  BY <1>2, <1>t, <1>f, StopInvFrame DEF TakeLoadVelocityKind, history, events, InSlotSubmit, InSlotTake, SubType, TakeType
<1>3. CASE TakeLoadVelocityWord
  BY <1>3, <1>t, <1>f, StopInvFrame DEF TakeLoadVelocityWord, history, events, InSlotSubmit, InSlotTake, SubType, TakeType
<1>4. CASE TakeLoadVelocityId
  BY <1>4, <1>t, <1>f, StopInvFrame DEF TakeLoadVelocityId, history, events, InSlotSubmit, InSlotTake, SubType, TakeType
<1>5. CASE TakeClearVelocity
  BY <1>5, <1>t, <1>f, StopInvFrame DEF TakeClearVelocity, history, events, InSlotSubmit, InSlotTake, SubType, TakeType
<1>6. CASE TakeClearRenewal
  BY <1>6, <1>t, <1>f, StopInvFrame DEF TakeClearRenewal, history, events, InSlotSubmit, InSlotTake, SubType, TakeType
<1>7. CASE TakeLoadId
  BY <1>7, <1>t, <1>f, StopInvFrame DEF TakeLoadId, history, events, InSlotSubmit, InSlotTake, SubType, TakeType
<1>8. CASE StreamStart
  BY <1>8, <1>t, <1>f, StopInvFrame DEF StreamStart, history, events, InSlotSubmit, InSlotTake, SubType, TakeType
<1>9. CASE StreamStop
  BY <1>9, <1>t, <1>f, StopInvFrame DEF StreamStop, history, events, InSlotSubmit, InSlotTake, SubType, TakeType
<1>10. CASE PreemptLoadVelocity
  BY <1>10, <1>t, <1>f, StopInvFrame DEF PreemptLoadVelocity, history, events, InSlotSubmit, InSlotTake, SubType, TakeType
<1>11. CASE PreemptLoadVelocityId
  BY <1>11, <1>t, <1>f, StopInvFrame DEF PreemptLoadVelocityId, history, events, InSlotSubmit, InSlotTake, SubType, TakeType
<1>12. CASE PreemptClearVelocity
  BY <1>12, <1>t, <1>f, StopInvFrame DEF PreemptClearVelocity, history, events, InSlotSubmit, InSlotTake, SubType, TakeType, Goto
<1>13. CASE VelocityCheck
  BY <1>13, <1>t, <1>f, StopInvFrame DEF VelocityCheck, history, events, InSlotSubmit, InSlotTake, SubType, TakeType, Goto
<1>14. CASE VelocityLoadReplaced
  BY <1>14, <1>t, <1>f, StopInvFrame DEF VelocityLoadReplaced, history, events, InSlotSubmit, InSlotTake, SubType, TakeType
<1>15. CASE VelocityStoreId
  BY <1>15, <1>t, <1>f, StopInvFrame DEF VelocityStoreId, history, events, InSlotSubmit, InSlotTake, SubType, TakeType
<1>16. CASE VelocityStoreWord
  BY <1>16, <1>t, <1>f, StopInvFrame DEF VelocityStoreWord, history, events, InSlotSubmit, InSlotTake, SubType, TakeType
<1>17. CASE VelocityStoreRenewal
  BY <1>17, <1>t, <1>f, StopInvFrame DEF VelocityStoreRenewal, history, events, InSlotSubmit, InSlotTake, SubType, TakeType
<1>18. CASE VelocityStoreKind
  BY <1>18, <1>t, <1>f, StopInvFrame
  DEF VelocityStoreKind, Goto, history, events, InSlotSubmit, InSlotTake, SubType, TakeType
<1>19. CASE UNCHANGED vars
  BY <1>19, <1>t, StopInvFrame DEF vars, history, events
<1>20. CASE TakeLoadKind
  <2>1. /\ UNCHANGED <<slot, sub, offer, handed, interrupted, quiet>> /\ take.pc = "idle"
        /\ take'.pc \in InSlotTake => take'.owner = slot.owner
    BY <1>20 DEF TakeLoadKind, IdleTake, InSlotTake, history, events
  <2>2. SlotOwned' /\ SubmitKnows' /\ TakeHoldsQuiet' /\ QuietOffered'
    BY <2>1 DEF StopInv, SlotOwned, SubmitKnows, TakeHoldsQuiet, QuietOffered
  <2>3. ASSUME NEW c \in quiet, offer[c].kind \in Preempting
        PROVE  StopOnItsWay(c)'
    BY <2>1, <2>3 DEF StopInv, QuietStopDelivered, StopOnItsWay, HandedOwners
  <2> QED  BY <1>t, <2>1, <2>2, <2>3 DEF StopInv, QuietStopDelivered
<1>21. CASE TakeClear
  <2>1. /\ take.pc = "clear" /\ take'.pc = "idle" /\ slot'.kind = None
        /\ handed' = Append(handed, TakenCommand)
        /\ UNCHANGED <<sub, offer, interrupted, quiet>>
        /\ slot'.owner = slot.owner /\ slot'.id = slot.id
    BY <1>21, <1>f DEF TakeClear, events, SlotType
  <2>2. SlotOwned' /\ SubmitKnows' /\ TakeHoldsQuiet' /\ QuietOffered'
    BY <2>1 DEF StopInv, SlotOwned, SubmitKnows, TakeHoldsQuiet, QuietOffered
  <2>3. HandedOwners' = HandedOwners \cup {take.owner}
    <3>1. /\ DOMAIN handed' = DOMAIN handed \cup {Len(handed) + 1}
          /\ \A i \in DOMAIN handed : handed'[i] = handed[i]
          /\ handed'[Len(handed) + 1] = TakenCommand
      BY <2>1, <1>f
    <3>2. TakenCommand.owner = take.owner
      BY DEF TakenCommand
    <3> QED  BY <3>1, <3>2 DEF HandedOwners
  <2>4. ASSUME NEW c \in quiet, offer[c].kind \in Preempting
        PROVE  StopOnItsWay(c)'
    <3>1. StopOnItsWay(c)
      BY <2>4 DEF StopInv, QuietStopDelivered
    <3>2. slot.kind # None /\ slot.owner = c => take.owner = c
      BY <2>1, <2>4 DEF StopInv, TakeHoldsQuiet, InSlotTake
    <3> QED  BY <2>1, <2>3, <3>1, <3>2 DEF StopOnItsWay
  <2> QED  BY <1>t, <2>1, <2>2, <2>4 DEF StopInv, QuietStopDelivered
<1>22. CASE SubmitCheck
  <2>1. /\ sub.pc = "check" /\ UNCHANGED <<slot, take, offer, handed, interrupted, quiet>>
    BY <1>22 DEF SubmitCheck
  <2>2. CASE slot.kind # None /\ ~Replaces(sub.kind, slot.kind)
    BY <1>22, <2>1, <2>2, <1>t, <1>f, StopInvFrame DEF SubmitCheck, InSlotSubmit, InSlotTake
  <2>3. CASE slot.kind = None \/ Replaces(sub.kind, slot.kind)
    <3>1. /\ sub'.pc = "store" /\ sub'.next = 0 /\ sub'.id = sub.id /\ sub'.kind = sub.kind
          /\ slot.kind # None => sub'.rep = slot.id
      BY <1>22, <2>3, <1>f DEF SubmitCheck, SubType
    <3>2. SlotOwned' /\ SubmitKnows' /\ TakeHoldsQuiet' /\ QuietOffered'
      BY <2>1, <2>3, <3>1
      DEF StopInv, SlotOwned, SubmitKnows, TakeHoldsQuiet, QuietOffered, InSlotSubmit
    <3>3. ASSUME NEW c \in quiet, offer[c].kind \in Preempting
          PROVE  StopOnItsWay(c)'
      BY <2>1, <3>3 DEF StopInv, QuietStopDelivered, StopOnItsWay, HandedOwners
    <3> QED  BY <1>t, <2>1, <3>2, <3>3 DEF StopInv, QuietStopDelivered
  <2> QED  BY <2>2, <2>3
<1>23. CASE SubmitStoreId
  <2>1. /\ sub.pc = "store" /\ sub'.pc = "store" /\ slot'.id = sub.id /\ sub'.id = sub.id
        /\ sub'.kind = sub.kind /\ sub'.rep = sub.rep
        /\ slot'.kind = slot.kind /\ slot'.owner = slot.owner
        /\ UNCHANGED <<take, offer, handed, interrupted, quiet>>
    BY <1>23, <1>f DEF SubmitStoreId, SubType, SlotType, history, events
  <2>2. SlotOwned' /\ SubmitKnows' /\ TakeHoldsQuiet' /\ QuietOffered'
    BY <2>1 DEF StopInv, SlotOwned, SubmitKnows, TakeHoldsQuiet, QuietOffered, InSlotSubmit
  <2>3. ASSUME NEW c \in quiet, offer[c].kind \in Preempting
        PROVE  StopOnItsWay(c)'
    BY <2>1, <2>3 DEF StopInv, QuietStopDelivered, StopOnItsWay, HandedOwners
  <2> QED  BY <1>t, <2>1, <2>2, <2>3 DEF StopInv, QuietStopDelivered
<1>24. CASE SubmitStoreWord
  <2>1. /\ sub.pc = "store" /\ sub'.pc = "store" /\ slot'.id = slot.id /\ sub'.id = sub.id
        /\ sub'.kind = sub.kind /\ sub'.rep = sub.rep
        /\ slot'.kind = slot.kind /\ slot'.owner = slot.owner
        /\ UNCHANGED <<take, offer, handed, interrupted, quiet>>
    BY <1>24, <1>f DEF SubmitStoreWord, SubType, SlotType, history, events
  <2>0. sub.next # 0
    BY <1>24 DEF SubmitStoreWord
  <2>2. SlotOwned' /\ SubmitKnows' /\ TakeHoldsQuiet' /\ QuietOffered'
    BY <2>0, <2>1
    DEF StopInv, SlotOwned, SubmitKnows, TakeHoldsQuiet, QuietOffered, InSlotSubmit
  <2>3. ASSUME NEW c \in quiet, offer[c].kind \in Preempting
        PROVE  StopOnItsWay(c)'
    BY <2>1, <2>3 DEF StopInv, QuietStopDelivered, StopOnItsWay, HandedOwners
  <2> QED  BY <1>t, <2>1, <2>2, <2>3 DEF StopInv, QuietStopDelivered
<1>25. CASE SubmitStoreKind
  <2>1. /\ sub.pc = "store" /\ sub'.pc = "publish" /\ slot'.id = slot.id /\ sub'.id = sub.id
        /\ sub'.kind = sub.kind /\ sub'.rep = sub.rep
        /\ slot'.kind = sub.kind /\ slot'.owner = sub.id
        /\ UNCHANGED <<take, offer, handed, interrupted>>
        /\ sub.id \in Ids /\ sub.kind \in SlotKinds
    BY <1>25, <1>f DEF SubmitStoreKind, Goto, SubType, SlotType, events, SubInside
  <2>0. sub.next # 0 /\ quiet' = IF take.pc = "idle" THEN quiet \cup {sub.id} ELSE quiet
    BY <1>25, WordsAssumption DEF SubmitStoreKind
  <2>2. SlotOwned' /\ SubmitKnows'
    BY <2>0, <2>1 DEF StopInv, SlotOwned, SubmitKnows, InSlotSubmit
  <2>3. TakeHoldsQuiet'
    BY <2>0, <2>1 DEF StopInv, SubmitKnows, TakeHoldsQuiet, InSlotSubmit, InSlotTake
  <2>4. QuietOffered'
    BY <2>0, <2>1, <1>f DEF StopInv, SubmitKnows, QuietOffered, NoCommand
  <2>5. ASSUME NEW c \in quiet, offer[c].kind \in Preempting
        PROVE  StopOnItsWay(c)'
    <3>1. StopOnItsWay(c)
      BY <2>5 DEF StopInv, QuietStopDelivered
    <3>2. slot.kind # None /\ slot.owner = c => sub.rep = c /\ sub.kind \in Preempting
      <4>1. "heartbeat" \notin Preempting
        BY DEF Preempting
      <4> QED  BY <2>1, <2>5, <4>1 DEF StopInv, SlotOwned, SubmitKnows, Replaces
    <3> QED  BY <2>1, <3>1, <3>2 DEF StopOnItsWay, HandedOwners
  <2>6. StopOnItsWay(sub.id)'
    BY <2>1, <1>f DEF StopOnItsWay
  <2> QED  BY <1>t, <2>0, <2>1, <2>2, <2>3, <2>4, <2>5, <2>6 DEF StopInv, QuietStopDelivered
<1>26. CASE SubmitPublish
  <2>1. /\ sub.pc = "publish" /\ sub'.pc = "idle"
        /\ interrupted' = interrupted \cup ({sub.id} \X ({sub.rep, sub.vrep} \ {NoId}))
        /\ UNCHANGED <<slot, take, offer, handed, quiet>>
    BY <1>26, <1>f DEF SubmitPublish
  <2>2. SlotOwned' /\ SubmitKnows' /\ TakeHoldsQuiet' /\ QuietOffered'
    BY <2>1 DEF StopInv, SlotOwned, SubmitKnows, TakeHoldsQuiet, QuietOffered, InSlotSubmit
  <2>3. ASSUME NEW c \in quiet, offer[c].kind \in Preempting
        PROVE  StopOnItsWay(c)'
    <3>1. StopOnItsWay(c)
      BY <2>3 DEF StopInv, QuietStopDelivered
    <3>2. sub.rep = c /\ sub.kind \in Preempting
            => /\ <<sub.id, c>> \in interrupted' /\ offer[sub.id].kind \in Preempting
               /\ sub.id \in Ids
      BY <2>1, <1>f DEF StopInv, SubmitKnows, SubInside
    <3> QED  BY <2>1, <3>1, <3>2 DEF StopOnItsWay, HandedOwners
  <2> QED  BY <1>t, <2>1, <2>2, <2>3 DEF StopInv, QuietStopDelivered
<1>27. CASE Offer
  <2>0. ASSUME NEW c \in Ids, NEW k \in Kinds, NEW p \in Payloads, Enter(c, k, p),
               UNCHANGED <<slot, take, handed, interrupted, quiet>>,
               \/ sub' = sub
               \/ sub'.pc \notin {"store", "publish"} /\ sub'.id = c /\ sub'.kind = k
        PROVE  StopInv'
    <3>1. /\ sub.pc = "idle" /\ offer[c] = NoCommand /\ c \notin quiet
          /\ offer'[c].kind = k
          /\ \A d \in Ids : d # c => offer'[d] = offer[d]
      BY <2>0, <1>f DEF Enter, StopInv, QuietOffered
    <3>2. NoCommand.kind = None /\ None \notin Preempting
      BY DEF NoCommand, None, Preempting
    <3>3. SlotOwned'
      BY <2>0, <3>1, <3>2 DEF StopInv, SlotOwned
    <3>4. SubmitKnows' /\ TakeHoldsQuiet'
      BY <2>0, <3>1 DEF StopInv, SubmitKnows, TakeHoldsQuiet, InSlotSubmit
    <3>5. QuietOffered'
      BY <2>0, <3>1, <1>f DEF StopInv, QuietOffered
    <3>6. ASSUME NEW d \in quiet, offer[d].kind \in Preempting
          PROVE  StopOnItsWay(d)'
      BY <2>0, <3>1, <3>2, <3>6
      DEF StopInv, QuietStopDelivered, StopOnItsWay, HandedOwners
    <3> QED
      BY <1>t, <1>f, <2>0, <3>1, <3>3, <3>4, <3>5, <3>6 DEF StopInv, QuietStopDelivered
  <2>1. ASSUME NEW c \in Ids, NEW p \in Payloads, NEW k \in Kinds,
               SubmitImmediate(c, k, p)
        PROVE  StopInv'
    BY <2>0, <2>1 DEF SubmitImmediate
  <2>2. ASSUME NEW c \in Ids, NEW p \in Payloads, NEW k \in Kinds,
               SubmitSlotCommand(c, k, p)
        PROVE  StopInv'
    <3>1. /\ sub'.id = c /\ sub'.kind = k /\ sub'.pc \notin {"store", "publish"}
      BY <2>2 DEF SubmitSlotCommand, Submitting, IdleSub
    <3> QED  BY <2>0, <2>2, <3>1 DEF SubmitSlotCommand, events
  <2>3. ASSUME NEW c \in Ids, NEW p \in Payloads, SubmitVelocity(c, p)
        PROVE  StopInv'
    <3>1. /\ sub'.id = c /\ sub'.kind = "cmd_vel" /\ sub'.pc \notin {"store", "publish"}
      BY <2>3 DEF SubmitVelocity, Submitting, IdleSub
    <3>2. "cmd_vel" \in Kinds
      BY DEF Kinds
    <3> QED  BY <2>0, <2>3, <3>1, <3>2 DEF SubmitVelocity, events
  <2> QED  BY <1>27, <2>1, <2>2, <2>3 DEF Offer
<1> QED
  BY <1>1, <1>2, <1>3, <1>4, <1>5, <1>6, <1>7, <1>8, <1>9, <1>10, <1>11, <1>12, <1>13,
     <1>14, <1>15, <1>16, <1>17, <1>18, <1>19, <1>20, <1>21, <1>22, <1>23, <1>24, <1>25,
     <1>26, <1>27
  DEF Next, TransportStep, TakeStep

\* A Stop or EStop stored while the runtime lane is not inside
\* take_control_command is never lost: it reaches the runtime, is still on its
\* way, or a later stop replaced it and said so.
THEOREM QuietStopsDelivered == Spec => []QuietStopDelivered
<1>1. StopInv => QuietStopDelivered
  BY DEF StopInv
<1> QED  BY <1>1, StopInvInit, StopInvStep, PTL DEF Spec

-----------------------------------------------------------------------------
(* The hand-over of commands that wait.  While no Stop, EStop or            *)
(* HeartbeatStop is offered the Busy check admits a submit to the slot only *)
(* when it is empty, so the two lanes are never both inside it.             *)

\* Nothing the host offers replaces a pending command.
OnlyWaiting == Offered \cap (Preempting \cup {"heartbeat"}) = {}

InVelocitySubmit == {"vel_check", "vel_replaced", "vel_store"}

\* The submit in progress holds what was offered.
SubmitsOffered ==
  /\ sub.pc \in {"idle", "check", "store", "publish"} \cup InVelocitySubmit
  /\ sub.pc # "idle" => offer[sub.id] = [kind |-> sub.kind, pay |-> sub.pay]
  /\ sub.pc \in {"check", "store"} => sub.kind = "ordinary"
  /\ sub.pc \in InVelocitySubmit => sub.kind = "cmd_vel"
  /\ sub.pc = "publish" => sub.kind \in {"ordinary", "cmd_vel"}

\* A submit stores into an empty slot, and finds there what it stored.
StoresAlone ==
  sub.pc = "store" =>
    /\ slot.kind = None
    /\ sub.next # 0 => slot.id = sub.id
    /\ \A w \in 1..Words : w < sub.next => slot.words[w] = sub.pay

\* A take has copied the words it loaded from the command still in the slot.
TakesCopy ==
  /\ take.pc \in InSlotTake => /\ slot.kind # None /\ take.kind = slot.kind
                               /\ \A w \in 1..Words : w < take.next => take.words[w] = slot.words[w]
  /\ take.pc = "clear" => take.id = slot.id /\ take.next = Words + 1

\* The pending command is one that was offered and not handed over yet.
SlotExact ==
  slot.kind # None => /\ slot.id \in Ids /\ slot.id \notin HandedIds
                      /\ Whole(slot) = AsOffered(slot.id)

\* What was handed over was offered, each command once.
HandedSound ==
  /\ \A i \in DOMAIN handed : /\ handed[i].id \in Ids /\ handed[i].kind \in SlotKinds
                              /\ Whole(handed[i]) = AsOffered(handed[i].id)
  /\ \A i, j \in DOMAIN handed : i # j => handed[i].id # handed[j].id

\* A command the slot admitted is in exactly one place, any other in none.
Admitted(c) == c \in accepted \/ (sub.pc = "publish" /\ sub.id = c)
Untouched(c) == c \notin HandedIds /\ ~PendingId(c)
InOnePlace(c) == (c \in HandedIds \/ PendingId(c)) /\ ~(c \in HandedIds /\ PendingId(c))

Fates ==
  /\ \A c \in Ids : offer[c] = NoCommand => c \notin accepted \cup rejected
  /\ \A c \in Ids : offer[c].kind \in SlotKinds =>
       /\ Admitted(c) => InOnePlace(c)
       /\ c \in rejected => Untouched(c)
  /\ sub.pc \in {"check", "store"} => /\ Untouched(sub.id)
                                      /\ sub.id \notin accepted \cup rejected

HandInv == /\ OnlyWaiting /\ TypeInv /\ SubmitsOffered /\ StoresAlone /\ TakesCopy
           /\ SlotExact /\ HandedSound /\ Fates

LEMMA HandInvInit == OnlyWaiting /\ Init => HandInv
<1> SUFFICES ASSUME OnlyWaiting, Init PROVE HandInv
  OBVIOUS
<1>1. /\ slot.kind = None /\ sub.pc = "idle" /\ take.pc = "idle" /\ handed = <<>>
      /\ accepted = {} /\ rejected = {}
  BY DEF Init, IdleSub, IdleTake
<1>2. SubmitsOffered /\ StoresAlone /\ TakesCopy /\ SlotExact /\ HandedSound
  BY <1>1 DEF SubmitsOffered, StoresAlone, TakesCopy, SlotExact, HandedSound, InSlotTake,
              InVelocitySubmit
<1>3. \A c \in Ids : offer[c].kind \notin SlotKinds
  BY DEF Init, NoCommand, None, SlotKinds, Preempting
<1>4. Fates
  BY <1>1, <1>3 DEF Fates
<1> QED  BY <1>2, <1>4, TypeInvInit DEF HandInv

\* What the proofs below read off the types.
LEMMA HandTypes ==
  ASSUME TypeInv
  PROVE  /\ sub \in SubType /\ take \in TakeType /\ slot \in SlotType
         /\ offer \in [Ids -> OfferType] /\ handed \in Seq(HandedType)
         /\ accepted \subseteq Ids /\ rejected \subseteq Ids /\ SubInside
         /\ None \notin SlotKinds /\ "cmd_vel" \notin SlotKinds /\ "ordinary" \in SlotKinds
         /\ NoCommand.kind = None /\ NoId \notin Ids
         /\ IdleSub.pc = "idle" /\ IdleTake.pc = "idle"
BY IdsAssumption
DEF TypeInv, TypeOK, None, SlotKinds, Preempting, NoCommand, NoId, IdleSub, IdleTake

\* A command no submit offered yet is nowhere.
LEMMA FreshUntouched ==
  ASSUME HandInv, NEW c \in Ids, offer[c] = NoCommand
  PROVE  Untouched(c) /\ c \notin accepted \cup rejected
<1>1. c \notin accepted \cup rejected
  BY DEF HandInv, Fates
<1>2. AsOffered(c).kind = None /\ None \notin SlotKinds
  BY HandTypes DEF HandInv, AsOffered
<1>3. ~PendingId(c)
  BY <1>2 DEF HandInv, SlotExact, PendingId, Whole
<1>4. ASSUME NEW i \in DOMAIN handed
      PROVE  handed[i].id # c
  <2>1. handed[i].kind \in SlotKinds /\ Whole(handed[i]) = AsOffered(handed[i].id)
    BY <1>4 DEF HandInv, HandedSound
  <2>2. Whole(handed[i]).kind = handed[i].kind
    BY DEF Whole
  <2> QED  BY <1>2, <2>1, <2>2
<1> QED  BY <1>1, <1>3, <1>4 DEF Untouched, HandedIds

\* Steps outside the command slot: the runtime lane at the velocity slot or
\* between takes, and the drive's stream.
LEMMA HandFrameTake ==
  ASSUME HandInv, TypeInv', UNCHANGED <<slot, sub, offer, accepted, rejected, handed>>,
         take' = take \/ take'.pc \notin InSlotTake
  PROVE  HandInv'
<1>1. TakesCopy'
  BY DEF HandInv, TakesCopy, InSlotTake
<1>2. /\ SubmitsOffered' /\ StoresAlone' /\ SlotExact' /\ HandedSound'
  BY DEF HandInv, SubmitsOffered, StoresAlone, SlotExact, HandedSound, HandedIds, AsOffered
<1>3. Fates'
  BY DEF HandInv, Fates, Admitted, Untouched, InOnePlace, HandedIds, PendingId
<1> QED  BY <1>1, <1>2, <1>3 DEF HandInv, OnlyWaiting

\* Steps of the transport lane inside a CmdVel.
LEMMA HandFrameVelocity ==
  ASSUME HandInv, TypeInv', UNCHANGED <<slot, take, offer, accepted, handed>>,
         sub.pc \in InVelocitySubmit, rejected' \subseteq rejected \cup {sub.id},
         sub'.pc \in InVelocitySubmit \cup {"idle", "publish"},
         sub'.pc # "idle" => sub'.id = sub.id /\ sub'.kind = sub.kind /\ sub'.pay = sub.pay
  PROVE  HandInv'
<1>0. sub.pc \notin {"idle", "check", "store", "publish"} /\ sub'.pc \notin {"check", "store"}
  BY DEF InVelocitySubmit
<1>1. sub.id \in Ids /\ offer[sub.id] = [kind |-> "cmd_vel", pay |-> sub.pay]
  BY <1>0, HandTypes DEF HandInv, SubmitsOffered, SubInside
<1>2. offer[sub.id].kind \notin SlotKinds /\ offer[sub.id] # NoCommand
  <2>1. "cmd_vel" # None
    BY DEF None
  <2> QED  BY <1>1, <2>1, HandTypes DEF HandInv, NoCommand
<1>3. /\ SubmitsOffered' /\ StoresAlone' /\ SlotExact' /\ HandedSound' /\ TakesCopy'
  <2>1. SubmitsOffered'
    BY <1>0 DEF HandInv, SubmitsOffered, InVelocitySubmit
  <2>2. StoresAlone' /\ SlotExact' /\ HandedSound' /\ TakesCopy'
    BY <1>0
    DEF HandInv, StoresAlone, SlotExact, HandedSound, HandedIds, AsOffered, TakesCopy
  <2> QED  BY <2>1, <2>2
<1>4. Fates'
  <2>1. ASSUME NEW c \in Ids, offer[c] = NoCommand
        PROVE  c \notin accepted \cup rejected'
    BY <2>1, <1>2 DEF HandInv, Fates
  <2>2. ASSUME NEW c \in Ids, offer[c].kind \in SlotKinds
        PROVE  /\ Admitted(c)' => InOnePlace(c)
               /\ c \in rejected' => Untouched(c)
    <3>1. c # sub.id
      BY <2>2, <1>2
    <3>2. sub'.pc = "publish" => sub'.id # c
      BY <3>1
    <3> QED  BY <2>2, <3>1, <3>2 DEF HandInv, Fates, Admitted
  <2>3. HandedIds' = HandedIds /\ \A c \in Ids : PendingId(c)' = PendingId(c)
    BY DEF HandedIds, PendingId
  <2> QED  BY <1>0, <2>1, <2>2, <2>3 DEF Fates, Untouched, InOnePlace
<1> QED  BY <1>3, <1>4 DEF HandInv, OnlyWaiting

\* A submit enters: what it offers was nowhere before.
LEMMA HandOffer ==
  ASSUME HandInv, TypeInv', NEW c \in Ids, NEW k \in Kinds, NEW p \in Payloads,
         Enter(c, k, p), UNCHANGED <<slot, take, handed>>,
         \/ /\ sub' = sub /\ k \notin SlotKinds
            /\ accepted' \subseteq accepted \cup {c} /\ rejected' \subseteq rejected \cup {c}
         \/ /\ UNCHANGED <<accepted, rejected>>
            /\ sub'.id = c /\ sub'.kind = k /\ sub'.pay = p
            /\ \/ sub'.pc = "check" /\ k = "ordinary"
               \/ sub'.pc = "vel_check" /\ k = "cmd_vel"
  PROVE  HandInv'
<1>1. /\ sub.pc = "idle" /\ offer[c] = NoCommand /\ k \in Offered
      /\ offer'[c] = [kind |-> k, pay |-> p]
      /\ \A d \in Ids : d # c => offer'[d] = offer[d]
  BY HandTypes DEF HandInv, Enter
<1>2. Untouched(c) /\ c \notin accepted \cup rejected
  BY <1>1, FreshUntouched
<1>3. SubmitsOffered'
  BY <1>1 DEF SubmitsOffered, InVelocitySubmit
<1>4. StoresAlone'
  BY <1>1 DEF StoresAlone
<1>5. TakesCopy'
  BY DEF HandInv, TakesCopy
<1>6. SlotExact'
  <2>1. slot.kind # None => slot.id \in Ids /\ slot.id # c
    BY <1>2 DEF HandInv, SlotExact, Untouched, PendingId
  <2> QED  BY <1>1, <2>1 DEF HandInv, SlotExact, HandedIds, AsOffered
<1>7. HandedSound'
  <2>1. \A i \in DOMAIN handed : handed[i].id # c
    BY <1>2 DEF Untouched, HandedIds
  <2> QED  BY <1>1, <2>1 DEF HandInv, HandedSound, AsOffered
<1>8. Fates'
  <2>1. HandedIds' = HandedIds /\ \A d \in Ids : PendingId(d)' = PendingId(d)
    BY DEF HandedIds, PendingId
  <2>2. ASSUME NEW d \in Ids, d # c
        PROVE  /\ offer'[d] = NoCommand => d \notin accepted' \cup rejected'
               /\ offer'[d].kind \in SlotKinds =>
                    /\ Admitted(d)' => InOnePlace(d)
                    /\ d \in rejected' => Untouched(d)
    <3>1. Admitted(d)' => Admitted(d)
      BY <1>1, <2>2 DEF Admitted
    <3> QED  BY <1>1, <2>2, <3>1 DEF HandInv, Fates
  <2>3. /\ offer'[c] # NoCommand
        /\ offer'[c].kind \in SlotKinds => ~Admitted(c)' /\ c \notin rejected'
    <3>1. k # None /\ "check" # "publish" /\ "vel_check" # "publish"
      BY DEF Kinds, SlotKinds, Preempting, None
    <3>2. offer'[c].kind = k
      BY <1>1
    <3> QED  BY <1>1, <1>2, <3>1, <3>2 DEF Admitted, NoCommand
  <2>4. sub'.pc \in {"check", "store"} => /\ Untouched(sub'.id)
                                          /\ sub'.id \notin accepted' \cup rejected'
    BY <1>1, <1>2
  <2> QED  BY <2>1, <2>2, <2>3, <2>4 DEF Fates, Untouched, InOnePlace, PendingId, HandedIds
<1> QED  BY <1>3, <1>4, <1>5, <1>6, <1>7, <1>8 DEF HandInv, OnlyWaiting

\* The command slot while the transport lane fills it: an empty slot whose
\* words are not a command yet.
LEMMA HandStore ==
  ASSUME HandInv, TypeInv', sub.pc = "store", sub'.pc = "store",
         UNCHANGED <<take, offer, accepted, rejected, handed>>,
         slot'.kind = slot.kind, StoresAlone',
         sub'.id = sub.id /\ sub'.kind = sub.kind /\ sub'.pay = sub.pay
  PROVE  HandInv'
<1>1. slot.kind = None
  BY DEF HandInv, StoresAlone
<1>2. SubmitsOffered' /\ TakesCopy' /\ SlotExact' /\ HandedSound'
  <2>1. SubmitsOffered'
    BY DEF HandInv, SubmitsOffered
  <2>2. take.pc \notin InSlotTake /\ take.pc # "clear"
    BY <1>1 DEF HandInv, TakesCopy, InSlotTake
  <2>3. TakesCopy' /\ SlotExact'
    BY <1>1, <2>2 DEF TakesCopy, SlotExact
  <2>4. HandedSound'
    BY DEF HandInv, HandedSound, AsOffered
  <2> QED  BY <2>1, <2>3, <2>4
<1>3. HandedIds' = HandedIds /\ \A d \in Ids : PendingId(d)' = PendingId(d)
  BY <1>1 DEF HandedIds, PendingId
<1>4. sub.id \in Ids
  BY HandTypes DEF HandInv, SubInside
<1>5. Fates'
  BY <1>3, <1>4 DEF HandInv, Fates, Admitted, Untouched, InOnePlace
<1> QED  BY <1>2, <1>5 DEF HandInv, OnlyWaiting

\* What a take hands over is, word for word, what the slot holds.
LEMMA TakenIsPending ==
  ASSUME HandInv, take.pc = "clear"
  PROVE  /\ slot.kind # None /\ slot.id \in Ids
         /\ Whole(TakenCommand) = Whole(slot)
         /\ Whole(slot) = AsOffered(slot.id)
         /\ TakenCommand.id = slot.id /\ TakenCommand.kind = slot.kind
<1>1. take \in TakeType /\ slot \in SlotType
  BY HandTypes DEF HandInv
<1>2. slot.kind # None /\ take.kind = slot.kind /\ take.id = slot.id /\ take.next = Words + 1
  BY DEF HandInv, TakesCopy, InSlotTake
<1>3. \A w \in 1..Words : w < take.next
  BY <1>2, WordsAssumption
<1>4. \A w \in 1..Words : take.words[w] = slot.words[w]
  BY <1>3 DEF HandInv, TakesCopy, InSlotTake
<1>5. take.words = slot.words
  <2>1. take.words \in [1..Words -> WordValues] /\ slot.words \in [1..Words -> WordValues]
    BY <1>1 DEF TakeType, SlotType, WordVectors
  <2>2. take.words = [w \in 1..Words |-> slot.words[w]]
    BY <1>4, <2>1
  <2>3. slot.words = [w \in 1..Words |-> slot.words[w]]
    BY <2>1
  <2> QED  BY <2>2, <2>3
<1>6. slot.id \in Ids /\ Whole(slot) = AsOffered(slot.id)
  BY <1>2 DEF HandInv, SlotExact
<1> QED  BY <1>2, <1>5, <1>6 DEF TakenCommand, Whole

LEMMA HandInvStep == HandInv /\ [Next]_vars => HandInv'
<1> SUFFICES ASSUME HandInv, [Next]_vars PROVE HandInv'
  OBVIOUS
<1>t. TypeInv /\ TypeInv'
  BY TypeInvStep DEF HandInv
<1>f. /\ sub \in SubType /\ take \in TakeType /\ slot \in SlotType
      /\ offer \in [Ids -> OfferType] /\ handed \in Seq(HandedType)
      /\ accepted \subseteq Ids /\ rejected \subseteq Ids /\ SubInside
      /\ None \notin SlotKinds /\ "cmd_vel" \notin SlotKinds /\ "ordinary" \in SlotKinds
      /\ IdleSub.pc = "idle" /\ IdleTake.pc = "idle"
  BY <1>t, HandTypes
<1>p. sub.pc \in {"idle", "check", "store", "publish", "vel_check", "vel_replaced", "vel_store"}
  BY DEF HandInv, SubmitsOffered, InVelocitySubmit
<1>1. CASE TakeLoadVelocityKind
  BY <1>1, <1>t, <1>f, HandFrameTake
  DEF TakeLoadVelocityKind, history, events, InSlotTake, TakeType
<1>2. CASE TakeLoadVelocityWord
  BY <1>2, <1>t, <1>f, HandFrameTake
  DEF TakeLoadVelocityWord, history, events, InSlotTake, TakeType
<1>3. CASE TakeLoadVelocityId
  BY <1>3, <1>t, <1>f, HandFrameTake
  DEF TakeLoadVelocityId, history, events, InSlotTake, TakeType
<1>4. CASE TakeClearVelocity
  BY <1>4, <1>t, <1>f, HandFrameTake
  DEF TakeClearVelocity, history, events, InSlotTake, TakeType
<1>5. CASE TakeClearRenewal
  BY <1>5, <1>t, <1>f, HandFrameTake DEF TakeClearRenewal, events, InSlotTake
<1>6. CASE StreamStart
  BY <1>6, <1>t, HandFrameTake DEF StreamStart, history, events
<1>7. CASE StreamStop
  BY <1>7, <1>t, HandFrameTake DEF StreamStop, history, events
<1>8. CASE UNCHANGED vars
  BY <1>8, <1>t, HandFrameTake DEF vars, history, events
<1>9. CASE PreemptLoadVelocity \/ PreemptLoadVelocityId \/ PreemptClearVelocity
  BY <1>9, <1>p DEF PreemptLoadVelocity, PreemptLoadVelocityId, PreemptClearVelocity
<1>10. CASE VelocityCheck
  BY <1>10, <1>t, <1>f, HandFrameVelocity
  DEF VelocityCheck, Goto, InVelocitySubmit, SubType
<1>11. CASE VelocityLoadReplaced
  BY <1>11, <1>t, <1>f, HandFrameVelocity
  DEF VelocityLoadReplaced, history, events, InVelocitySubmit, SubType
<1>12. CASE VelocityStoreId
  BY <1>12, <1>t, <1>f, HandFrameVelocity
  DEF VelocityStoreId, history, events, InVelocitySubmit, SubType
<1>13. CASE VelocityStoreWord
  BY <1>13, <1>t, <1>f, HandFrameVelocity
  DEF VelocityStoreWord, history, events, InVelocitySubmit, SubType
<1>14. CASE VelocityStoreRenewal
  BY <1>14, <1>t, <1>f, HandFrameVelocity
  DEF VelocityStoreRenewal, history, events, InVelocitySubmit, SubType
<1>15. CASE VelocityStoreKind
  BY <1>15, <1>t, <1>f, HandFrameVelocity
  DEF VelocityStoreKind, Goto, history, events, InVelocitySubmit, SubType
<1>16. CASE SubmitStoreId
  <2>1. /\ sub.pc = "store" /\ sub'.pc = "store" /\ sub'.next = 1
        /\ sub'.id = sub.id /\ sub'.kind = sub.kind /\ sub'.pay = sub.pay
        /\ slot'.kind = slot.kind /\ slot'.id = sub.id /\ slot'.words = slot.words
        /\ UNCHANGED <<take, offer, accepted, rejected, handed>>
    BY <1>16, <1>f DEF SubmitStoreId, SubType, SlotType, history, events
  <2>2. StoresAlone'
    BY <2>1 DEF HandInv, StoresAlone
  <2> QED  BY <1>t, <2>1, <2>2, HandStore
<1>17. CASE SubmitStoreWord
  <2>1. /\ sub.pc = "store" /\ sub'.pc = "store" /\ sub'.next = sub.next + 1
        /\ sub'.id = sub.id /\ sub'.kind = sub.kind /\ sub'.pay = sub.pay
        /\ slot'.kind = slot.kind /\ slot'.id = slot.id
        /\ UNCHANGED <<take, offer, accepted, rejected, handed>>
        /\ sub.next \in 1..Words
    BY <1>17, <1>f DEF SubmitStoreWord, SubType, SlotType, history, events
  <2>2. /\ slot'.words[sub.next] = sub.pay
        /\ \A w \in 1..Words : w # sub.next => slot'.words[w] = slot.words[w]
    <3>1. slot.words \in [1..Words -> WordValues]
      BY <1>f DEF SlotType, WordVectors
    <3>2. slot'.words = [slot.words EXCEPT ![sub.next] = sub.pay]
      BY <1>17, <1>f DEF SubmitStoreWord, SlotType
    <3> QED  BY <2>1, <3>1, <3>2
  <2>3. \A w \in 1..Words : w < sub'.next => w < sub.next \/ w = sub.next
    BY <2>1, WordsAssumption
  <2>4. sub.next # 0
    BY <2>1
  <2>5. StoresAlone'
    BY <2>1, <2>2, <2>3, <2>4 DEF HandInv, StoresAlone
  <2> QED  BY <1>t, <2>1, <2>5, HandStore
<1>18. CASE SubmitStoreKind
  <2>1. /\ sub.pc = "store" /\ sub'.pc = "publish" /\ sub.next = Words + 1
        /\ sub'.id = sub.id /\ sub'.kind = sub.kind /\ sub'.pay = sub.pay
        /\ slot'.kind = sub.kind /\ slot'.id = slot.id /\ slot'.words = slot.words
        /\ UNCHANGED <<take, offer, accepted, rejected, handed>>
    BY <1>18, <1>f DEF SubmitStoreKind, Goto, SubType, SlotType, events
  <2>2. /\ sub.id \in Ids /\ sub.kind = "ordinary" /\ slot.kind = None /\ slot.id = sub.id
        /\ offer[sub.id] = [kind |-> sub.kind, pay |-> sub.pay]
        /\ Untouched(sub.id) /\ sub.id \notin accepted \cup rejected
    <3>1. sub.next # 0
      BY <2>1, WordsAssumption
    <3> QED  BY <2>1, <1>f, <3>1 DEF HandInv, SubmitsOffered, StoresAlone, Fates, SubInside
  <2>3. slot'.words = [w \in 1..Words |-> sub.pay]
    <3>1. \A w \in 1..Words : w < sub.next
      BY <2>1, WordsAssumption
    <3>2. \A w \in 1..Words : slot.words[w] = sub.pay
      BY <2>1, <3>1 DEF HandInv, StoresAlone
    <3>3. slot.words \in [1..Words -> WordValues]
      BY <1>f DEF SlotType, WordVectors
    <3> QED  BY <2>1, <3>2, <3>3
  <2>4. SubmitsOffered'
    BY <2>1 DEF HandInv, SubmitsOffered, InVelocitySubmit
  <2>5. StoresAlone' /\ HandedSound'
    BY <2>1 DEF HandInv, StoresAlone, HandedSound, AsOffered
  <2>6. TakesCopy'
    <3>1. take.pc \notin InSlotTake /\ take.pc # "clear"
      BY <2>2 DEF HandInv, TakesCopy, InSlotTake
    <3> QED  BY <2>1, <3>1 DEF TakesCopy
  <2>7. SlotExact'
    <3>1. Whole(slot)' = AsOffered(sub.id)'
      BY <2>1, <2>2, <2>3 DEF Whole, AsOffered
    <3>2. HandedIds' = HandedIds /\ sub.id \notin HandedIds
      BY <2>1, <2>2 DEF HandedIds, Untouched
    <3> QED  BY <2>1, <2>2, <3>1, <3>2 DEF SlotExact
  <2>8. Fates'
    <3>1. /\ HandedIds' = HandedIds
          /\ \A d \in Ids : PendingId(d)' <=> d = sub.id
          /\ \A d \in Ids : ~PendingId(d)
      BY <2>1, <2>2, <1>f DEF HandedIds, PendingId
    <3>2. \A d \in Ids : Admitted(d)' => d \in accepted \/ d = sub.id
      BY <2>1 DEF Admitted
    <3>3. ASSUME NEW d \in Ids, offer[d].kind \in SlotKinds, Admitted(d)'
          PROVE  InOnePlace(d)'
      <4>1. CASE d = sub.id
        BY <2>2, <3>1, <4>1 DEF Untouched, InOnePlace
      <4>2. CASE d # sub.id
        <5>1. Admitted(d)
          BY <3>2, <3>3, <4>2 DEF Admitted
        <5> QED  BY <3>1, <3>3, <4>2, <5>1 DEF HandInv, Fates, InOnePlace
      <4> QED  BY <4>1, <4>2
    <3>4. ASSUME NEW d \in Ids, offer[d].kind \in SlotKinds, d \in rejected
          PROVE  Untouched(d)'
      BY <2>2, <3>1, <3>4 DEF HandInv, Fates, Untouched, InOnePlace
    <3> QED  BY <2>1, <3>3, <3>4 DEF HandInv, Fates
  <2> QED  BY <1>t, <2>4, <2>5, <2>6, <2>7, <2>8 DEF HandInv, OnlyWaiting
<1>19. CASE SubmitPublish
  <2>1. /\ sub.pc = "publish" /\ sub'.pc = "idle" /\ sub.id \in Ids
        /\ accepted' \subseteq accepted \cup {sub.id}
        /\ UNCHANGED <<slot, take, offer, rejected, handed>>
    BY <1>19, <1>f DEF SubmitPublish, SubInside
  <2>2. /\ SubmitsOffered' /\ StoresAlone' /\ TakesCopy' /\ SlotExact' /\ HandedSound'
    <3>1. SubmitsOffered' /\ StoresAlone'
      BY <2>1 DEF SubmitsOffered, StoresAlone, InVelocitySubmit
    <3>2. TakesCopy' /\ SlotExact' /\ HandedSound'
      BY <2>1 DEF HandInv, TakesCopy, SlotExact, HandedSound, HandedIds, AsOffered
    <3> QED  BY <3>1, <3>2
  <2>3. offer[sub.id] # NoCommand
    <3>1. offer[sub.id].kind \in {"ordinary", "cmd_vel"}
      BY <2>1 DEF HandInv, SubmitsOffered
    <3> QED  BY <3>1 DEF NoCommand, None
  <2>4. /\ HandedIds' = HandedIds /\ \A d \in Ids : PendingId(d)' = PendingId(d)
        /\ \A d \in Ids : Admitted(d)' => Admitted(d)
    BY <2>1 DEF HandedIds, PendingId, Admitted
  <2>5. Fates'
    BY <2>1, <2>3, <2>4 DEF HandInv, Fates, Untouched, InOnePlace
  <2> QED  BY <1>t, <2>2, <2>5 DEF HandInv, OnlyWaiting
<1>20. CASE SubmitCheck
  <2>1. /\ sub.pc = "check" /\ sub.id \in Ids
        /\ UNCHANGED <<slot, take, offer, accepted, handed>>
    BY <1>20, <1>f DEF SubmitCheck, SubInside
  <2>2. sub.kind = "ordinary" /\ offer[sub.id] = [kind |-> sub.kind, pay |-> sub.pay]
    BY <2>1 DEF HandInv, SubmitsOffered
  <2>3. ~Replaces(sub.kind, slot.kind)
    BY <2>2 DEF Replaces, Preempting
  <2>4. \/ sub'.pc = "idle" /\ rejected' = rejected \cup {sub.id}
        \/ /\ slot.kind = None /\ sub'.pc = "store" /\ sub'.next = 0 /\ rejected' = rejected
           /\ sub'.id = sub.id /\ sub'.kind = sub.kind /\ sub'.pay = sub.pay
    BY <1>20, <2>3, <1>f DEF SubmitCheck, SubType
  <2>5. SubmitsOffered'
    BY <2>1, <2>2, <2>4 DEF SubmitsOffered, InVelocitySubmit
  <2>6. StoresAlone'
    BY <2>1, <2>4, WordsAssumption DEF StoresAlone
  <2>7. TakesCopy' /\ SlotExact' /\ HandedSound'
    BY <2>1 DEF HandInv, TakesCopy, SlotExact, HandedSound, HandedIds, AsOffered
  <2>8. Fates'
    <3>1. /\ HandedIds' = HandedIds /\ \A d \in Ids : PendingId(d)' = PendingId(d)
          /\ \A d \in Ids : Admitted(d)' => Admitted(d)
      BY <2>1, <2>4 DEF HandedIds, PendingId, Admitted
    <3>2. Untouched(sub.id) /\ sub.id \notin accepted \cup rejected
      BY <2>1 DEF HandInv, Fates
    <3>3. offer[sub.id] # NoCommand
      BY <2>2 DEF NoCommand, None
    <3> QED  BY <2>1, <2>4, <3>1, <3>2, <3>3 DEF HandInv, Fates, Untouched, InOnePlace
  <2> QED  BY <1>t, <2>5, <2>6, <2>7, <2>8 DEF HandInv, OnlyWaiting
<1>21. CASE TakeLoadKind
  <2>1. /\ UNCHANGED <<slot, sub, offer, accepted, rejected, handed>>
        /\ \/ take'.pc = "vel_kind"
           \/ /\ slot.kind # None /\ take'.pc = "words" /\ take'.kind = slot.kind
              /\ take'.next = 1
    BY <1>21 DEF TakeLoadKind, IdleTake, history, events
  <2>2. TakesCopy'
    BY <2>1 DEF TakesCopy, InSlotTake
  <2>3. SubmitsOffered' /\ StoresAlone' /\ SlotExact' /\ HandedSound'
    BY <2>1
    DEF HandInv, SubmitsOffered, StoresAlone, SlotExact, HandedSound, HandedIds, AsOffered
  <2>4. Fates'
    BY <2>1 DEF HandInv, Fates, Admitted, Untouched, InOnePlace, HandedIds, PendingId
  <2> QED  BY <1>t, <2>2, <2>3, <2>4 DEF HandInv, OnlyWaiting
<1>22. CASE TakeLoadWord
  <2>1. /\ UNCHANGED <<slot, sub, offer, accepted, rejected, handed>>
        /\ take.pc = "words" /\ take'.pc = "words" /\ take'.kind = take.kind
        /\ take'.next = take.next + 1 /\ take.next \in 1..Words
    BY <1>22, <1>f DEF TakeLoadWord, TakeType, history, events
  <2>2. /\ take'.words[take.next] = slot.words[take.next]
        /\ \A w \in 1..Words : w # take.next => take'.words[w] = take.words[w]
    <3>1. take.words \in [1..Words -> WordValues]
      BY <1>f DEF TakeType, WordVectors
    <3>2. take'.words = [take.words EXCEPT ![take.next] = slot.words[take.next]]
      BY <1>22, <1>f DEF TakeLoadWord, TakeType
    <3> QED  BY <2>1, <3>1, <3>2
  <2>3. \A w \in 1..Words : w < take'.next => w < take.next \/ w = take.next
    BY <2>1, WordsAssumption
  <2>4. TakesCopy'
    BY <2>1, <2>2, <2>3 DEF HandInv, TakesCopy, InSlotTake
  <2>5. SubmitsOffered' /\ StoresAlone' /\ SlotExact' /\ HandedSound'
    BY <2>1
    DEF HandInv, SubmitsOffered, StoresAlone, SlotExact, HandedSound, HandedIds, AsOffered
  <2>6. Fates'
    BY <2>1 DEF HandInv, Fates, Admitted, Untouched, InOnePlace, HandedIds, PendingId
  <2> QED  BY <1>t, <2>4, <2>5, <2>6 DEF HandInv, OnlyWaiting
<1>23. CASE TakeLoadId
  <2>1. /\ UNCHANGED <<slot, sub, offer, accepted, rejected, handed>>
        /\ take.pc = "words" /\ take'.pc = "clear" /\ take'.kind = take.kind
        /\ take'.next = take.next /\ take.next = Words + 1
        /\ take'.words = take.words /\ take'.id = slot.id
    BY <1>23, <1>f DEF TakeLoadId, TakeType, history, events
  <2>2. TakesCopy'
    BY <2>1 DEF HandInv, TakesCopy, InSlotTake
  <2>3. SubmitsOffered' /\ StoresAlone' /\ SlotExact' /\ HandedSound'
    BY <2>1
    DEF HandInv, SubmitsOffered, StoresAlone, SlotExact, HandedSound, HandedIds, AsOffered
  <2>4. Fates'
    BY <2>1 DEF HandInv, Fates, Admitted, Untouched, InOnePlace, HandedIds, PendingId
  <2> QED  BY <1>t, <2>2, <2>3, <2>4 DEF HandInv, OnlyWaiting
<1>24. CASE Offer
  <2>1. ASSUME NEW c \in Ids, NEW p \in Payloads, NEW k \in Kinds,
               SubmitImmediate(c, k, p)
        PROVE  HandInv'
    <3>1. k \notin SlotKinds
      BY <2>1 DEF SubmitImmediate, SlotKinds, Preempting
    <3>2. /\ accepted' \subseteq accepted \cup {c} /\ rejected' \subseteq rejected \cup {c}
          /\ Enter(c, k, p) /\ UNCHANGED <<slot, sub, take, handed>>
      BY <2>1 DEF SubmitImmediate
    <3> QED  BY <1>t, <3>1, <3>2, HandOffer
  <2>2. ASSUME NEW c \in Ids, NEW p \in Payloads, NEW k \in Kinds,
               SubmitSlotCommand(c, k, p)
        PROVE  HandInv'
    <3>1. k = "ordinary" /\ k \notin Preempting
      <4>1. k \in Offered /\ k \in SlotKinds
        BY <2>2 DEF SubmitSlotCommand, Enter
      <4> QED  BY <4>1 DEF HandInv, OnlyWaiting, SlotKinds
    <3>2. sub'.id = c /\ sub'.kind = k /\ sub'.pay = p /\ sub'.pc = "check"
      BY <2>2, <3>1 DEF SubmitSlotCommand, Submitting, IdleSub
    <3>3. Enter(c, k, p) /\ UNCHANGED <<slot, take, handed, accepted, rejected>>
      BY <2>2 DEF SubmitSlotCommand, events
    <3> QED  BY <1>t, <3>1, <3>2, <3>3, HandOffer
  <2>3. ASSUME NEW c \in Ids, NEW p \in Payloads, SubmitVelocity(c, p)
        PROVE  HandInv'
    <3>1. sub'.id = c /\ sub'.kind = "cmd_vel" /\ sub'.pay = p /\ sub'.pc = "vel_check"
      BY <2>3 DEF SubmitVelocity, Submitting, IdleSub
    <3>2. "cmd_vel" \in Kinds
      BY DEF Kinds
    <3>3. Enter(c, "cmd_vel", p) /\ UNCHANGED <<slot, take, handed, accepted, rejected>>
      BY <2>3 DEF SubmitVelocity, events
    <3> QED  BY <1>t, <3>1, <3>2, <3>3, HandOffer
  <2> QED  BY <1>24, <2>1, <2>2, <2>3 DEF Offer
<1>25. CASE TakeClear
  <2>1. /\ take.pc = "clear" /\ take'.pc = "idle" /\ slot'.kind = None
        /\ handed' = Append(handed, TakenCommand)
        /\ UNCHANGED <<sub, offer, accepted, rejected>>
    BY <1>25, <1>f DEF TakeClear, events, SlotType
  <2>2. /\ slot.kind # None /\ slot.kind \in SlotKinds /\ slot.id \in Ids
        /\ Whole(TakenCommand) = AsOffered(slot.id)
        /\ TakenCommand.id = slot.id /\ TakenCommand.kind = slot.kind
        /\ slot.id \notin HandedIds
    BY <2>1, <1>f, TakenIsPending DEF HandInv, SlotExact, SlotType
  <2>3. /\ DOMAIN handed' = DOMAIN handed \cup {Len(handed) + 1}
        /\ Len(handed) + 1 \notin DOMAIN handed
        /\ \A i \in DOMAIN handed : handed'[i] = handed[i]
        /\ handed'[Len(handed) + 1] = TakenCommand
    BY <2>1, <1>f
  <2>4. HandedIds' = HandedIds \cup {slot.id}
    BY <2>2, <2>3 DEF HandedIds
  <2>5. SubmitsOffered' /\ TakesCopy' /\ SlotExact'
    BY <2>1 DEF HandInv, SubmitsOffered, TakesCopy, SlotExact, InSlotTake
  <2>6. StoresAlone'
    BY <2>1, <2>2 DEF HandInv, StoresAlone
  <2>7. HandedSound'
    <3>1. \A i \in DOMAIN handed : handed[i].id # slot.id
      BY <2>2 DEF HandedIds
    <3>3. ASSUME NEW i \in DOMAIN handed'
          PROVE  /\ handed'[i].id \in Ids /\ handed'[i].kind \in SlotKinds
                 /\ Whole(handed'[i]) = AsOffered(handed'[i].id)
      BY <2>2, <2>3, <3>3 DEF HandInv, HandedSound
    <3>4. ASSUME NEW i \in DOMAIN handed', NEW j \in DOMAIN handed', i # j
          PROVE  handed'[i].id # handed'[j].id
      BY <2>2, <2>3, <3>1, <3>4 DEF HandInv, HandedSound
    <3>5. \A c \in Ids : [kind |-> offer'[c].kind, id |-> c, words |-> [w \in 1..Words |-> offer'[c].pay]] = AsOffered(c)
      BY <2>1 DEF AsOffered
    <3> QED  BY <2>1, <3>3, <3>4, <3>5 DEF HandedSound, AsOffered
  <2>8. Fates'
    <3>1. /\ \A d \in Ids : ~PendingId(d)'
          /\ \A d \in Ids : PendingId(d) <=> d = slot.id
          /\ \A d \in Ids : Admitted(d)' <=> Admitted(d)
      BY <2>1, <2>2 DEF PendingId, Admitted
    <3>2. ASSUME NEW d \in Ids, offer[d].kind \in SlotKinds, Admitted(d)
          PROVE  d \in HandedIds'
      BY <2>4, <3>1, <3>2 DEF HandInv, Fates, InOnePlace
    <3>3. ASSUME NEW d \in Ids, Untouched(d)
          PROVE  Untouched(d)'
      BY <2>4, <3>1, <3>3 DEF Untouched
    <3>4. sub.pc # "idle" => sub.id \in Ids
      BY <1>f DEF SubInside
    <3> QED  BY <2>1, <3>1, <3>2, <3>3, <3>4 DEF HandInv, Fates, InOnePlace
  <2> QED  BY <1>t, <2>5, <2>6, <2>7, <2>8 DEF HandInv, OnlyWaiting
<1> QED
  BY <1>1, <1>2, <1>3, <1>4, <1>5, <1>6, <1>7, <1>8, <1>9, <1>10, <1>11, <1>12, <1>13,
     <1>14, <1>15, <1>16, <1>17, <1>18, <1>19, <1>20, <1>21, <1>22, <1>23, <1>24, <1>25
  DEF Next, TransportStep, TakeStep

\* A command the runtime takes from the command slot is exactly one the host
\* offered, whole and once, an accepted one is in the slot or was taken and a
\* rejected one is nowhere: with commands that wait for an empty slot, the two
\* lanes of status/commands.rs need no lock.
THEOREM AlwaysHandedExactly == OnlyWaiting /\ Spec => []HandedExactly
<1>1. HandInv => HandedExactly
  <2> SUFFICES ASSUME HandInv PROVE HandedExactly
    OBVIOUS
  <2>1. ASSUME NEW c \in Ids, offer[c].kind \in SlotKinds
        PROVE  /\ c \in accepted => (c \in HandedIds) # PendingId(c)
               /\ c \in rejected => c \notin HandedIds /\ ~PendingId(c)
    <3>1. /\ c \in accepted => InOnePlace(c)
          /\ c \in rejected => Untouched(c)
      BY <2>1 DEF HandInv, Fates, Admitted
    <3>2. InOnePlace(c) => (c \in HandedIds) # PendingId(c)
      BY DEF InOnePlace, PendingId
    <3> QED  BY <3>1, <3>2 DEF Untouched
  <2> QED  BY <2>1 DEF HandInv, HandedSound, HandedExactly
<1> QED  BY <1>1, HandInvInit, HandInvStep, PTL DEF Spec

-----------------------------------------------------------------------------
(* The command slot as a one-place buffer: the KIND store of a submit puts, *)
(* the KIND store of a take gets, every other step leaves the buffer alone. *)

LEMMA StorePuts ==
  ASSUME HandInv, HandInv', SubmitStoreKind
  PROVE  Buffer!Put
<1>1. /\ slot \in SlotType /\ sub \in SubType /\ slot' \in SlotType
  BY HandTypes DEF HandInv, TypeInv, TypeOK
<1>2. /\ sub.pc = "store" /\ slot'.kind = sub.kind /\ handed' = handed /\ sub'.pc = "publish"
      /\ sub'.id = sub.id /\ sub'.pay = sub.pay /\ slot'.id = slot.id
  BY <1>1 DEF SubmitStoreKind, Goto, SubType, SlotType
<1>3. slot.kind = None /\ slot'.kind # None /\ slot'.kind \in SlotKinds
  BY <1>1, <1>2 DEF HandInv, StoresAlone, SubmitsOffered, SlotType, None
<1>4. /\ slot'.id \in Ids /\ slot'.id \notin HandedIds
      /\ Whole(slot') = [kind |-> offer'[slot'.id].kind, id |-> slot'.id,
                         words |-> [w \in 1..Words |-> offer'[slot'.id].pay]]
  BY <1>2, <1>3 DEF HandInv, SlotExact, HandedIds, AsOffered, Whole
<1>5. slot'.id = sub.id /\ offer'[slot'.id].pay \in Payloads
  <2>1. sub.next # 0
    BY WordsAssumption DEF SubmitStoreKind
  <2>2. slot.id = sub.id
    BY <1>2, <2>1 DEF HandInv, StoresAlone
  <2>3. offer[sub.id] = [kind |-> sub.kind, pay |-> sub.pay] /\ offer' = offer
    BY <1>2 DEF HandInv, SubmitsOffered, SubmitStoreKind
  <2>4. sub.pay \in Payloads
    BY <1>2 DEF HandInv, TypeInv, SubInside
  <2> QED  BY <1>2, <2>2, <2>3, <2>4
<1>6. offer'[slot'.id].kind = slot'.kind
  BY <1>4 DEF Whole
<1>7. Whole(slot') \in SlotCommands
  BY <1>3, <1>4, <1>5, <1>6 DEF SlotCommands
<1>8. BufferPlace = EmptySlot
      /\ BufferPlace' = Whole(slot') /\ Whole(slot').id = slot'.id
  BY <1>3 DEF BufferPlace, Whole
<1>9. BufferUsed = HandedIds /\ BufferUsed' = HandedIds \cup {slot'.id}
  BY <1>2, <1>3 DEF BufferUsed, HandedIds
<1>10. BufferReceived' = BufferReceived
  BY <1>2 DEF BufferReceived
<1> QED
  BY <1>4, <1>7, <1>8, <1>9, <1>10 DEF Buffer!Put

LEMMA ClearGets ==
  ASSUME HandInv, TakeClear
  PROVE  Buffer!Get
<1>1. /\ slot \in SlotType /\ handed \in Seq(HandedType) /\ take \in TakeType
  BY HandTypes DEF HandInv
<1>2. /\ take.pc = "clear" /\ slot'.kind = None /\ handed' = Append(handed, TakenCommand)
  BY <1>1 DEF TakeClear, SlotType
<1>3. /\ slot.kind # None /\ Whole(TakenCommand) = Whole(slot) /\ TakenCommand.id = slot.id
  BY <1>2, TakenIsPending
<1>4. /\ Len(handed') = Len(handed) + 1 /\ Len(handed) \in Nat
      /\ DOMAIN handed = 1..Len(handed) /\ DOMAIN handed' = 1..(Len(handed) + 1)
      /\ \A i \in 1..Len(handed) : handed'[i] = handed[i]
      /\ handed'[Len(handed) + 1] = TakenCommand
  BY <1>1, <1>2
<1>5. BufferPlace' = EmptySlot
      /\ BufferPlace = Whole(slot) /\ BufferPlace # EmptySlot
  BY <1>2, <1>3 DEF BufferPlace, Whole, EmptySlot
<1>6. BufferUsed' = BufferUsed
  <2>1. HandedIds' = HandedIds \cup {slot.id}
    <3>1. /\ DOMAIN handed' = DOMAIN handed \cup {Len(handed) + 1}
          /\ \A i \in DOMAIN handed : handed'[i] = handed[i]
      BY <1>4
    <3> QED  BY <1>3, <1>4, <3>1 DEF HandedIds
  <2> QED  BY <1>2, <1>3, <2>1 DEF BufferUsed
<1>7. BufferReceived' = Append(BufferReceived, Whole(slot))
  <2> DEFINE T == [kind : Kinds \cup {None}, id : IdOrNone, words : WordVectors]
             W == [i \in 1..Len(handed) |-> Whole(handed[i])]
             x == Whole(slot)
             n == Len(handed) + 1
  <2>1. x \in T
    <3>1. slot.kind \in Kinds \cup {None}
      BY <1>1 DEF SlotType, Kinds
    <3> QED  BY <1>1, <3>1 DEF SlotType, Whole
  <2>2. W \in Seq(T) /\ Len(W) = Len(handed)
    <3>1. \A i \in 1..Len(handed) : Whole(handed[i]) \in T
      <4>1. ASSUME NEW h \in HandedType PROVE Whole(h) \in T
        BY <4>1 DEF HandedType, Whole
      <4>2. \A i \in 1..Len(handed) : handed[i] \in HandedType
        BY <1>1
      <4> QED  BY <4>1, <4>2
    <3> HIDE DEF T
    <3>2. W \in [1..Len(handed) -> T]
      BY <3>1
    <3> QED  BY <3>2, <1>4
  <2> HIDE DEF T, W, x
  <2>3. /\ Append(W, x) \in Seq(T) /\ Len(Append(W, x)) = n
        /\ \A i \in 1..Len(handed) : Append(W, x)[i] = W[i]
        /\ Append(W, x)[n] = x
    BY <2>1, <2>2, AppendProperties
  <2>4. Append(W, x) = [i \in 1..n |-> Append(W, x)[i]]
    BY <2>3, LenProperties
  <2>5. ASSUME NEW i \in 1..n
        PROVE  Whole(handed'[i]) = Append(W, x)[i]
    <3>1. CASE i = n
      BY <1>3, <1>4, <2>3, <3>1 DEF x
    <3>2. CASE i # n
      <4>1. i \in 1..Len(handed)
        BY <1>4, <3>2
      <4>2. W[i] = Whole(handed[i])
        BY <4>1 DEF W
      <4> QED  BY <1>4, <2>3, <4>1, <4>2
    <3> QED  BY <3>1, <3>2
  <2>6. [i \in 1..n |-> Whole(handed'[i])] = Append(W, x)
    BY <2>4, <2>5
  <2> QED  BY <1>4, <2>6 DEF BufferReceived, W, x
<1> QED
  BY <1>5, <1>6, <1>7 DEF Buffer!Get

LEMMA SlotStepRefines ==
  HandInv /\ [Next]_vars
    => [Buffer!Put \/ Buffer!Get]_<<BufferPlace, BufferReceived, BufferUsed>>
<1> SUFFICES ASSUME HandInv, [Next]_vars
             PROVE  \/ Buffer!Put \/ Buffer!Get
                    \/ UNCHANGED <<BufferPlace, BufferReceived, BufferUsed>>
  OBVIOUS
<1>i. HandInv'
  BY HandInvStep
<1>s. ASSUME UNCHANGED <<slot, handed>>
      PROVE  UNCHANGED <<BufferPlace, BufferReceived, BufferUsed>>
  BY <1>s DEF BufferPlace, BufferReceived, BufferUsed, HandedIds
<1>1. CASE SubmitStoreKind
  BY <1>1, <1>i, StorePuts
<1>2. CASE TakeClear
  BY <1>2, ClearGets
<1>3. CASE SubmitStoreId \/ SubmitStoreWord
  <2>1. slot.kind = None /\ slot'.kind = slot.kind /\ handed' = handed
    <3>1. slot \in SlotType
      BY HandTypes DEF HandInv
    <3>2. slot.kind = None
      BY <1>3 DEF HandInv, StoresAlone, SubmitStoreId, SubmitStoreWord
    <3> QED  BY <1>3, <3>1, <3>2 DEF SubmitStoreId, SubmitStoreWord, SlotType, history
  <2> QED  BY <2>1 DEF BufferPlace, BufferReceived, BufferUsed, HandedIds
<1>4. CASE \/ TakeLoadKind \/ TakeLoadWord \/ TakeLoadId \/ TakeLoadVelocityKind
           \/ TakeLoadVelocityWord \/ TakeLoadVelocityId \/ TakeClearVelocity
           \/ TakeClearRenewal \/ StreamStart \/ StreamStop
  BY <1>4, <1>s
  DEF TakeLoadKind, TakeLoadWord, TakeLoadId, TakeLoadVelocityKind, TakeLoadVelocityWord,
      TakeLoadVelocityId, TakeClearVelocity, TakeClearRenewal, StreamStart, StreamStop,
      history
<1>5. CASE \/ PreemptLoadVelocity \/ PreemptLoadVelocityId \/ PreemptClearVelocity
           \/ SubmitCheck \/ SubmitPublish \/ VelocityCheck \/ VelocityLoadReplaced
           \/ VelocityStoreId \/ VelocityStoreWord \/ VelocityStoreRenewal
           \/ VelocityStoreKind
  BY <1>5, <1>s
  DEF PreemptLoadVelocity, PreemptLoadVelocityId, PreemptClearVelocity, SubmitCheck,
      SubmitPublish, VelocityCheck, VelocityLoadReplaced, VelocityStoreId,
      VelocityStoreWord, VelocityStoreRenewal, VelocityStoreKind, history
<1>6. CASE Offer
  BY <1>6, <1>s DEF Offer, SubmitImmediate, SubmitSlotCommand, SubmitVelocity
<1>7. CASE UNCHANGED vars
  BY <1>7, <1>s DEF vars, history
<1> QED
  BY <1>1, <1>2, <1>3, <1>4, <1>5, <1>6, <1>7 DEF Next, TransportStep, TakeStep

\* With commands that wait, the words of the command slot, stored and loaded
\* one by one by two lanes without a lock, implement the one-place buffer: the
\* runtime receives whole commands, each once, in the order they were put.
THEOREM SlotImplementsBuffer == OnlyWaiting /\ Spec => SlotIsBuffer
<1>1. Init => Buffer!BufferInit
  BY DEF Init, Buffer!BufferInit, BufferPlace, BufferReceived, BufferUsed, HandedIds
<1> QED
  BY <1>1, HandInvInit, HandInvStep, SlotStepRefines, PTL
  DEF Spec, SlotIsBuffer, Buffer!BufferSpec
==============================================================================
