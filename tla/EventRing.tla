-------------------------------- MODULE EventRing --------------------------------
(***************************************************************************)
(* The public event ring of the brainstem (status/events.rs) and the       *)
(* cursor a host reads it with (pete-cockpit, EventCursor).  Two lanes     *)
(* record events, the runtime on its core and the transport on another;    *)
(* the transport also answers polls, so it does not record while it reads. *)
(* Every load and store of the shared words that another lane can fall     *)
(* between is a step; the loads of one record's A, B and C are one, and so *)
(* are their stores.                                                       *)
(*                                                                         *)
(* The events of a behaviour are numbered in the order their lanes reserve *)
(* a place; an event's number stands for its kind and for its data.        *)
(***************************************************************************)
EXTENDS Naturals, Sequences, FiniteSets

CONSTANTS
  Capacity,   \* EVENT_LOG_CAPACITY
  Batch,      \* EVENT_RESPONSE_CAPACITY
  MaxEvents,  \* events recorded in a behaviour
  MaxLost     \* answers lost in a behaviour

ASSUME RingAssumption ==
  Capacity \in Nat \ {0} /\ Batch \in 1 .. Capacity /\ MaxEvents \in Nat /\ MaxLost \in Nat

Lanes == {"runtime", "transport"}
Nothing == 0  \* no event

VARIABLES
  next,       \* EVENT_NEXT_SEQ
  ring,       \* per slot, EVENT_SEQ, EVENT_KIND and EVENT_A/B/C
  recorder,   \* per lane, where record_public_event stands
  reader,     \* the answer under way to a poll
  cursor,     \* the host's EventCursor
  host,       \* "polling", or "missed" between MissedEvents and the next status
  lost,       \* answers lost
  numbered,   \* history: events numbered
  published,  \* history: the events published, each with its seq
  delivered,  \* history: the records of accepted batches
  excused,    \* history: the last seq a MissedEvents accounts for
  collided    \* history: two lanes have written one slot at a time

ringVars == <<next, ring, recorder, reader, cursor, host, lost, numbered, published,
              delivered, excused, collided>>

Idle == [step |-> "idle", seq |-> 0, event |-> Nothing]
NoPoll == [step |-> "idle", next |-> 0, at |-> 0, kind |-> Nothing, out |-> <<>>,
           batchNext |-> 0, dropped |-> 0, before |-> {}]

RingInit ==
  /\ next = 1
  /\ ring = [i \in 0 .. Capacity - 1 |-> [seq |-> 0, kind |-> Nothing, data |-> Nothing]]
  /\ recorder = [l \in Lanes |-> Idle] /\ reader = NoPoll
  /\ cursor = 0 /\ host = "polling" /\ lost = 0
  /\ numbered = 0 /\ published = {} /\ delivered = {} /\ excused = 0 /\ collided = FALSE

Index(seq) == seq % Capacity  \* event_index

-----------------------------------------------------------------------------
(* record_public_event, one lane.                                          *)

\* A lane of the reader's core records nothing during an answer.
MayRecord(l) == l = "transport" => reader.step = "idle"
hostVars == <<cursor, host, lost, delivered, excused>>

Reserve(l) ==
  /\ recorder[l].step = "idle" /\ MayRecord(l) /\ numbered < MaxEvents
  /\ numbered' = numbered + 1
  /\ recorder' = [recorder EXCEPT ![l] = [step |-> "loaded", seq |-> next, event |-> numbered + 1]]
  /\ UNCHANGED <<next, ring, reader, hostVars, published, collided>>

Advance(l, from, to) ==
  /\ recorder[l].step = from
  /\ recorder' = [recorder EXCEPT ![l].step = to]

StoreNext(l) ==
  /\ Advance(l, "loaded", "reserved")
  /\ next' = recorder[l].seq + 1
  /\ collided' = \/ collided \/ next # recorder[l].seq
                  \/ \E k \in Lanes \ {l} : /\ recorder[k].step # "idle"
                                           /\ Index(recorder[k].seq) = Index(recorder[l].seq)
  /\ UNCHANGED <<ring, reader, hostVars, numbered, published>>

StoreData(l) ==
  /\ Advance(l, "reserved", "data")
  /\ ring' = [ring EXCEPT ![Index(recorder[l].seq)].data = recorder[l].event]
  /\ UNCHANGED <<next, reader, hostVars, numbered, published, collided>>

StoreKind(l) ==
  /\ Advance(l, "data", "kind")
  /\ ring' = [ring EXCEPT ![Index(recorder[l].seq)].kind = recorder[l].event]
  /\ UNCHANGED <<next, reader, hostVars, numbered, published, collided>>

\* The seq is stored last: it publishes the record.
Publish(l) ==
  LET r == recorder[l] IN
  /\ r.step = "kind"
  /\ ring' = [ring EXCEPT ![Index(r.seq)].seq = r.seq]
  /\ published' = published \cup {[seq |-> r.seq, event |-> r.event]}
  /\ recorder' = [recorder EXCEPT ![l] = Idle]
  /\ UNCHANGED <<next, reader, hostVars, numbered, collided>>

Record(l) == StoreNext(l) \/ StoreData(l) \/ StoreKind(l) \/ Publish(l)

-----------------------------------------------------------------------------
(* render_events_json and write_compact_events: one answer.                *)

Minus(a, b) == IF a > b THEN a - b ELSE 0  \* saturating_sub
AtLeast(a, b) == IF a > b THEN a ELSE b

OldestSeq == AtLeast(Minus(next, Capacity), 1)
\* Mutant: the check is one event late.
DroppedBeforeSeq_Late(since) == IF since + 2 < OldestSeq THEN OldestSeq ELSE 0
DroppedBeforeSeq(since) == IF since + 1 < OldestSeq THEN OldestSeq ELSE 0
\* The seq collect_events_since starts from.
FirstSeq(since) == AtLeast(since, OldestSeq - 1) + 1
\* Mutant: the place is read whatever it holds.
Holds_Any(seq) == TRUE
\* The slot holds the record of this seq, as far as its seq tells.
Holds(seq) == ring[Index(seq)].seq = seq

answerRest == <<next, ring, recorder, hostVars, numbered, published, collided>>

BeginAnswer ==
  /\ host = "polling" /\ reader.step = "idle" /\ recorder["transport"].step = "idle"
  /\ reader' = [NoPoll EXCEPT !.step = "bound", !.next = next, !.before = published]
  /\ UNCHANGED answerRest

BoundAnswer ==
  /\ reader.step = "bound"
  /\ reader' = [reader EXCEPT !.step = "scan", !.at = FirstSeq(cursor)]
  /\ UNCHANGED answerRest

\* A record beyond the batch's room is read and dropped (push fails).
ScanSeq ==
  /\ reader.step = "scan" /\ reader.at < reader.next
  /\ reader' = IF Holds(reader.at) /\ Len(reader.out) < Batch
               THEN [reader EXCEPT !.step = "kind"]
               ELSE [reader EXCEPT !.at = @ + 1]
  /\ UNCHANGED answerRest

ReadKind ==
  /\ reader.step = "kind"
  /\ reader' = [reader EXCEPT !.step = "data", !.kind = ring[Index(reader.at)].kind]
  /\ UNCHANGED answerRest

ReadData ==
  /\ reader.step = "data"
  /\ reader' = [reader EXCEPT !.step = "scan", !.at = @ + 1, !.kind = Nothing,
                  !.out = Append(@, [seq |-> reader.at, kind |-> reader.kind,
                                     data |-> ring[Index(reader.at)].data])]
  /\ UNCHANGED answerRest

\* Mutant: the next page starts at the last record of this one.
BatchNext_Last(out) == IF out = <<>> THEN next ELSE out[Len(out)].seq
\* event_batch_next_seq: an empty batch loads the count again.
BatchNext(out) == IF out = <<>> THEN next ELSE out[Len(out)].seq + 1

CloseBatch ==
  /\ reader.step = "scan" /\ reader.at >= reader.next
  /\ reader' = [reader EXCEPT !.step = "close", !.batchNext = BatchNext(reader.out)]
  /\ UNCHANGED answerRest

\* The drop check follows the reads it vouches for.
CheckDropped ==
  /\ reader.step = "close"
  /\ reader' = [reader EXCEPT !.step = "answer", !.dropped = DroppedBeforeSeq(cursor)]
  /\ UNCHANGED answerRest

-----------------------------------------------------------------------------
(* The host: EventCursor::poll, and the status it starts afresh from.      *)

RecordsOf(out) == {out[i] : i \in 1 .. Len(out)}

CursorAfter(batchNext) == Minus(batchNext, 1)

Accept ==
  /\ reader.step = "answer" /\ reader.dropped = 0
  /\ cursor' = CursorAfter(reader.batchNext)
  /\ delivered' = delivered \cup RecordsOf(reader.out)
  /\ reader' = NoPoll
  /\ UNCHANGED <<next, ring, recorder, host, lost, numbered, published, excused, collided>>

\* MissedEvents: the batch is dropped and the cursor stays.
Refuse ==
  /\ reader.step = "answer" /\ reader.dropped # 0
  /\ host' = "missed" /\ reader' = NoPoll
  /\ UNCHANGED <<next, ring, recorder, cursor, lost, numbered, published, delivered, excused,
                 collided>>

LoseAnswer ==
  /\ reader.step = "answer" /\ lost < MaxLost
  /\ lost' = lost + 1 /\ reader' = NoPoll
  /\ UNCHANGED <<next, ring, recorder, cursor, host, numbered, published, delivered, excused,
                 collided>>

\* resync_event_cursor_from_status, after the report.
Resync ==
  /\ host = "missed" /\ recorder["transport"].step = "idle"
  /\ cursor' = CursorAfter(next) /\ excused' = Minus(next, 1) /\ host' = "polling"
  /\ UNCHANGED <<next, ring, recorder, reader, lost, numbered, published, delivered, collided>>

AnswerStep == BeginAnswer \/ BoundAnswer \/ ScanSeq \/ ReadKind \/ ReadData \/ CloseBatch
                \/ CheckDropped
RingNext ==
  \/ \E l \in Lanes : Reserve(l) \/ Record(l)
  \/ AnswerStep \/ Accept \/ Refuse \/ LoseAnswer \/ Resync

\* A lane finishes what it records, and the host keeps polling.
RingFairness ==
  /\ \A l \in Lanes : WF_ringVars(Record(l))
  /\ WF_ringVars(AnswerStep \/ Accept \/ Refuse \/ Resync)

RingSpec == RingInit /\ [][RingNext]_ringVars /\ RingFairness

-----------------------------------------------------------------------------
(* Properties.                                                             *)

RingTypeOK ==
  LET Seq0 == 0 .. MaxEvents + 1
      Event == 0 .. MaxEvents
      Records == [seq : Seq0, kind : Event, data : Event] IN
  /\ next \in 1 .. MaxEvents + 1 /\ cursor \in Event
  /\ ring \in [0 .. Capacity - 1 -> Records]
  /\ recorder \in [Lanes -> [step : {"idle", "loaded", "reserved", "data", "kind"},
                             seq : Seq0, event : Event]]
  /\ reader.next \in Seq0 /\ reader.batchNext \in Seq0 /\ reader.dropped \in Seq0
  /\ Len(reader.out) <= Batch /\ RecordsOf(reader.out) \subseteq Records
  /\ host \in {"polling", "missed"} /\ lost \in 0 .. MaxLost
  /\ numbered \in Event /\ excused \in Event

\* Every record a host accepts is one event as its lane recorded it, under the
\* seq it was recorded with: no batch mixes a record with the one that is
\* overwriting it.  It holds until two lanes write one slot at a time: they load
\* the same count, or one is overtaken by a whole lap.
DeliversExact ==
  ~collided => \A r \in delivered : r.kind = r.data /\ [seq |-> r.seq, event |-> r.kind] \in published

Accepting == reader.step = "answer" /\ reader.dropped = 0 /\ host' = host /\ lost' = lost /\ reader' = NoPoll

\* A batch the host accepts holds every event that was published before its poll
\* began and that it takes the cursor past (one overwritten while it was read
\* makes the poll a MissedEvents instead), and holds new events only, in the
\* order they were recorded: nothing is skipped, repeated or out of order.
OnceInOrder ==
  [][Accepting => collided \/
       LET out == reader.out IN
       /\ \A e \in reader.before :
            cursor < e.seq /\ e.seq <= cursor' => \E r \in delivered' : r.seq = e.seq
       /\ \A i \in 1 .. Len(out) : cursor < out[i].seq /\ out[i].seq <= cursor'
       /\ \A i, j \in 1 .. Len(out) : i < j => out[i].seq < out[j].seq
       /\ cursor <= cursor']_ringVars

\* Once the lanes are quiet the cursor reaches the end of the ring, lost answers
\* and missed history included.
CatchesUp == <>[](cursor = next - 1)

\* README of the brainstem: a host that missed history is told, "so the
\* motherbrain can stop instead of driving with a hole in its transcript".
NoHole ==
  [][Accepting => collided \/ \A seq \in 1 .. cursor' :
       seq <= excused \/ \E r \in delivered' : r.seq = seq]_ringVars
==================================================================================
