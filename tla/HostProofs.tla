------------------------------ MODULE HostProofs ------------------------------
(***************************************************************************)
(* Proofs about the hosts' side of the body.  HostFailover, for any        *)
(* thresholds, links and faults: who advertises control was granted it, a  *)
(* host that goes on controlling still has its lease, and only a body seen *)
(* free is asked for.  EventRing, for any capacity, batch and number of    *)
(* events: a batch the host accepts is exact, complete and in order.       *)
(* The last part puts both together with possession and sleep (MCHosts).   *)
(***************************************************************************)
EXTENDS MCHosts, MotherbrainProofs

AllRoles == {"controlling", "subordinate", "candidate", "unavailable"}
Ages == 0 .. Never
MachineType == [preferredPath : BOOLEAN, outage : Ages, uncontrolled : Ages, preferred : Ages,
                attempt : Ages, generation : Nat]
ViewType == [kind : {"unknown", "free", "active"}, owner : Hosts \cup {None}, boot : Nat,
             generation : Nat, age : Ages, lease : Nat, peer : Ages]
BodyType == [owner : Hosts \cup {None}, boot : Nat, generation : Nat, lease : Nat]

FailoverTypes ==
  /\ alive \subseteq Hosts /\ boot \in [Hosts -> Nat] /\ joined \in BOOLEAN
  /\ machine \in [Hosts -> MachineType] /\ role \in [Hosts -> AllRoles]
  /\ seen \in [Hosts -> ViewType] /\ body \in BodyType
  /\ requests \subseteq [host : Hosts, boot : Nat, generation : Nat]
  /\ replies \subseteq [host : Hosts, generation : Nat, result : {"granted", "refused"}]
  /\ granted \subseteq Hosts \X Nat /\ released \in Nat /\ sinceFree \in Nat /\ faults \in Nat

\* A host that is down has no view of the body and no answer waiting.
DownForgets ==
  /\ \A h \in Hosts \ alive : seen[h].kind = "unknown" /\ role[h] # "controlling"
  /\ \A r \in replies : r.host \in alive

\* Whoever owns the body, is seen to own it, was told so or says so was granted it.
GrantKnown ==
  /\ body.owner # None => <<body.owner, body.boot>> \in granted
  /\ \A h \in Hosts : seen[h].kind = "active" => <<seen[h].owner, seen[h].boot>> \in granted
  /\ \A r \in replies : r.result = "granted" => <<r.host, boot[r.host]>> \in granted
  /\ ControlsByGrant

\* A host asks under a generation it has seen, and sees none the body has not had.
RequestsSeen ==
  /\ \A h \in Hosts : seen[h].generation <= body.generation
  /\ \A q \in requests : /\ q.boot <= boot[q.host]
                         /\ q.host \in alive /\ q.boot = boot[q.host]
                              => q.generation <= seen[q.host].generation

\* A lease a host has seen itself hold, and that has not run out since, is the
\* body's, which runs at least as long; or the host released it itself and the
\* body has moved on.
Holding(h) == seen[h].kind = "active" /\ seen[h].owner = h /\ seen[h].boot = boot[h] /\ seen[h].lease > 0
StillHeld(h) == /\ body.owner = h /\ body.boot = boot[h] /\ body.generation = seen[h].generation
                /\ body.lease >= seen[h].lease
GaveUp(h) == /\ h = Fore /\ released = seen[h].generation /\ body.generation > seen[h].generation
             /\ ~(body.owner = h /\ body.boot = boot[h])
LeaseKnown ==
  /\ body.lease <= Lease /\ \A h \in Hosts : seen[h].lease <= Lease
  /\ \A h \in Hosts : Holding(h) => StillHeld(h) \/ GaveUp(h)

\* A free body was free as long ago as it was seen so, at most.
FreeKnown ==
  /\ body.owner = None => sinceFree = 0
  /\ \A h \in Hosts : seen[h].kind = "free" => sinceFree <= seen[h].age \/ seen[h].age >= Horizon

\* Every restart follows a crash, and every crash costs a fault, which bounds the
\* boot identities there are; only the running forebrain is on the brainstem's network.
Budget ==
  /\ links \subseteq Links /\ ticked \subseteq Hosts
  /\ joined => "fore_wifi" \in links /\ Fore \in alive
  /\ \A h \in Hosts : boot[h] + (IF h \in alive THEN 0 ELSE 1) + faults <= MaxFaults
  /\ body.boot <= MaxFaults /\ \A h \in Hosts : seen[h].boot <= MaxFaults
  /\ \A q \in requests : q.boot <= MaxFaults
  /\ body.generation > 0 /\ sinceFree <= Freshness + 1

FailoverInv ==
  /\ FailoverTypes /\ DownForgets /\ GrantKnown /\ RequestsSeen /\ LeaseKnown /\ FreeKnown /\ Budget

-----------------------------------------------------------------------------
(* What a step does.                                                     *)

LEMMA Thresholds ==
  /\ Freshness \in Nat /\ Horizon \in Nat /\ Lease \in Nat /\ Lease > 0 /\ Never \in Nat /\ NoGeneration = 0
  /\ Freshness < Horizon /\ MaxFaults \in Nat /\ Never = Horizon + 1
BY ThresholdsAssumption DEF Never, NoGeneration

\* Ages are numbers up to the mark of an instant that was never recorded.
LEMMA AgeNumbers == (\A a \in Ages : a \in Nat) /\ Never \in Ages /\ 0 \in Ages
BY Thresholds DEF Ages

\* What a poll shows: the body as it is, or what the host saw before.
LEMMA PolledView ==
  ASSUME FailoverTypes, NEW h \in Hosts
  PROVE  /\ Polled(h) \in ViewType
         /\ \/ /\ Polled(h).kind = seen[h].kind /\ Polled(h).owner = seen[h].owner
               /\ Polled(h).boot = seen[h].boot /\ Polled(h).generation = seen[h].generation
               /\ Polled(h).age = seen[h].age /\ Polled(h).lease = seen[h].lease
            \/ /\ Polled(h).kind = (IF body.owner = None THEN "free" ELSE "active")
               /\ Polled(h).owner = body.owner /\ Polled(h).boot = body.boot
               /\ Polled(h).generation = body.generation /\ Polled(h).age = 0
               /\ Polled(h).lease = body.lease
<1> DEFINE status == [kind |-> IF body.owner = None THEN "free" ELSE "active", owner |-> body.owner,
                      boot |-> body.boot, generation |-> body.generation, age |-> 0,
                      lease |-> body.lease, peer |-> seen[h].peer]
           view == IF Reaches(h) THEN status ELSE seen[h]
<1>1. seen[h] \in ViewType /\ body \in BodyType
  BY DEF FailoverTypes
<1>2. status \in ViewType
  BY <1>1, AgeNumbers DEF ViewType, BodyType
<1>3. Polled(h) = IF PeerUp THEN [view EXCEPT !.peer = 0] ELSE view
  BY DEF Polled
<1>4. view \in ViewType /\ (view = status \/ view = seen[h])
  BY <1>1, <1>2
<1>5. ASSUME NEW u \in ViewType, NEW w, w = [u EXCEPT !.peer = 0]
      PROVE  /\ w \in ViewType /\ w.kind = u.kind /\ w.owner = u.owner /\ w.boot = u.boot
             /\ w.generation = u.generation /\ w.age = u.age /\ w.lease = u.lease
  BY <1>5, AgeNumbers DEF ViewType
<1>6. /\ status.kind = (IF body.owner = None THEN "free" ELSE "active") /\ status.owner = body.owner
      /\ status.boot = body.boot /\ status.generation = body.generation /\ status.age = 0
      /\ status.lease = body.lease
  OBVIOUS
<1> HIDE DEF status, view
<1>7. /\ Polled(h) \in ViewType /\ Polled(h).kind = view.kind /\ Polled(h).owner = view.owner
      /\ Polled(h).boot = view.boot /\ Polled(h).generation = view.generation
      /\ Polled(h).age = view.age /\ Polled(h).lease = view.lease
  BY <1>3, <1>4, <1>5
<1> QED BY <1>4, <1>6, <1>7

\* The fields a tick sets leave a machine a machine.
LEMMA MachineSet ==
  ASSUME NEW m \in MachineType, NEW a \in Ages, NEW g \in Nat, NEW b \in BOOLEAN, NEW o \in Ages, NEW u \in Ages
  PROVE  /\ [m EXCEPT !.attempt = a, !.generation = g] \in MachineType
         /\ [m EXCEPT !.attempt = a, !.generation = g].generation = g
         /\ [m EXCEPT !.preferredPath = b] \in MachineType
         /\ [m EXCEPT !.uncontrolled = u] \in MachineType
         /\ [m EXCEPT !.preferred = a] \in MachineType
         /\ [m EXCEPT !.outage = o, !.uncontrolled = u, !.preferredPath = b] \in MachineType
         /\ [m EXCEPT !.preferred = a, !.outage = o, !.preferredPath = b] \in MachineType
BY DEF MachineType

Acts == {"start", "wait", "observe", "attempt", "continue", "release", "use path", "search", "join"}
\* A decision on the view v, taking the answers given: it runs the body only as
\* the owner it sees or on a grant, asks only for a body it sees free, and only
\* the forebrain releases, what it sees itself hold.
Decision(h, v, answer) ==
  \E m \in MachineType, newRole \in AllRoles, act \in Acts :
    /\ Decide(h, v, answer, m, newRole, act)
    /\ newRole = "controlling" => Controls(h, v) \/ \E r \in answer : r.result = "granted"
    /\ act = "attempt" => FreeSeen(v) /\ m.generation = v.generation
    /\ act = "release" => h = Fore /\ Controls(h, v)
    /\ act = "join" => h = Fore

LEMMA AcquiresDecides ==
  ASSUME FailoverTypes, NEW h \in Hosts, NEW v \in ViewType, NEW answer, NEW m \in MachineType,
         Acquires(h, v, answer, m)
  PROVE  Decision(h, v, answer)
<1>g. v.generation \in Nat /\ Never \in Ages /\ 0 \in Ages /\ NoGeneration \in Nat
  BY Thresholds, AgeNumbers DEF ViewType
<1>1. CASE Granted(h, v, answer, m)
  <2>1. [m EXCEPT !.attempt = Never, !.generation = NoGeneration] \in MachineType
    BY <1>g, MachineSet
  <2>2. \E r \in answer : r.result = "granted"
    BY <1>1 DEF Granted, Matching
  <2> QED BY <1>1, <2>1, <2>2 DEF Granted, Decision, Acts, AllRoles
<1>2. CASE Declined(h, v, answer, m)
  <2>1. [m EXCEPT !.attempt = 0, !.generation = NoGeneration] \in MachineType
    BY <1>g DEF MachineType
  <2> QED BY <1>2, <2>1 DEF Declined, Decision, Acts, AllRoles
<1>3. CASE BacksOff(h, v, answer, m)
  BY <1>3 DEF BacksOff, Decision, Acts, AllRoles
<1>4. CASE Attempts(h, v, answer, m)
  <2> DEFINE n == [m EXCEPT !.attempt = 0, !.generation = v.generation]
  <2>1. n \in MachineType /\ n.generation = v.generation
    BY <1>g DEF MachineType
  <2>2. Decide(h, v, answer, n, "candidate", "attempt") /\ FreeSeen(v)
    BY <1>4 DEF Attempts
  <2> HIDE DEF n
  <2> QED BY <2>1, <2>2 DEF Decision, Acts, AllRoles
<1> QED BY <1>1, <1>2, <1>3, <1>4 DEF Acquires

LEMMA SettledMachine ==
  ASSUME NEW m \in MachineType
  PROVE  Settled(m) \in MachineType
BY Thresholds, AgeNumbers, MachineSet DEF Settled

LEMMA SinceAge == ASSUME NEW a \in Ages PROVE Since(a) \in Ages
BY AgeNumbers DEF Since

LEMMA MotherDecides ==
  ASSUME FailoverTypes, NEW v \in ViewType, NEW answer, MotherbrainTick(v, answer)
  PROVE  Decision(Mother, v, answer)
<1> DEFINE m == machine[Mother]
<1>1. Mother \in Hosts /\ m \in MachineType /\ Settled(m) \in MachineType
  BY SettledMachine DEF Hosts, FailoverTypes
<1> HIDE DEF m
<1>2. \/ Decide(Mother, v, answer, m, "subordinate", "wait")
      \/ Controls(Mother, v) /\ Decide(Mother, v, answer, Settled(m), "controlling", "continue")
      \/ Acquires(Mother, v, answer, m)
      \/ Decide(Mother, v, answer, m, "candidate", "observe")
      \/ Controls(Mother, v) /\ Decide(Mother, v, answer, m, "controlling", "observe")
      \/ Decide(Mother, v, answer, m, "unavailable", "observe")
  BY DEF MotherbrainTick, m
<1>3. CASE Acquires(Mother, v, answer, m)
  BY <1>1, <1>3, AcquiresDecides
<1> QED BY <1>1, <1>2, <1>3 DEF Decision, Acts, AllRoles

LEMMA ForeDecides ==
  ASSUME FailoverTypes, NEW v \in ViewType, NEW answer, NEW boundary, ForebrainTick(v, answer, boundary)
  PROVE  Decision(Fore, v, answer)
<1>f. Fore \in Hosts /\ machine[Fore] \in MachineType
  BY DEF Hosts, FailoverTypes
<1>a. /\ machine[Fore].outage \in Ages /\ machine[Fore].uncontrolled \in Ages
      /\ machine[Fore].preferred \in Ages /\ Never \in Ages /\ 0 \in Ages
      /\ machine[Fore].preferredPath \in BOOLEAN
  BY <1>f, AgeNumbers DEF MachineType
<1>1. CASE ForebrainControls(v, answer, boundary)
  <2> DEFINE m == [Settled(machine[Fore]) EXCEPT !.preferredPath = FALSE]
  <2>1. m \in MachineType
    <3>1. Settled(machine[Fore]) \in MachineType
      BY <1>f, SettledMachine
    <3>2. \A n \in MachineType : [n EXCEPT !.preferredPath = FALSE] \in MachineType
      BY MachineSet, AgeNumbers, 0 \in Nat
    <3> QED BY <3>1, <3>2
  <2> HIDE DEF m
  <2>2. Controls(Fore, v) /\ \E act \in {"release", "wait", "continue"} : Decide(Fore, v, answer, m, "controlling", act)
    BY <1>1 DEF ForebrainControls, m
  <2> QED BY <2>1, <2>2 DEF Decision, Acts, AllRoles
<1>2. CASE ForebrainPreferred(v, answer)
  <2> DEFINE m == [machine[Fore] EXCEPT !.preferred = Since(@)]
             n == [m EXCEPT !.outage = Never, !.uncontrolled = Never, !.preferredPath = TRUE]
  <2>1. m \in MachineType
    BY <1>f, <1>a, SinceAge, MachineSet, 0 \in Nat
  <2>2. \A k \in MachineType : [k EXCEPT !.outage = Never, !.uncontrolled = Never, !.preferredPath = TRUE] \in MachineType
    BY AgeNumbers, MachineSet, 0 \in Nat
  <2>3. n \in MachineType
    BY <2>1, <2>2
  <2>4. Decide(Fore, v, answer, n, "subordinate", "use path") \/ Decide(Fore, v, answer, m, "subordinate", "use path")
    BY <1>2 DEF ForebrainPreferred
  <2> HIDE DEF m, n
  <2> QED BY <2>1, <2>3, <2>4 DEF Decision, Acts, AllRoles
<1> DEFINE m == [machine[Fore] EXCEPT !.preferred = Never, !.outage = Since(@), !.preferredPath = FALSE]
<1>m. m \in MachineType
  BY <1>f, <1>a, SinceAge, MachineSet, 0 \in Nat
<1>u. \A k \in MachineType, u \in Ages : [k EXCEPT !.uncontrolled = u] \in MachineType
  BY MachineSet, AgeNumbers, 0 \in Nat
<1>3. CASE ForebrainSearches(v, answer, m)
  <2>1. [m EXCEPT !.uncontrolled = Never] \in MachineType
    BY <1>m, <1>u, <1>a
  <2> HIDE DEF m
  <2>2. \E n \in MachineType, act \in {"use path", "search", "join", "observe"} :
          Decide(Fore, v, answer, n, "subordinate", act)
    BY <1>3, <1>m, <2>1 DEF ForebrainSearches
  <2> QED BY <2>2 DEF Decision, Acts, AllRoles
<1>4. CASE ForebrainTakesOver(v, answer, m)
  <2> HIDE DEF m
  <2> DEFINE n == [m EXCEPT !.uncontrolled = Since(@)]
  <2>1. n \in MachineType
    <3>1. m.uncontrolled \in Ages
      BY <1>m DEF MachineType
    <3>2. Since(m.uncontrolled) \in Ages
      BY <3>1, SinceAge
    <3> QED BY <1>m, <1>u, <3>2
  <2>2. Decide(Fore, v, answer, n, "subordinate", "observe") \/ Acquires(Fore, v, answer, n)
    BY <1>4 DEF ForebrainTakesOver
  <2> HIDE DEF n
  <2>3. CASE Acquires(Fore, v, answer, n)
    BY <1>f, <2>1, <2>3, AcquiresDecides
  <2> QED BY <2>1, <2>2, <2>3 DEF Decision, Acts, AllRoles
<1>5. \/ ForebrainControls(v, answer, boundary) \/ ForebrainPreferred(v, answer)
      \/ ForebrainSearches(v, answer, m) \/ ForebrainTakesOver(v, answer, m)
  BY DEF ForebrainTick
<1> QED BY <1>1, <1>2, <1>3, <1>4, <1>5

\* A tick is a decision on what the host polled, or on what it saw before.
LEMMA TickDecides ==
  ASSUME FailoverTypes, NEW h \in Hosts, NEW boundary, NEW lags \in BOOLEAN, Tick(h, boundary, lags)
  PROVE  /\ h \in alive \ ticked /\ faults' \in Nat /\ faults' <= faults
         /\ \E v \in {seen[h], Polled(h)} : \E answer \in SUBSET replies :
              (\A r \in answer : r.host = h) /\ v \in ViewType /\ Decision(h, v, answer)
<1> DEFINE v == IF lags THEN seen[h] ELSE Polled(h)
<1>1. v \in ViewType /\ v \in {seen[h], Polled(h)}
  BY PolledView DEF FailoverTypes
<1>2. h \in alive \ ticked /\ faults' \in Nat /\ faults' <= faults
  <2>1. IF lags /\ seen[h].age <= 1 THEN faults > 0 /\ faults' = faults - 1 ELSE faults' = faults
    BY DEF Tick
  <2>2. faults \in Nat
    BY DEF FailoverTypes
  <2> QED BY <2>1, <2>2 DEF Tick
<1>3. PICK answer \in SUBSET {r \in replies : r.host = h} :
        IF h = Mother THEN MotherbrainTick(v, answer) ELSE ForebrainTick(v, answer, boundary)
  BY DEF Tick
<1> HIDE DEF v
<1>4. Decision(h, v, answer)
  BY <1>1, <1>3, MotherDecides, ForeDecides DEF Hosts
<1> QED BY <1>1, <1>2, <1>4

-----------------------------------------------------------------------------
(* Types, and what a host that is down forgets.                          *)

LEMMA FailoverCases ==
  ASSUME FailoverTypes, [FailoverNext]_failoverVars
  PROVE  \/ \E h \in Hosts : \E v \in ViewType : \E answer \in SUBSET replies :
              /\ v \in {seen[h], Polled(h)} /\ (\A r \in answer : r.host = h)
              /\ h \in alive \ ticked /\ faults' \in Nat /\ faults' <= faults /\ Decision(h, v, answer)
         \/ \E h \in Hosts : Crash(h) \/ Restart(h)
         \/ \E q \in requests : Acquire(q)
         \/ \E late \in BOOLEAN : Clock(late)
         \/ \E l \in Fragile : LinkChanges(l)
         \/ \E r \in replies : LoseReply(r)
         \/ UNCHANGED failoverVars
<1>1. CASE TickStep
  BY <1>1, TickDecides DEF TickStep
<1> QED BY <1>1 DEF FailoverNext

\* What ageing does to a view, a machine and the body.
LEMMA Aged ==
  /\ \A a \in Ages : Older(a) \in Ages /\ (a < Horizon => Older(a) = a + 1) /\ (a >= Horizon => Older(a) = a)
  /\ \A m \in MachineType : OlderMachine(m) \in MachineType
  /\ \A v \in ViewType : /\ OlderView(v) \in ViewType
                         /\ OlderView(v).kind = v.kind /\ OlderView(v).owner = v.owner
                         /\ OlderView(v).boot = v.boot /\ OlderView(v).generation = v.generation
                         /\ OlderView(v).age = Older(v.age)
                         /\ OlderView(v).lease = (IF v.lease > 0 THEN v.lease - 1 ELSE 0)
<1>1. \A a \in Ages : Older(a) \in Ages /\ (a < Horizon => Older(a) = a + 1) /\ (a >= Horizon => Older(a) = a)
  BY Thresholds DEF Older, Ages
<1>2. \A m \in MachineType : OlderMachine(m) \in MachineType
  <2> SUFFICES ASSUME NEW m \in MachineType PROVE OlderMachine(m) \in MachineType
    OBVIOUS
  <2>1. m.outage \in Ages /\ m.uncontrolled \in Ages /\ m.preferred \in Ages /\ m.attempt \in Ages
    BY DEF MachineType
  <2>2. /\ Older(m.outage) \in Ages /\ Older(m.uncontrolled) \in Ages /\ Older(m.preferred) \in Ages
        /\ Older(m.attempt) \in Ages
    BY <1>1, <2>1
  <2> QED BY <2>2 DEF OlderMachine, MachineType
<1>3. ASSUME NEW v \in ViewType
      PROVE  /\ OlderView(v) \in ViewType
             /\ OlderView(v).kind = v.kind /\ OlderView(v).owner = v.owner
             /\ OlderView(v).boot = v.boot /\ OlderView(v).generation = v.generation
             /\ OlderView(v).age = Older(v.age)
             /\ OlderView(v).lease = (IF v.lease > 0 THEN v.lease - 1 ELSE 0)
  <2>1. v.age \in Ages /\ v.lease \in Nat /\ v.peer \in Ages
    BY DEF ViewType
  <2>2. Older(v.age) \in Ages /\ Older(v.peer) \in Ages /\ (IF v.lease > 0 THEN v.lease - 1 ELSE 0) \in Nat
    BY <1>1, <2>1
  <2> QED BY <2>1, <2>2 DEF OlderView, ViewType
<1> QED BY <1>1, <1>2, <1>3

\* Time passes for the body: it stays free, its lease runs on or is renewed, or it
\* becomes free under the next generation.
LEMMA BodyAged ==
  ASSUME FailoverTypes, NEW late \in BOOLEAN, Clock(late)
  PROVE  /\ body' \in BodyType
         /\ \/ body.owner = None /\ body' = body
            \/ /\ body.owner # None /\ body'.owner = body.owner /\ body'.boot = body.boot
               /\ body'.generation = body.generation
               /\ body'.lease = Lease \/ (body.lease > 1 /\ body'.lease = body.lease - 1)
            \/ /\ body.owner # None /\ body'.owner = None /\ body'.generation = body.generation + 1
               /\ body'.lease = 0 /\ body.lease <= 1
<1>1. body \in BodyType /\ body.lease \in Nat /\ body.generation \in Nat
  BY DEF FailoverTypes, BodyType
<1>2. (body' = body /\ body.owner = None) \/ (body.owner # None /\ \E renewed : body' = OlderBody(renewed))
  BY DEF Clock
<1>3. ASSUME NEW renewed, body' = OlderBody(renewed)
      PROVE  \/ body' = [body EXCEPT !.lease = Lease]
             \/ body.lease > 1 /\ body' = [body EXCEPT !.lease = body.lease - 1]
             \/ body.lease <= 1 /\ body' = [owner |-> None, boot |-> 0, generation |-> body.generation + 1, lease |-> 0]
  BY <1>1, <1>3 DEF OlderBody
<1>4. CASE body.owner # None /\ body' = [body EXCEPT !.lease = Lease]
  BY <1>1, <1>4, Thresholds DEF BodyType
<1>5. CASE body.owner # None /\ body.lease > 1 /\ body' = [body EXCEPT !.lease = body.lease - 1]
  BY <1>1, <1>5 DEF BodyType
<1>6. CASE /\ body.owner # None /\ body.lease <= 1
           /\ body' = [owner |-> None, boot |-> 0, generation |-> body.generation + 1, lease |-> 0]
  BY <1>1, <1>6 DEF BodyType
<1> QED BY <1>1, <1>2, <1>3, <1>4, <1>5, <1>6

LEMMA FailoverTypesInit == FailoverInit => FailoverTypes
<1> SUFFICES ASSUME FailoverInit PROVE FailoverTypes
  OBVIOUS
<1>1. Machine0 \in MachineType /\ Unknown \in ViewType
  BY Thresholds, AgeNumbers DEF Machine0, Unknown, MachineType, ViewType
<1> QED BY <1>1, Thresholds DEF FailoverInit, StartWith, FailoverTypes, BodyType, AllRoles

LEMMA FailoverTypesStep == FailoverTypes /\ [FailoverNext]_failoverVars => FailoverTypes'
<1> SUFFICES ASSUME FailoverTypes, [FailoverNext]_failoverVars PROVE FailoverTypes'
  OBVIOUS
<1>1. ASSUME NEW h \in Hosts, NEW v \in ViewType, NEW answer \in SUBSET replies, faults' \in Nat,
             Decision(h, v, answer)
      PROVE  FailoverTypes'
  <2>1. PICK m \in MachineType, newRole \in AllRoles, act \in Acts : Decide(h, v, answer, m, newRole, act)
    BY <1>1 DEF Decision
  <2>2. /\ machine' \in [Hosts -> MachineType] /\ role' \in [Hosts -> AllRoles]
        /\ seen' \in [Hosts -> ViewType]
    BY <2>1 DEF Decide, FailoverTypes
  <2>3. requests' \subseteq [host : Hosts, boot : Nat, generation : Nat]
    <3>1. boot[h] \in Nat /\ m.generation \in Nat
      BY DEF FailoverTypes, MachineType
    <3> QED BY <2>1, <3>1 DEF Decide, FailoverTypes
  <2>4. body' \in BodyType /\ released' \in Nat /\ sinceFree' \in Nat
    <3>1. body.generation \in Nat
      BY DEF FailoverTypes, BodyType
    <3> QED BY <2>1, <3>1 DEF Decide, FailoverTypes, BodyType
  <2>5. joined' \in BOOLEAN /\ replies' \subseteq replies /\ UNCHANGED <<alive, boot, granted>>
    BY <2>1 DEF Decide
  <2> QED BY <1>1, <2>2, <2>3, <2>4, <2>5 DEF FailoverTypes
<1>2. ASSUME NEW h \in Hosts, Crash(h) PROVE FailoverTypes'
  <2>1. Machine0 \in MachineType /\ Unknown \in ViewType
    BY Thresholds, AgeNumbers DEF Machine0, Unknown, MachineType, ViewType
  <2> QED BY <1>2, <2>1 DEF Crash, FailoverTypes, AllRoles, history
<1>3. ASSUME NEW h \in Hosts, Restart(h) PROVE FailoverTypes'
  <2>1. boot' \in [Hosts -> Nat]
    BY <1>3 DEF Restart, FailoverTypes
  <2> QED BY <1>3, <2>1 DEF Restart, FailoverTypes, history
<1>4. ASSUME NEW q \in requests, Acquire(q) PROVE FailoverTypes'
  <2>1. q \in [host : Hosts, boot : Nat, generation : Nat] /\ body.generation \in Nat
    BY DEF FailoverTypes, BodyType
  <2>2. body' \in BodyType /\ granted' \subseteq Hosts \X Nat
    BY <1>4, <2>1, Thresholds DEF Acquire, FailoverTypes, BodyType
  <2>3. replies' \subseteq [host : Hosts, generation : Nat, result : {"granted", "refused"}]
    BY <1>4, <2>1 DEF Acquire, FailoverTypes
  <2>4. requests' \subseteq requests
    BY <1>4 DEF Acquire
  <2> QED BY <1>4, <2>2, <2>3, <2>4 DEF Acquire, FailoverTypes
<1>5. ASSUME NEW late \in BOOLEAN, Clock(late) PROVE FailoverTypes'
  <2>1. machine' \in [Hosts -> MachineType] /\ seen' \in [Hosts -> ViewType]
    BY <1>5, Aged DEF Clock, FailoverTypes
  <2>2. body' \in BodyType
    BY <1>5, BodyAged
  <2>3. sinceFree' \in Nat /\ faults' \in Nat
    BY <1>5 DEF Clock, FailoverTypes
  <2>4. UNCHANGED <<links, joined, alive, boot, role, requests, replies, granted, released>>
    BY <1>5 DEF Clock
  <2> QED BY <2>1, <2>2, <2>3, <2>4 DEF FailoverTypes
<1>6. ASSUME NEW l \in Fragile, LinkChanges(l) PROVE FailoverTypes'
  <2>1. joined' \in BOOLEAN /\ faults' \in Nat
    BY <1>6 DEF LinkChanges, FailoverTypes
  <2>2. UNCHANGED <<alive, boot, machine, role, seen, body, requests, replies, granted, released, sinceFree>>
    BY <1>6 DEF LinkChanges, history
  <2> QED BY <2>1, <2>2 DEF FailoverTypes
<1>7. ASSUME NEW r \in replies, LoseReply(r) PROVE FailoverTypes'
  BY <1>7 DEF LoseReply, FailoverTypes, history
<1>8. CASE UNCHANGED failoverVars
  BY <1>8 DEF failoverVars, history, FailoverTypes
<1> QED BY FailoverCases, <1>1, <1>2, <1>3, <1>4, <1>5, <1>6, <1>7, <1>8

-----------------------------------------------------------------------------
(* What each part of the invariant rests on.                             *)

\* What a decision changes that the invariant reads.
LEMMA DecisionEffect ==
  ASSUME FailoverTypes, NEW h \in Hosts, NEW v \in ViewType, NEW answer, Decision(h, v, answer)
  PROVE  /\ seen' = [seen EXCEPT ![h] = v] /\ UNCHANGED <<alive, boot, granted>> /\ replies' \subseteq replies
         /\ ticked' = ticked \cup {h} /\ links' = links
         /\ joined' => joined \/ (h = Fore /\ "fore_wifi" \in links)
         /\ \A k \in Hosts \ {h} : role'[k] = role[k]
         /\ role'[h] = "controlling" => Controls(h, v) \/ \E r \in answer : r.result = "granted"
         /\ \/ requests' = requests
            \/ /\ FreeSeen(v)
               /\ requests' = requests \cup {[host |-> h, boot |-> boot[h], generation |-> v.generation]}
         /\ \/ UNCHANGED <<body, released, sinceFree>>
            \/ /\ h = Fore /\ Controls(h, v) /\ body.owner = h /\ body.boot = boot[h]
               /\ body' = [owner |-> None, boot |-> 0, generation |-> body.generation + 1, lease |-> 0]
               /\ released' = body.generation /\ sinceFree' = 0
<1>1. PICK m \in MachineType, newRole \in AllRoles, act \in Acts :
        /\ Decide(h, v, answer, m, newRole, act)
        /\ newRole = "controlling" => Controls(h, v) \/ \E r \in answer : r.result = "granted"
        /\ act = "attempt" => FreeSeen(v) /\ m.generation = v.generation
        /\ act = "release" => h = Fore /\ Controls(h, v)
        /\ act = "join" => h = Fore
  BY DEF Decision
<1>2. role' = [role EXCEPT ![h] = newRole] /\ role \in [Hosts -> AllRoles]
  BY <1>1 DEF Decide, FailoverTypes
<1>3. /\ seen' = [seen EXCEPT ![h] = v] /\ UNCHANGED <<alive, boot, granted>> /\ replies' \subseteq replies
      /\ ticked' = ticked \cup {h} /\ links' = links
      /\ joined' => joined \/ (h = Fore /\ "fore_wifi" \in links)
  BY <1>1 DEF Decide
<1>4. \/ requests' = requests
      \/ /\ FreeSeen(v)
         /\ requests' = requests \cup {[host |-> h, boot |-> boot[h], generation |-> v.generation]}
  BY <1>1 DEF Decide
<1>5. \/ UNCHANGED <<body, released, sinceFree>>
      \/ /\ h = Fore /\ Controls(h, v) /\ body.owner = h /\ body.boot = boot[h]
         /\ body' = [owner |-> None, boot |-> 0, generation |-> body.generation + 1, lease |-> 0]
         /\ released' = body.generation /\ sinceFree' = 0
  BY <1>1 DEF Decide
<1> QED BY <1>1, <1>2, <1>3, <1>4, <1>5

\* The view a tick works on is the one before, or shows the body as it is.
LEMMA ViewSeen ==
  ASSUME FailoverTypes, NEW h \in Hosts, NEW v, v \in {seen[h], Polled(h)}
  PROVE  \/ /\ v.kind = seen[h].kind /\ v.owner = seen[h].owner /\ v.boot = seen[h].boot
            /\ v.generation = seen[h].generation /\ v.age = seen[h].age /\ v.lease = seen[h].lease
         \/ /\ v.kind = (IF body.owner = None THEN "free" ELSE "active") /\ v.owner = body.owner
            /\ v.boot = body.boot /\ v.generation = body.generation /\ v.age = 0 /\ v.lease = body.lease
BY PolledView

LEMMA DownForgetsStep ==
  FailoverTypes /\ DownForgets /\ [FailoverNext]_failoverVars => DownForgets'
<1> SUFFICES ASSUME FailoverTypes, DownForgets, [FailoverNext]_failoverVars PROVE DownForgets'
  OBVIOUS
<1>1. ASSUME NEW h \in Hosts, NEW v \in ViewType, NEW answer, h \in alive, Decision(h, v, answer)
      PROVE  DownForgets'
  <2>1. /\ seen' = [seen EXCEPT ![h] = v] /\ alive' = alive /\ replies' \subseteq replies
        /\ \A k \in Hosts \ {h} : role'[k] = role[k]
    BY <1>1, DecisionEffect
  <2> QED BY <1>1, <2>1 DEF DownForgets, FailoverTypes
<1>2. ASSUME NEW h \in Hosts, Crash(h) PROVE DownForgets'
  BY <1>2 DEF Crash, DownForgets, FailoverTypes, Unknown
<1>3. ASSUME NEW h \in Hosts, Restart(h) PROVE DownForgets'
  BY <1>3 DEF Restart, DownForgets, FailoverTypes
<1>4. ASSUME NEW q \in requests, Acquire(q) PROVE DownForgets'
  BY <1>4 DEF Acquire, DownForgets, FailoverTypes
<1>5. ASSUME NEW late \in BOOLEAN, Clock(late) PROVE DownForgets'
  <2>1. \A h \in Hosts : seen'[h].kind = seen[h].kind
    BY <1>5, Aged DEF Clock, FailoverTypes
  <2> QED BY <1>5, <2>1 DEF Clock, DownForgets
<1>6. ASSUME NEW l \in Fragile, LinkChanges(l) PROVE DownForgets'
  BY <1>6 DEF LinkChanges, DownForgets
<1>7. ASSUME NEW r \in replies, LoseReply(r) PROVE DownForgets'
  BY <1>7 DEF LoseReply, DownForgets
<1>8. CASE UNCHANGED failoverVars
  BY <1>8 DEF failoverVars, DownForgets
<1> QED BY FailoverCases, <1>1, <1>2, <1>3, <1>4, <1>5, <1>6, <1>7, <1>8

LEMMA GrantKnownStep ==
  FailoverTypes /\ DownForgets /\ GrantKnown /\ [FailoverNext]_failoverVars => GrantKnown'
<1> SUFFICES ASSUME FailoverTypes, DownForgets, GrantKnown, [FailoverNext]_failoverVars PROVE GrantKnown'
  OBVIOUS
<1>1. ASSUME NEW h \in Hosts, NEW v \in ViewType, NEW answer \in SUBSET replies,
             v \in {seen[h], Polled(h)}, \A r \in answer : r.host = h, Decision(h, v, answer)
      PROVE  GrantKnown'
  <2>1. /\ seen' = [seen EXCEPT ![h] = v] /\ UNCHANGED <<boot, granted>> /\ replies' \subseteq replies
        /\ \A k \in Hosts \ {h} : role'[k] = role[k]
        /\ role'[h] = "controlling" => Controls(h, v) \/ \E r \in answer : r.result = "granted"
    BY <1>1, DecisionEffect
  <2>2. body' = body \/ body'.owner = None
    BY <1>1, DecisionEffect
  <2>3. v.kind = "active" => <<v.owner, v.boot>> \in granted
    BY <1>1, ViewSeen DEF GrantKnown
  <2>4. role'[h] = "controlling" => <<h, boot[h]>> \in granted
    BY <1>1, <2>1, <2>3 DEF Controls, OwnerSeen, IsSelf, GrantKnown
  <2>5. body'.owner # None => <<body'.owner, body'.boot>> \in granted'
    BY <2>1, <2>2 DEF GrantKnown
  <2>6. \A k \in Hosts : seen'[k].kind = "active" => <<seen'[k].owner, seen'[k].boot>> \in granted'
    BY <2>1, <2>3 DEF GrantKnown, FailoverTypes
  <2>7. \A r \in replies' : r.result = "granted" => <<r.host, boot'[r.host]>> \in granted'
    BY <2>1 DEF GrantKnown
  <2>8. ControlsByGrant'
    BY <2>1, <2>4 DEF GrantKnown, ControlsByGrant
  <2> QED BY <2>5, <2>6, <2>7, <2>8 DEF GrantKnown
<1>2. ASSUME NEW h \in Hosts, Crash(h) PROVE GrantKnown'
  BY <1>2 DEF Crash, GrantKnown, ControlsByGrant, FailoverTypes, Unknown, history
<1>3. ASSUME NEW h \in Hosts, Restart(h) PROVE GrantKnown'
  <2>1. /\ h \notin alive /\ boot' = [boot EXCEPT ![h] = @ + 1]
        /\ UNCHANGED <<machine, role, seen, body, requests, replies, granted>>
    BY <1>3 DEF Restart, history
  <2>2. \A k \in Hosts \ {h} : boot'[k] = boot[k]
    BY <2>1 DEF FailoverTypes
  <2>3. \A r \in replies : r.host \in Hosts \ {h}
    BY <2>1 DEF DownForgets, FailoverTypes
  <2>4. role[h] # "controlling"
    BY <2>1 DEF DownForgets
  <2> QED BY <2>1, <2>2, <2>3, <2>4 DEF GrantKnown, ControlsByGrant
<1>4. ASSUME NEW q \in requests, Acquire(q) PROVE GrantKnown'
  <2>1. /\ granted \subseteq granted' /\ UNCHANGED <<boot, role, seen>>
        /\ body' = body \/ (body'.owner = q.host /\ body'.boot = q.boot /\ <<q.host, q.boot>> \in granted')
    BY <1>4 DEF Acquire
  <2>2. \A r \in replies' : r.result = "granted" => r \in replies \/ <<r.host, boot[r.host]>> \in granted'
    BY <1>4 DEF Acquire
  <2> QED BY <2>1, <2>2 DEF GrantKnown, ControlsByGrant
<1>5. ASSUME NEW late \in BOOLEAN, Clock(late) PROVE GrantKnown'
  <2>1. \A h \in Hosts : /\ seen'[h].kind = seen[h].kind /\ seen'[h].owner = seen[h].owner
                         /\ seen'[h].boot = seen[h].boot
    BY <1>5, Aged DEF Clock, FailoverTypes
  <2>2. body'.owner # None => body'.owner = body.owner /\ body'.boot = body.boot
    BY <1>5, BodyAged
  <2>3. UNCHANGED <<boot, role, replies, granted>>
    BY <1>5 DEF Clock
  <2> QED BY <2>1, <2>2, <2>3 DEF GrantKnown, ControlsByGrant
<1>6. ASSUME NEW l \in Fragile, LinkChanges(l) PROVE GrantKnown'
  BY <1>6 DEF LinkChanges, GrantKnown, ControlsByGrant, history
<1>7. ASSUME NEW r \in replies, LoseReply(r) PROVE GrantKnown'
  BY <1>7 DEF LoseReply, GrantKnown, ControlsByGrant, history
<1>8. CASE UNCHANGED failoverVars
  BY <1>8 DEF failoverVars, history, GrantKnown, ControlsByGrant
<1> QED BY FailoverCases, <1>1, <1>2, <1>3, <1>4, <1>5, <1>6, <1>7, <1>8

LEMMA RequestsSeenStep ==
  FailoverTypes /\ DownForgets /\ RequestsSeen /\ [FailoverNext]_failoverVars => RequestsSeen'
<1> SUFFICES ASSUME FailoverTypes, DownForgets, RequestsSeen, [FailoverNext]_failoverVars PROVE RequestsSeen'
  OBVIOUS
<1>t. /\ body.generation \in Nat /\ body \in BodyType
      /\ \A h \in Hosts : seen[h].generation \in Nat /\ boot[h] \in Nat
      /\ \A q \in requests : q.host \in Hosts /\ q.boot \in Nat /\ q.generation \in Nat
  BY DEF FailoverTypes, BodyType, ViewType
<1>1. ASSUME NEW h \in Hosts, NEW v \in ViewType, NEW answer, v \in {seen[h], Polled(h)}, Decision(h, v, answer)
      PROVE  RequestsSeen'
  <2>1. /\ seen' = [seen EXCEPT ![h] = v] /\ UNCHANGED <<alive, boot>>
        /\ \/ requests' = requests
           \/ requests' = requests \cup {[host |-> h, boot |-> boot[h], generation |-> v.generation]}
        /\ body' = body \/ body'.generation = body.generation + 1
    BY <1>1, DecisionEffect
  <2>2. /\ v.generation \in Nat /\ seen[h].generation <= v.generation
        /\ v.generation <= body.generation
    <3>1. v.generation = seen[h].generation \/ v.generation = body.generation
      BY <1>1, ViewSeen
    <3>2. seen[h].generation <= body.generation
      BY DEF RequestsSeen
    <3> QED BY <1>t, <3>1, <3>2
  <2>3. \A k \in Hosts : seen'[k].generation = IF k = h THEN v.generation ELSE seen[k].generation
    BY <2>1 DEF FailoverTypes
  <2>4. \A k \in Hosts : seen'[k].generation <= body'.generation
    <3>1. body'.generation \in Nat /\ body.generation <= body'.generation
      BY <1>t, <2>1
    <3>2. \A k \in Hosts : seen[k].generation <= body.generation
      BY DEF RequestsSeen
    <3> QED BY <1>t, <2>2, <2>3, <3>1, <3>2
  <2>5. ASSUME NEW q \in requests'
        PROVE  /\ q.boot <= boot'[q.host]
               /\ q.host \in alive' /\ q.boot = boot'[q.host] => q.generation <= seen'[q.host].generation
    <3>1. CASE q \in requests
      <4>1. /\ q.boot <= boot[q.host]
            /\ q.host \in alive /\ q.boot = boot[q.host] => q.generation <= seen[q.host].generation
        BY <3>1 DEF RequestsSeen
      <4>2. q.host \in Hosts /\ q.generation \in Nat
        BY <1>t, <3>1
      <4>3. seen[q.host].generation <= seen'[q.host].generation
        BY <1>t, <2>2, <2>3, <4>2
      <4>4. seen'[q.host].generation \in Nat
        BY <1>t, <2>2, <2>3, <4>2
      <4> QED BY <1>t, <2>1, <4>1, <4>2, <4>3, <4>4
    <3>2. CASE q = [host |-> h, boot |-> boot[h], generation |-> v.generation]
      BY <1>t, <2>1, <2>2, <2>3, <3>2
    <3> QED BY <2>1, <2>5, <3>1, <3>2
  <2> QED BY <2>4, <2>5 DEF RequestsSeen
<1>2. ASSUME NEW h \in Hosts, Crash(h) PROVE RequestsSeen'
  <2>1. /\ seen' = [seen EXCEPT ![h] = Unknown] /\ alive' = alive \ {h} /\ UNCHANGED <<boot, body, requests>>
    BY <1>2 DEF Crash
  <2>2. Unknown.generation = 0
    BY DEF Unknown, NoGeneration
  <2>3. \A k \in Hosts : seen'[k].generation = IF k = h THEN 0 ELSE seen[k].generation
    BY <2>1, <2>2 DEF FailoverTypes
  <2>4. \A k \in Hosts : seen'[k].generation <= body'.generation
    BY <1>t, <2>1, <2>3 DEF RequestsSeen
  <2>5. \A q \in requests' : /\ q.boot <= boot'[q.host]
                             /\ q.host \in alive' /\ q.boot = boot'[q.host]
                                  => q.generation <= seen'[q.host].generation
    BY <1>t, <2>1, <2>3 DEF RequestsSeen
  <2> QED BY <2>4, <2>5 DEF RequestsSeen
<1>3. ASSUME NEW h \in Hosts, Restart(h) PROVE RequestsSeen'
  <2>1. boot' = [boot EXCEPT ![h] = @ + 1] /\ alive' = alive \cup {h} /\ UNCHANGED <<seen, body, requests>>
    BY <1>3 DEF Restart
  <2>2. \A k \in Hosts : boot'[k] = IF k = h THEN boot[h] + 1 ELSE boot[k]
    BY <2>1 DEF FailoverTypes
  <2>3. \A q \in requests : /\ q.boot <= boot'[q.host]
                            /\ q.host \in alive' /\ q.boot = boot'[q.host]
                                 => q.host \in alive /\ q.boot = boot[q.host]
    BY <1>t, <2>1, <2>2 DEF RequestsSeen
  <2> QED BY <2>1, <2>3 DEF RequestsSeen
<1>4. ASSUME NEW q \in requests, Acquire(q) PROVE RequestsSeen'
  <2>1. /\ requests' \subseteq requests /\ UNCHANGED <<seen, boot, alive>>
        /\ body' = body \/ body'.generation = body.generation + 1
    BY <1>4 DEF Acquire
  <2>2. \A k \in Hosts : seen'[k].generation <= body'.generation
    <3>1. body'.generation \in Nat /\ body.generation <= body'.generation
      BY <1>t, <2>1
    <3>2. \A k \in Hosts : seen[k].generation <= body.generation
      BY DEF RequestsSeen
    <3> QED BY <1>t, <2>1, <3>1, <3>2
  <2> QED BY <2>1, <2>2 DEF RequestsSeen
<1>5. ASSUME NEW late \in BOOLEAN, Clock(late) PROVE RequestsSeen'
  <2>1. \A h \in Hosts : seen'[h].generation = seen[h].generation
    BY <1>5, Aged DEF Clock, FailoverTypes
  <2>2. body'.generation = body.generation \/ body'.generation = body.generation + 1
    BY <1>5, BodyAged
  <2>3. UNCHANGED <<alive, boot, requests>>
    BY <1>5 DEF Clock
  <2>4. \A k \in Hosts : seen'[k].generation <= body'.generation
    <3>2. \A k \in Hosts : seen[k].generation <= body.generation
      BY DEF RequestsSeen
    <3> QED BY <1>t, <2>1, <2>2, <3>2
  <2> QED BY <1>t, <2>1, <2>3, <2>4 DEF RequestsSeen
<1>6. ASSUME NEW l \in Fragile, LinkChanges(l) PROVE RequestsSeen'
  BY <1>6 DEF LinkChanges, RequestsSeen
<1>7. ASSUME NEW r \in replies, LoseReply(r) PROVE RequestsSeen'
  BY <1>7 DEF LoseReply, RequestsSeen
<1>8. CASE UNCHANGED failoverVars
  BY <1>8 DEF failoverVars, RequestsSeen
<1> QED BY FailoverCases, <1>1, <1>2, <1>3, <1>4, <1>5, <1>6, <1>7, <1>8

-----------------------------------------------------------------------------
(* A lease believed in, and a body believed free.                        *)

LEMMA LeaseKnownStep ==
  FailoverTypes /\ DownForgets /\ RequestsSeen /\ LeaseKnown /\ [FailoverNext]_failoverVars => LeaseKnown'
<1> SUFFICES ASSUME FailoverTypes, DownForgets, RequestsSeen, LeaseKnown, [FailoverNext]_failoverVars
             PROVE  LeaseKnown'
  OBVIOUS
<1>t. /\ body.generation \in Nat /\ body.lease \in Nat
      /\ \A h \in Hosts : seen[h].generation \in Nat /\ boot[h] \in Nat /\ seen[h].lease \in Nat
      /\ \A q \in requests : q.host \in Hosts /\ q.boot \in Nat /\ q.generation \in Nat
  BY DEF FailoverTypes, BodyType, ViewType
<1>n. \A h \in Hosts : h # None
  BY DEF Hosts, None, Mother, Fore
<1>1. ASSUME NEW h \in Hosts, NEW v \in ViewType, NEW answer, v \in {seen[h], Polled(h)}, Decision(h, v, answer)
      PROVE  LeaseKnown'
  <2>1. /\ seen' = [seen EXCEPT ![h] = v] /\ UNCHANGED <<alive, boot>>
        /\ \/ UNCHANGED <<body, released>>
           \/ /\ h = Fore /\ Controls(h, v) /\ body.owner = h /\ body.boot = boot[h]
              /\ body'.owner = None /\ body'.generation = body.generation + 1 /\ body'.lease = 0
              /\ released' = body.generation
    BY <1>1, DecisionEffect
  <2>2. \A k \in Hosts : seen'[k] = IF k = h THEN v ELSE seen[k]
    BY <2>1 DEF FailoverTypes
  <2>3. v.lease \in Nat /\ v.lease <= Lease /\ v.generation \in Nat
    BY <1>1, ViewSeen DEF LeaseKnown, ViewType
  <2>4. body'.lease <= Lease /\ \A k \in Hosts : seen'[k].lease <= Lease
    BY <2>1, <2>2, <2>3, Thresholds DEF LeaseKnown
  <2>5. ASSUME v.kind = "active", v.owner = h, v.boot = boot[h], v.lease > 0
        PROVE  \/ /\ body.owner = h /\ body.boot = boot[h] /\ body.generation = v.generation
                  /\ body.lease >= v.lease
               \/ /\ h = Fore /\ released = v.generation /\ body.generation > v.generation
                  /\ ~(body.owner = h /\ body.boot = boot[h])
    <3>1. CASE /\ v.kind = seen[h].kind /\ v.owner = seen[h].owner /\ v.boot = seen[h].boot
               /\ v.generation = seen[h].generation /\ v.lease = seen[h].lease
      BY <2>5, <3>1 DEF LeaseKnown, Holding, StillHeld, GaveUp
    <3>2. CASE v.owner = body.owner /\ v.boot = body.boot /\ v.generation = body.generation /\ v.lease = body.lease
      BY <1>t, <2>5, <3>2
    <3> QED BY <1>1, ViewSeen, <3>1, <3>2
  <2>6. CASE UNCHANGED <<body, released>>
    <3>1. ASSUME NEW k \in Hosts, Holding(k)' PROVE StillHeld(k)' \/ GaveUp(k)'
      <4>1. CASE k = h
        BY <2>1, <2>2, <2>5, <2>6, <3>1, <4>1 DEF Holding, StillHeld, GaveUp
      <4>2. CASE k # h
        BY <2>1, <2>2, <2>6, <3>1, <4>2 DEF LeaseKnown, Holding, StillHeld, GaveUp
      <4> QED BY <4>1, <4>2
    <3> QED BY <2>4, <3>1 DEF LeaseKnown
  <2>7. CASE /\ h = Fore /\ Controls(h, v) /\ body.owner = h /\ body.boot = boot[h]
             /\ body'.owner = None /\ body'.generation = body.generation + 1 /\ body'.lease = 0
             /\ released' = body.generation
    <3>1. v.kind = "active" /\ v.owner = h /\ v.boot = boot[h] /\ v.lease > 0
      BY <2>7 DEF Controls, OwnerSeen, Fresh, IsSelf
    <3>2. body.generation = v.generation
      BY <2>5, <2>7, <3>1
    <3>3. GaveUp(h)'
      BY <1>n, <1>t, <2>1, <2>2, <2>7, <3>2 DEF GaveUp
    <3>4. ASSUME NEW k \in Hosts, k # h PROVE ~Holding(k)'
      <4>1. SUFFICES ASSUME Holding(k)' PROVE FALSE
        OBVIOUS
      <4>2. Holding(k)
        BY <2>1, <2>2, <3>4, <4>1 DEF Holding
      <4>3. body.owner = k \/ k = Fore
        BY <4>2 DEF LeaseKnown, StillHeld, GaveUp
      <4> QED BY <2>7, <3>4, <4>3
    <3> QED BY <2>4, <3>3, <3>4 DEF LeaseKnown
  <2> QED BY <2>1, <2>6, <2>7
<1>2. ASSUME NEW h \in Hosts, Crash(h) PROVE LeaseKnown'
  <2>1. seen' = [seen EXCEPT ![h] = Unknown] /\ UNCHANGED <<boot, body, released>>
    BY <1>2 DEF Crash, history
  <2>2. \A k \in Hosts : seen'[k] = IF k = h THEN Unknown ELSE seen[k]
    BY <2>1 DEF FailoverTypes
  <2>3. Unknown.lease = 0 /\ Unknown.kind = "unknown"
    BY DEF Unknown
  <2>4. body'.lease <= Lease /\ \A k \in Hosts : seen'[k].lease <= Lease
    BY <2>1, <2>2, <2>3, Thresholds DEF LeaseKnown
  <2>5. ASSUME NEW k \in Hosts, Holding(k)' PROVE StillHeld(k)' \/ GaveUp(k)'
    <3>1. k # h
      BY <2>2, <2>3, <2>5 DEF Holding
    <3> QED BY <2>1, <2>2, <2>5, <3>1 DEF LeaseKnown, Holding, StillHeld, GaveUp
  <2> QED BY <2>4, <2>5 DEF LeaseKnown
<1>3. ASSUME NEW h \in Hosts, Restart(h) PROVE LeaseKnown'
  <2>1. h \notin alive /\ boot' = [boot EXCEPT ![h] = @ + 1] /\ UNCHANGED <<seen, body, released>>
    BY <1>3 DEF Restart, history
  <2>2. \A k \in Hosts \ {h} : boot'[k] = boot[k]
    BY <2>1 DEF FailoverTypes
  <2>3. seen[h].kind = "unknown"
    BY <2>1 DEF DownForgets
  <2>4. ASSUME NEW k \in Hosts, Holding(k)' PROVE StillHeld(k)' \/ GaveUp(k)'
    <3>1. k # h
      BY <2>1, <2>3, <2>4 DEF Holding
    <3> QED BY <2>1, <2>2, <2>4, <3>1 DEF LeaseKnown, Holding, StillHeld, GaveUp
  <2> QED BY <2>1, <2>4 DEF LeaseKnown
<1>4. ASSUME NEW q \in requests, Acquire(q) PROVE LeaseKnown'
  <2>1. UNCHANGED <<seen, boot, alive, released>>
    BY <1>4 DEF Acquire
  <2>2. \/ body' = body
        \/ /\ body.owner = None /\ q.generation = body.generation
           /\ body'.owner = q.host /\ body'.boot = q.boot /\ body'.generation = body.generation + 1
           /\ body'.lease = Lease
    BY <1>4 DEF Acquire
  <2>3. CASE body' = body
    BY <2>1, <2>3 DEF LeaseKnown, Holding, StillHeld, GaveUp
  <2>4. CASE /\ body.owner = None /\ q.generation = body.generation
             /\ body'.owner = q.host /\ body'.boot = q.boot /\ body'.generation = body.generation + 1
             /\ body'.lease = Lease
    <3>1. ASSUME NEW k \in Hosts, Holding(k)' PROVE GaveUp(k)'
      <4>1. Holding(k) /\ k \in alive
        BY <2>1, <3>1 DEF Holding, DownForgets
      <4>2. GaveUp(k)
        BY <1>n, <2>4, <4>1 DEF LeaseKnown, StillHeld
      <4>3. ~(q.host = k /\ q.boot = boot[k])
        <5>1. SUFFICES ASSUME q.host = k, q.boot = boot[k] PROVE FALSE
          OBVIOUS
        <5>2. q.generation <= seen[k].generation
          BY <4>1, <5>1 DEF RequestsSeen
        <5>3. body.generation > seen[k].generation
          BY <4>2 DEF GaveUp
        <5> QED BY <1>t, <2>4, <5>2, <5>3
      <4>4. body'.generation > seen[k].generation
        BY <1>t, <2>4, <4>2 DEF GaveUp
      <4> QED BY <2>1, <2>4, <4>2, <4>3, <4>4 DEF GaveUp
    <3>2. body'.lease <= Lease /\ \A k \in Hosts : seen'[k].lease <= Lease
      BY <2>1, <2>4, Thresholds DEF LeaseKnown
    <3> QED BY <3>1, <3>2 DEF LeaseKnown
  <2> QED BY <2>2, <2>3, <2>4
<1>5. ASSUME NEW late \in BOOLEAN, Clock(late) PROVE LeaseKnown'
  <2>1. \A h \in Hosts : /\ seen'[h].kind = seen[h].kind /\ seen'[h].owner = seen[h].owner
                         /\ seen'[h].boot = seen[h].boot /\ seen'[h].generation = seen[h].generation
                         /\ seen'[h].lease = IF seen[h].lease > 0 THEN seen[h].lease - 1 ELSE 0
    BY <1>5, Aged DEF Clock, FailoverTypes
  <2>2. UNCHANGED <<boot, released>>
    BY <1>5 DEF Clock
  <2>3. \A h \in Hosts : seen'[h].lease <= Lease /\ seen'[h].lease \in Nat
    BY <1>t, <2>1, Thresholds DEF LeaseKnown
  <2>4. body.lease <= Lease /\ body'.lease <= Lease
    <3>1. body.lease <= Lease
      BY DEF LeaseKnown
    <3>2. body' = body \/ body'.lease = Lease \/ body'.lease = body.lease - 1 \/ body'.lease = 0
      BY <1>5, BodyAged
    <3> QED BY <1>t, <3>1, <3>2, Thresholds
  <2>5. ASSUME NEW k \in Hosts, Holding(k)' PROVE StillHeld(k)' \/ GaveUp(k)'
    <3>1. seen'[k].lease > 0 /\ seen[k].lease > 1 /\ seen'[k].lease = seen[k].lease - 1
      BY <1>t, <2>1, <2>5 DEF Holding
    <3>2. Holding(k)
      BY <1>t, <2>1, <2>2, <2>5, <3>1 DEF Holding
    <3>3. CASE StillHeld(k)
      <4>1. body.owner = k /\ body.boot = boot[k] /\ body.generation = seen[k].generation /\ body.lease > 1
        BY <1>t, <3>1, <3>3 DEF StillHeld
      <4>2. /\ body'.owner = body.owner /\ body'.boot = body.boot /\ body'.generation = body.generation
            /\ body'.lease = Lease \/ body'.lease = body.lease - 1
        BY <1>5, <1>n, <1>t, <4>1, BodyAged
      <4>3. body.lease >= seen[k].lease
        BY <3>3 DEF StillHeld
      <4>4. body'.lease >= seen'[k].lease
        BY <1>t, <2>3, <3>1, <4>2, <4>3, Thresholds
      <4> QED BY <2>1, <2>2, <4>1, <4>2, <4>4 DEF StillHeld
    <3>4. CASE GaveUp(k)
      <4>1. /\ k = Fore /\ released = seen[k].generation /\ body.generation > seen[k].generation
            /\ ~(body.owner = k /\ body.boot = boot[k])
        BY <3>4 DEF GaveUp
      <4>2. \/ body'.owner = body.owner /\ body'.boot = body.boot /\ body'.generation = body.generation
            \/ body'.owner = None /\ body'.generation = body.generation + 1
        BY <1>5, BodyAged
      <4>3. body'.generation > seen[k].generation
        BY <1>t, <4>1, <4>2
      <4> QED BY <1>n, <2>1, <2>2, <4>1, <4>2, <4>3 DEF GaveUp
    <3> QED BY <3>2, <3>3, <3>4 DEF LeaseKnown
  <2> QED BY <2>3, <2>4, <2>5 DEF LeaseKnown
<1>6. ASSUME NEW l \in Fragile, LinkChanges(l) PROVE LeaseKnown'
  BY <1>6 DEF LinkChanges, LeaseKnown, Holding, StillHeld, GaveUp, history
<1>7. ASSUME NEW r \in replies, LoseReply(r) PROVE LeaseKnown'
  BY <1>7 DEF LoseReply, LeaseKnown, Holding, StillHeld, GaveUp, history
<1>8. CASE UNCHANGED failoverVars
  BY <1>8 DEF failoverVars, history, LeaseKnown, Holding, StillHeld, GaveUp
<1> QED BY FailoverCases, <1>1, <1>2, <1>3, <1>4, <1>5, <1>6, <1>7, <1>8

LEMMA FreeKnownStep ==
  FailoverTypes /\ FreeKnown /\ [FailoverNext]_failoverVars => FreeKnown'
<1> SUFFICES ASSUME FailoverTypes, FreeKnown, [FailoverNext]_failoverVars PROVE FreeKnown'
  OBVIOUS
<1>t. sinceFree \in Nat /\ \A h \in Hosts : seen[h].age \in Nat
  BY AgeNumbers DEF FailoverTypes, ViewType
<1>n. \A h \in Hosts : h # None
  BY DEF Hosts, None, Mother, Fore
<1>1. ASSUME NEW h \in Hosts, NEW v \in ViewType, NEW answer, v \in {seen[h], Polled(h)}, Decision(h, v, answer)
      PROVE  FreeKnown'
  <2>1. /\ seen' = [seen EXCEPT ![h] = v]
        /\ UNCHANGED <<body, sinceFree>> \/ sinceFree' = 0
    BY <1>1, DecisionEffect
  <2>2. \A k \in Hosts : seen'[k] = IF k = h THEN v ELSE seen[k]
    BY <2>1 DEF FailoverTypes
  <2>3. v.kind = "free" => sinceFree <= v.age \/ v.age >= Horizon
    <3>1. CASE v.kind = seen[h].kind /\ v.age = seen[h].age
      BY <3>1 DEF FreeKnown
    <3>2. CASE v.kind = (IF body.owner = None THEN "free" ELSE "active") /\ v.age = 0
      BY <1>t, <3>2 DEF FreeKnown
    <3> QED BY <1>1, ViewSeen, <3>1, <3>2
  <2>4. \A k \in Hosts : seen'[k].kind = "free" => sinceFree <= seen'[k].age \/ seen'[k].age >= Horizon
    BY <2>2, <2>3 DEF FreeKnown
  <2>5. v.age \in Nat
    BY AgeNumbers DEF ViewType
  <2>6. CASE sinceFree' = 0
    BY <1>t, <2>2, <2>5, <2>6 DEF FreeKnown
  <2>7. CASE UNCHANGED <<body, sinceFree>>
    BY <2>4, <2>7 DEF FreeKnown
  <2> QED BY <2>1, <2>6, <2>7
<1>2. ASSUME NEW h \in Hosts, Crash(h) PROVE FreeKnown'
  <2>1. seen' = [seen EXCEPT ![h] = Unknown] /\ UNCHANGED <<body, sinceFree>>
    BY <1>2 DEF Crash, history
  <2>2. \A k \in Hosts : seen'[k] = IF k = h THEN Unknown ELSE seen[k]
    BY <2>1 DEF FailoverTypes
  <2>3. Unknown.kind # "free"
    BY DEF Unknown
  <2> QED BY <2>1, <2>2, <2>3 DEF FreeKnown
<1>3. ASSUME NEW h \in Hosts, Restart(h) PROVE FreeKnown'
  BY <1>3 DEF Restart, FreeKnown, history
<1>4. ASSUME NEW q \in requests, Acquire(q) PROVE FreeKnown'
  <2>1. UNCHANGED <<seen, sinceFree>> /\ (body' = body \/ body'.owner = q.host)
    BY <1>4 DEF Acquire
  <2>2. q.host # None
    BY <1>n DEF FailoverTypes
  <2> QED BY <2>1, <2>2 DEF FreeKnown
<1>5. ASSUME NEW late \in BOOLEAN, Clock(late) PROVE FreeKnown'
  <2>1. \A h \in Hosts : seen'[h].kind = seen[h].kind /\ seen'[h].age = Older(seen[h].age)
    BY <1>5, Aged DEF Clock, FailoverTypes
  <2>2. sinceFree' = IF body'.owner = None THEN 0
                     ELSE IF sinceFree <= Freshness THEN sinceFree + 1 ELSE sinceFree
    BY <1>5 DEF Clock
  <2>3. ASSUME NEW h \in Hosts, seen'[h].kind = "free"
        PROVE  sinceFree' <= seen'[h].age \/ seen'[h].age >= Horizon
    <3> DEFINE a == seen[h].age
    <3>1. a \in Nat /\ (sinceFree <= a \/ a >= Horizon)
      BY <1>t, <2>1, <2>3 DEF FreeKnown
    <3>2. seen'[h].age = IF a < Horizon THEN a + 1 ELSE a
      BY <2>1 DEF Older
    <3>3. sinceFree' \in Nat /\ sinceFree' <= sinceFree + 1
      BY <1>t, <2>2
    <3> HIDE DEF a
    <3> QED BY <1>t, <3>1, <3>2, <3>3, Thresholds
  <2>4. body'.owner = None => sinceFree' = 0
    BY <2>2
  <2> QED BY <2>3, <2>4 DEF FreeKnown
<1>6. ASSUME NEW l \in Fragile, LinkChanges(l) PROVE FreeKnown'
  BY <1>6 DEF LinkChanges, FreeKnown, history
<1>7. ASSUME NEW r \in replies, LoseReply(r) PROVE FreeKnown'
  BY <1>7 DEF LoseReply, FreeKnown, history
<1>8. CASE UNCHANGED failoverVars
  BY <1>8 DEF failoverVars, history, FreeKnown
<1> QED BY FailoverCases, <1>1, <1>2, <1>3, <1>4, <1>5, <1>6, <1>7, <1>8

LEMMA BudgetStep ==
  FailoverTypes /\ Budget /\ [FailoverNext]_failoverVars => Budget'
<1> SUFFICES ASSUME FailoverTypes, Budget, [FailoverNext]_failoverVars PROVE Budget'
  OBVIOUS
<1>t. /\ faults \in Nat /\ sinceFree \in Nat /\ body.generation \in Nat /\ body.boot \in Nat
      /\ \A h \in Hosts : boot[h] \in Nat /\ seen[h].boot \in Nat
  BY DEF FailoverTypes, BodyType, ViewType
<1>b. \A h \in Hosts : boot[h] <= MaxFaults /\ boot[h] + faults <= MaxFaults
  BY <1>t, Thresholds DEF Budget
<1>1. ASSUME NEW h \in Hosts, NEW v \in ViewType, NEW answer, v \in {seen[h], Polled(h)},
             h \in alive \ ticked, faults' \in Nat, faults' <= faults, Decision(h, v, answer)
      PROVE  Budget'
  <2>1. /\ seen' = [seen EXCEPT ![h] = v] /\ UNCHANGED <<alive, boot, links>>
        /\ ticked' = ticked \cup {h} /\ (joined' => joined \/ (h = Fore /\ "fore_wifi" \in links))
    BY <1>1, DecisionEffect
  <2>2. v.boot <= MaxFaults
    BY <1>1, <1>t, ViewSeen DEF Budget
  <2>3. \A k \in Hosts : seen'[k].boot <= MaxFaults
    BY <2>1, <2>2 DEF FailoverTypes, Budget
  <2>4. \A q \in requests' : q.boot <= MaxFaults
    <3>1. \/ requests' = requests
          \/ requests' = requests \cup {[host |-> h, boot |-> boot[h], generation |-> v.generation]}
      BY <1>1, DecisionEffect
    <3> QED BY <3>1, <1>b DEF Budget
  <2>5. /\ body'.boot <= MaxFaults /\ body'.generation > 0 /\ sinceFree' <= Freshness + 1
    <3>1. \/ UNCHANGED <<body, sinceFree>>
          \/ /\ body' = [owner |-> None, boot |-> 0, generation |-> body.generation + 1, lease |-> 0]
             /\ sinceFree' = 0
      BY <1>1, DecisionEffect
    <3> QED BY <3>1, <1>t, Thresholds DEF Budget
  <2>6. \A k \in Hosts : boot'[k] + (IF k \in alive' THEN 0 ELSE 1) + faults' <= MaxFaults
    <3> SUFFICES ASSUME NEW k \in Hosts PROVE boot[k] + (IF k \in alive THEN 0 ELSE 1) + faults' <= MaxFaults
      BY <2>1
    <3>1. boot[k] + (IF k \in alive THEN 0 ELSE 1) + faults <= MaxFaults
      BY DEF Budget
    <3> QED BY <3>1, <1>1, <1>t, Thresholds
  <2>7. links' \subseteq Links /\ ticked' \subseteq Hosts /\ (joined' => "fore_wifi" \in links' /\ Fore \in alive')
    BY <1>1, <2>1 DEF Budget
  <2> QED BY <2>3, <2>4, <2>5, <2>6, <2>7 DEF Budget
<1>2. ASSUME NEW h \in Hosts, Crash(h) PROVE Budget'
  <2>1. /\ h \in alive /\ faults > 0 /\ faults' = faults - 1 /\ alive' = alive \ {h}
        /\ seen' = [seen EXCEPT ![h] = Unknown] /\ joined' = (joined /\ h # Fore)
        /\ ticked' = ticked \ {h} /\ UNCHANGED <<links, boot, body, requests, sinceFree>>
    BY <1>2 DEF Crash, history
  <2>2. \A k \in Hosts : seen'[k].boot <= MaxFaults
    <3>1. Unknown.boot = 0
      BY DEF Unknown
    <3> QED BY <2>1, <3>1, Thresholds DEF FailoverTypes, Budget
  <2>3. \A k \in Hosts : boot'[k] + (IF k \in alive' THEN 0 ELSE 1) + faults' <= MaxFaults
    <3> SUFFICES ASSUME NEW k \in Hosts
                 PROVE  boot[k] + (IF k \in alive \ {h} THEN 0 ELSE 1) + (faults - 1) <= MaxFaults
      BY <2>1
    <3>1. boot[k] + (IF k \in alive THEN 0 ELSE 1) + faults <= MaxFaults
      BY DEF Budget
    <3> QED BY <3>1, <2>1, <1>t, Thresholds
  <2>4. links' \subseteq Links /\ ticked' \subseteq Hosts /\ (joined' => "fore_wifi" \in links' /\ Fore \in alive')
    BY <2>1 DEF Budget
  <2> QED BY <2>1, <2>2, <2>3, <2>4 DEF Budget
<1>3. ASSUME NEW h \in Hosts, Restart(h) PROVE Budget'
  <2>1. /\ h \notin alive /\ alive' = alive \cup {h} /\ boot' = [boot EXCEPT ![h] = boot[h] + 1]
        /\ UNCHANGED <<links, joined, seen, body, requests, ticked, faults, sinceFree>>
    BY <1>3 DEF Restart, history
  <2>2. \A k \in Hosts : boot'[k] + (IF k \in alive' THEN 0 ELSE 1) + faults' <= MaxFaults
    <3> SUFFICES ASSUME NEW k \in Hosts
                 PROVE  boot'[k] + (IF k \in alive \cup {h} THEN 0 ELSE 1) + faults <= MaxFaults
      BY <2>1
    <3>1. boot[k] + (IF k \in alive THEN 0 ELSE 1) + faults <= MaxFaults
      BY DEF Budget
    <3>2. boot'[k] = IF k = h THEN boot[k] + 1 ELSE boot[k]
      BY <2>1 DEF FailoverTypes
    <3> QED BY <3>1, <3>2, <2>1, <1>t, Thresholds
  <2> QED BY <2>1, <2>2 DEF Budget
<1>4. ASSUME NEW q \in requests, Acquire(q) PROVE Budget'
  <2>1. /\ requests' = requests \ {q} /\ UNCHANGED <<links, joined, alive, boot, seen, ticked, faults, sinceFree>>
        /\ \/ body' = body
           \/ body' = [owner |-> q.host, boot |-> q.boot, generation |-> body.generation + 1, lease |-> Lease]
    BY <1>4 DEF Acquire
  <2>2. body'.boot <= MaxFaults /\ body'.generation > 0
    BY <2>1, <1>t DEF Budget
  <2> QED BY <2>1, <2>2 DEF Budget
<1>5. ASSUME NEW late \in BOOLEAN, Clock(late) PROVE Budget'
  <2>1. faults' <= faults /\ faults' \in Nat
    BY <1>5, <1>t DEF Clock
  <2>2. \A h \in Hosts : seen'[h].boot = seen[h].boot
    BY <1>5, Aged DEF Clock, FailoverTypes
  <2>3. /\ sinceFree' = IF body'.owner = None THEN 0
                        ELSE IF sinceFree <= Freshness THEN sinceFree + 1 ELSE sinceFree
        /\ ticked' = {} /\ UNCHANGED <<links, joined, alive, boot, requests>>
    BY <1>5 DEF Clock
  <2>4. sinceFree' <= Freshness + 1
    BY <2>3, <1>t, Thresholds DEF Budget
  <2>5. body'.boot <= MaxFaults /\ body'.generation > 0
    <3>1. \/ body' = body
          \/ body'.boot = body.boot /\ body'.generation = body.generation
          \/ body'.generation = body.generation + 1 /\ body'.boot = 0
      <4>1. body' = body \/ \E renewed : body' = OlderBody(renewed)
        BY <1>5 DEF Clock
      <4>2. body \in BodyType
        BY DEF FailoverTypes
      <4> QED BY <4>1, <4>2 DEF OlderBody, BodyType
    <3> QED BY <3>1, <1>t, Thresholds DEF Budget
  <2>6. \A k \in Hosts : boot'[k] + (IF k \in alive' THEN 0 ELSE 1) + faults' <= MaxFaults
    <3> SUFFICES ASSUME NEW k \in Hosts PROVE boot[k] + (IF k \in alive THEN 0 ELSE 1) + faults' <= MaxFaults
      BY <2>3
    <3>1. boot[k] + (IF k \in alive THEN 0 ELSE 1) + faults <= MaxFaults
      BY DEF Budget
    <3> QED BY <3>1, <2>1, <1>t, Thresholds
  <2> QED BY <2>2, <2>3, <2>4, <2>5, <2>6 DEF Budget
<1>6. ASSUME NEW l \in Fragile, LinkChanges(l) PROVE Budget'
  <2>1. /\ faults > 0 /\ faults' = faults - 1 /\ l \in Links
        /\ links' = (IF l \in links THEN links \ {l} ELSE links \cup {l})
        /\ joined' = (joined /\ l # "fore_wifi")
        /\ UNCHANGED <<alive, boot, seen, body, requests, ticked, sinceFree>>
    BY <1>6, ThresholdsAssumption DEF LinkChanges, history
  <2>2. \A k \in Hosts : boot'[k] + (IF k \in alive' THEN 0 ELSE 1) + faults' <= MaxFaults
    <3> SUFFICES ASSUME NEW k \in Hosts
                 PROVE  boot[k] + (IF k \in alive THEN 0 ELSE 1) + (faults - 1) <= MaxFaults
      BY <2>1
    <3>1. boot[k] + (IF k \in alive THEN 0 ELSE 1) + faults <= MaxFaults
      BY DEF Budget
    <3> QED BY <3>1, <1>t, Thresholds
  <2>3. links' \subseteq Links /\ (joined' => "fore_wifi" \in links' /\ Fore \in alive')
    BY <2>1 DEF Budget
  <2> QED BY <2>1, <2>2, <2>3 DEF Budget
<1>7. ASSUME NEW r \in replies, LoseReply(r) PROVE Budget'
  <2>1. /\ faults > 0 /\ faults' = faults - 1
        /\ UNCHANGED <<links, joined, alive, boot, seen, body, requests, ticked, sinceFree>>
    BY <1>7 DEF LoseReply, history
  <2>2. \A k \in Hosts : boot'[k] + (IF k \in alive' THEN 0 ELSE 1) + faults' <= MaxFaults
    <3> SUFFICES ASSUME NEW k \in Hosts
                 PROVE  boot[k] + (IF k \in alive THEN 0 ELSE 1) + (faults - 1) <= MaxFaults
      BY <2>1
    <3>1. boot[k] + (IF k \in alive THEN 0 ELSE 1) + faults <= MaxFaults
      BY DEF Budget
    <3> QED BY <3>1, <1>t, Thresholds
  <2> QED BY <2>1, <2>2 DEF Budget
<1>8. CASE UNCHANGED failoverVars
  BY <1>8 DEF failoverVars, history, Budget
<1> QED BY FailoverCases, <1>1, <1>2, <1>3, <1>4, <1>5, <1>6, <1>7, <1>8

LEMMA FailoverInvInit == FailoverInit => FailoverInv
<1> SUFFICES ASSUME FailoverInit PROVE FailoverInv
  OBVIOUS
<1>1. FailoverTypes
  BY FailoverTypesInit
<1>2. /\ alive = Hosts /\ role = [h \in Hosts |-> "subordinate"] /\ seen = [h \in Hosts |-> Unknown]
      /\ body = [owner |-> None, boot |-> 0, generation |-> 1, lease |-> 0]
      /\ requests = {} /\ replies = {} /\ sinceFree = 0
  BY DEF FailoverInit, StartWith
<1>3. Unknown.kind = "unknown" /\ Unknown.generation = 0 /\ Unknown.lease = 0
  BY DEF Unknown, NoGeneration
<1>4. /\ body.owner = None /\ body.generation = 1 /\ body.lease = 0
      /\ \A h \in Hosts : /\ seen[h].kind = "unknown" /\ seen[h].generation = 0 /\ seen[h].lease = 0
                          /\ role[h] # "controlling"
  BY <1>2, <1>3
<1>5. DownForgets /\ GrantKnown
  BY <1>2, <1>4 DEF DownForgets, GrantKnown, ControlsByGrant
<1>6. RequestsSeen
  BY <1>2, <1>4 DEF RequestsSeen
<1>7. LeaseKnown
  BY <1>4, Thresholds DEF LeaseKnown, Holding
<1>8. FreeKnown
  BY <1>2, <1>4 DEF FreeKnown
<1>9. Budget
  <2>1. links \subseteq Links /\ joined = FALSE /\ ticked = {} /\ faults = MaxFaults /\ body.boot = 0
        /\ boot = [h \in Hosts |-> 0]
    BY <1>2 DEF FailoverInit, StartWith
  <2>2. \A h \in Hosts : seen[h].boot = 0
    BY <1>2 DEF Unknown
  <2> QED BY <1>2, <1>4, <2>1, <2>2, Thresholds DEF Budget
<1> QED BY <1>1, <1>5, <1>6, <1>7, <1>8, <1>9 DEF FailoverInv

LEMMA FailoverInvStep == FailoverInv /\ [FailoverNext]_failoverVars => FailoverInv'
BY FailoverTypesStep, DownForgetsStep, GrantKnownStep, RequestsSeenStep, LeaseKnownStep, FreeKnownStep,
   BudgetStep
   DEF FailoverInv

LEMMA FailoverInvariant == FailoverSpec => []FailoverInv
BY FailoverInvInit, FailoverInvStep, PTL DEF FailoverSpec

\* What the invariant says of the types of the failover's state.
LEMMA FailoverTyped == FailoverInv => FailoverTypeOK
<1> SUFFICES ASSUME FailoverInv PROVE FailoverTypeOK
  OBVIOUS
<1>t. FailoverTypes /\ Budget /\ LeaseKnown
  BY DEF FailoverInv
<1>1. boot \in [Hosts -> 0 .. MaxFaults] /\ faults \in 0 .. MaxFaults
  <2>1. faults \in Nat /\ boot \in [Hosts -> Nat] /\ Mother \in Hosts
    BY <1>t DEF FailoverTypes, Hosts
  <2>2. ASSUME NEW h \in Hosts PROVE boot[h] \in 0 .. MaxFaults /\ faults <= MaxFaults
    <3>1. boot[h] + (IF h \in alive THEN 0 ELSE 1) + faults <= MaxFaults /\ boot[h] \in Nat
      BY <1>t, <2>1 DEF Budget
    <3> QED BY <3>1, <2>1, Thresholds
  <2> QED BY <2>1, <2>2, Thresholds
<1>2. machine \in [Hosts -> [preferredPath : BOOLEAN, outage : 0 .. Never, uncontrolled : 0 .. Never,
                            preferred : 0 .. Never, attempt : 0 .. Never, generation : Nat]]
  BY <1>t DEF FailoverTypes, MachineType, Ages
<1>3. role \in [Hosts -> {"controlling", "subordinate", "candidate", "unavailable"}]
  BY <1>t DEF FailoverTypes, AllRoles
<1>4. seen \in [Hosts -> [kind : {"unknown", "free", "active"}, owner : Hosts \cup {None},
                         boot : 0 .. MaxFaults, generation : Nat, age : 0 .. Never,
                         lease : 0 .. Lease, peer : 0 .. Never]]
  <2>1. seen \in [Hosts -> ViewType]
    BY <1>t DEF FailoverTypes
  <2>2. ASSUME NEW h \in Hosts
        PROVE  seen[h] \in [kind : {"unknown", "free", "active"}, owner : Hosts \cup {None},
                            boot : 0 .. MaxFaults, generation : Nat, age : 0 .. Never,
                            lease : 0 .. Lease, peer : 0 .. Never]
    <3>1. seen[h] \in ViewType /\ seen[h].boot <= MaxFaults /\ seen[h].lease <= Lease
      BY <1>t, <2>1 DEF Budget, LeaseKnown
    <3>2. seen[h].boot \in 0 .. MaxFaults /\ seen[h].lease \in 0 .. Lease
      BY <3>1, Thresholds DEF ViewType
    <3> QED BY <3>1, <3>2 DEF ViewType, Ages
  <2> QED BY <2>1, <2>2
<1>5. body \in [owner : Hosts \cup {None}, boot : 0 .. MaxFaults,
               generation : Nat \ {NoGeneration}, lease : 0 .. Lease]
  <2>1. body \in BodyType /\ body.boot <= MaxFaults /\ body.lease <= Lease /\ body.generation > 0
    BY <1>t DEF FailoverTypes, Budget, LeaseKnown
  <2>2. body.boot \in 0 .. MaxFaults /\ body.lease \in 0 .. Lease /\ body.generation \in Nat \ {NoGeneration}
    BY <2>1, Thresholds DEF BodyType
  <2> QED BY <2>1, <2>2 DEF BodyType
<1>6. sinceFree \in 0 .. Freshness + 1
  BY <1>t, Thresholds DEF FailoverTypes, Budget
<1>7. /\ links \subseteq Links /\ joined \in BOOLEAN /\ (joined => "fore_wifi" \in links /\ Fore \in alive)
      /\ alive \subseteq Hosts /\ ticked \subseteq Hosts
  BY <1>t DEF FailoverTypes, Budget
<1> QED BY <1>1, <1>2, <1>3, <1>4, <1>5, <1>6, <1>7 DEF FailoverTypeOK

\* HostFailover keeps its types: ages stop at the horizon, a lease is never longer
\* than the brainstem grants it for, and only the running forebrain joins its network.
THEOREM FailoverTypeCorrect == FailoverSpec => []FailoverTypeOK
  BY FailoverTyped, FailoverInvariant, PTL

\* HostFailover::tick: a host advertises the controlling role only as the process
\* the brainstem granted possession to, whatever it polled, lost or slept through.
THEOREM ControlAlwaysGranted == FailoverSpec => []ControlsByGrant
<1>1. FailoverInv => ControlsByGrant
  BY DEF FailoverInv, GrantKnown
<1> QED BY <1>1, FailoverInvariant, PTL

\* fresh_at and the lease: a host that goes on controlling on an observation, old
\* or new, still has possession, unless it released it itself.
THEOREM ControlEndsWithLease == FailoverSpec => ContinuesOnLease
<1>1. FailoverInv /\ [FailoverNext]_failoverVars =>
        [\A h \in ticked' \ ticked : (role'[h] = "controlling" /\ Controls(h, seen'[h]))
           => \/ body.owner = h /\ body.boot = boot[h]
              \/ seen'[h].generation = released]_failoverVars
  <2> SUFFICES ASSUME FailoverInv, [FailoverNext]_failoverVars, NEW h \in ticked' \ ticked,
                      Controls(h, seen'[h])
               PROVE  (body.owner = h /\ body.boot = boot[h]) \/ seen'[h].generation = released
    OBVIOUS
  <2>t. FailoverTypes
    BY DEF FailoverInv
  <2>0. ticked' # ticked => \E k \in Hosts : \E v \in ViewType : \E answer \in SUBSET replies :
              v \in {seen[k], Polled(k)} /\ Decision(k, v, answer)
    <3>1. ~(ticked' \subseteq ticked) =>
            /\ \A k \in Hosts : ~Crash(k) /\ ~Restart(k)
            /\ \A q \in requests : ~Acquire(q)
            /\ \A late \in BOOLEAN : ~Clock(late)
            /\ \A l \in Fragile : ~LinkChanges(l)
            /\ \A r \in replies : ~LoseReply(r)
            /\ ~UNCHANGED failoverVars
      BY DEF Crash, Restart, Acquire, Clock, LinkChanges, LoseReply, failoverVars
    <3> QED BY <2>t, <3>1, FailoverCases
  <2>1. PICK k \in Hosts, v \in ViewType, answer \in SUBSET replies :
          v \in {seen[k], Polled(k)} /\ Decision(k, v, answer)
    BY <2>0
  <2>2. ticked' = ticked \cup {k} /\ seen' = [seen EXCEPT ![k] = v]
    BY <2>t, <2>1, DecisionEffect
  <2>3. h = k /\ seen'[h] = v
    BY <2>t, <2>2 DEF FailoverTypes
  <2>4. v.kind = "active" /\ v.lease > 0 /\ v.owner = h /\ v.boot = boot[h]
    BY <2>3 DEF Controls, OwnerSeen, Fresh, IsSelf
  <2>5. CASE /\ v.kind = seen[h].kind /\ v.owner = seen[h].owner /\ v.boot = seen[h].boot
             /\ v.generation = seen[h].generation /\ v.lease = seen[h].lease
    BY <2>3, <2>4, <2>5 DEF FailoverInv, LeaseKnown, Holding, StillHeld, GaveUp
  <2>6. CASE v.owner = body.owner /\ v.boot = body.boot
    BY <2>4, <2>6
  <2> QED BY <2>t, <2>1, <2>3, <2>5, <2>6, ViewSeen
<1> QED BY <1>1, FailoverInvariant, PTL DEF FailoverSpec, ContinuesOnLease

\* fresh_uncontrolled: an acquisition is asked for only where the body had no
\* owner within the freshness of a status, so a stale status opens none.
THEOREM AsksOnlyForFreeBody == FailoverSpec => AsksForFreeBody
<1>1. FailoverInv /\ [FailoverNext]_failoverVars => [requests' \subseteq requests \/ sinceFree <= Freshness]_failoverVars
  <2> SUFFICES ASSUME FailoverInv, [FailoverNext]_failoverVars, ~(requests' \subseteq requests)
               PROVE  sinceFree <= Freshness
    OBVIOUS
  <2>t. FailoverTypes /\ sinceFree \in Nat
    BY DEF FailoverInv, FailoverTypes
  <2>0. /\ \A k \in Hosts : ~Crash(k) /\ ~Restart(k)
        /\ \A q \in requests : ~Acquire(q)
        /\ \A late \in BOOLEAN : ~Clock(late)
        /\ \A l \in Fragile : ~LinkChanges(l)
        /\ \A r \in replies : ~LoseReply(r)
        /\ ~UNCHANGED failoverVars
    BY DEF Crash, Restart, Acquire, Clock, LinkChanges, LoseReply, failoverVars
  <2>1. PICK k \in Hosts, v \in ViewType, answer \in SUBSET replies :
          v \in {seen[k], Polled(k)} /\ Decision(k, v, answer)
    BY <2>t, <2>0, FailoverCases
  <2>2. FreeSeen(v)
    BY <2>t, <2>1, DecisionEffect
  <2>3. v.kind = "free" /\ v.age <= Freshness /\ v.age \in Nat
    BY <2>2, AgeNumbers DEF FreeSeen, Fresh, ViewType
  <2>4. sinceFree <= v.age
    <3>1. CASE v.kind = seen[k].kind /\ v.age = seen[k].age
      <4>1. sinceFree <= v.age \/ v.age >= Horizon
        BY <2>3, <3>1 DEF FailoverInv, FreeKnown
      <4> QED BY <2>3, <4>1, Thresholds
    <3>2. CASE v.kind = (IF body.owner = None THEN "free" ELSE "active") /\ v.age = 0
      BY <2>3, <3>2 DEF FailoverInv, FreeKnown
    <3> QED BY <2>t, <2>1, <3>1, <3>2, ViewSeen
  <2> QED BY <2>t, <2>3, <2>4, Thresholds
<1> QED BY <1>1, FailoverInvariant, PTL DEF FailoverSpec, AsksForFreeBody

-----------------------------------------------------------------------------
(* The event ring: its state and what it keeps.                          *)

SeqRange == 0 .. MaxEvents + 1
EventRange == 0 .. MaxEvents
Slots == 0 .. Capacity - 1
RecordType == [seq : SeqRange, kind : EventRange, data : EventRange]
RecorderType == [step : {"idle", "loaded", "reserved", "data", "kind"}, seq : SeqRange, event : EventRange]
ReaderType == [step : {"idle", "bound", "scan", "kind", "data", "close", "answer"}, next : SeqRange,
               at : Nat, kind : EventRange, out : Seq(RecordType), batchNext : SeqRange,
               dropped : SeqRange, before : SUBSET [seq : SeqRange, event : EventRange]]

Claimed(l) == recorder[l].step \in {"reserved", "data", "kind"}
Writing(l) == recorder[l].step \in {"data", "kind"}
SlotOf(l) == Index(recorder[l].seq)
Reading == reader.step \in {"kind", "data"}
Scanning == reader.step \in {"scan", "kind", "data"}
Closed == reader.step \in {"close", "answer"}
Exact(r) == r.kind = r.data /\ [seq |-> r.seq, event |-> r.kind] \in published
InBatch(e) == \E r \in RecordsOf(reader.out) : r.seq = e.seq

\* A lane numbers no event twice, so no seq passes the number of events.
RingTypes ==
  /\ numbered \in EventRange /\ next \in 1 .. numbered + 1
  /\ ring \in [Slots -> RecordType]
  /\ recorder \in [Lanes -> RecorderType] /\ \A l \in Lanes : recorder[l].seq <= numbered
  /\ reader \in ReaderType /\ Len(reader.out) <= Batch
  /\ Reading => reader.at < reader.next /\ Len(reader.out) < Batch
  /\ cursor \in EventRange /\ excused \in EventRange
  /\ host \in {"polling", "missed"} /\ lost \in 0 .. MaxLost /\ collided \in BOOLEAN
  /\ published \subseteq [seq : SeqRange, event : EventRange] /\ delivered \subseteq RecordType

\* Lanes that write have slots of their own, each over an older record.
LanesApart ==
  /\ \A l \in Lanes : recorder[l].step = "loaded" => recorder[l].seq <= next
  /\ \A l \in Lanes : Claimed(l) => recorder[l].seq < next /\ ring[SlotOf(l)].seq < recorder[l].seq
  /\ \A l, k \in Lanes : l # k /\ Claimed(l) /\ Claimed(k) => SlotOf(l) # SlotOf(k)
  /\ \A l \in Lanes : Writing(l) => ring[SlotOf(l)].data = recorder[l].event
  /\ \A l \in Lanes : recorder[l].step = "kind" => ring[SlotOf(l)].kind = recorder[l].event

\* A slot that holds a seq holds that event, unless a lane is overwriting it.
SlotsExact ==
  \A i \in Slots :
    /\ ring[i].seq < next
    /\ ring[i].seq # 0 => Index(ring[i].seq) = i
    /\ ring[i].seq # 0 /\ (\A l \in Lanes : Writing(l) => SlotOf(l) # i) => Exact(ring[i])

\* A published event is in its slot, or a later lap is.
PublishedKept == \A e \in published : 0 < e.seq /\ e.seq < next /\ e.seq <= ring[Index(e.seq)].seq

\* Where an answer stands: after the cursor, in order.
ReaderPlace ==
  /\ reader.step # "idle" => host = "polling"
  /\ Scanning => cursor < reader.at
  /\ reader.step \in {"idle", "bound"} => reader.out = <<>>
  /\ \A i \in 1 .. Len(reader.out) : /\ cursor < reader.out[i].seq /\ reader.out[i].seq < reader.next
                                     /\ Scanning => reader.out[i].seq < reader.at
  /\ \A i, j \in 1 .. Len(reader.out) : i < j => reader.out[i].seq < reader.out[j].seq
  /\ Closed /\ reader.out # <<>> => reader.batchNext = reader.out[Len(reader.out)].seq + 1

\* What an answer has read is exact as long as its slot has not been lapped, and
\* the drop check at its end settles that.
ReadExactly ==
  /\ Reading /\ next <= reader.at + Capacity => ring[Index(reader.at)].seq = reader.at
  /\ reader.step = "data" /\ next <= reader.at + Capacity => reader.kind = ring[Index(reader.at)].kind
  /\ reader.step # "answer" => \A r \in RecordsOf(reader.out) : next <= r.seq + Capacity => Exact(r)
  /\ reader.step = "answer" /\ reader.dropped = 0 => \A r \in RecordsOf(reader.out) : Exact(r)
  /\ \A r \in delivered : Exact(r)

\* What the answer passed over is in its batch or lapped, up to the last record of
\* a batch that is full.
Within(e) == Len(reader.out) < Batch \/ e.seq <= reader.out[Len(reader.out)].seq
ReadAll ==
  /\ cursor < next /\ reader.next <= next
  /\ Closed => cursor < reader.batchNext /\ reader.batchNext <= next
  /\ \A e \in reader.before : e \in published /\ e.seq < reader.next
  /\ Scanning => \A e \in reader.before : cursor < e.seq /\ e.seq < reader.at /\ Within(e)
                                            => InBatch(e) \/ e.seq + Capacity < next
  /\ reader.step = "close" => \A e \in reader.before : cursor < e.seq /\ e.seq < reader.batchNext
                                            => InBatch(e) \/ e.seq + Capacity < next
  /\ reader.step = "answer" /\ reader.dropped = 0 =>
       \A e \in reader.before : cursor < e.seq /\ e.seq < reader.batchNext => InBatch(e)

LanesSound == LanesApart /\ SlotsExact /\ PublishedKept
RingInv == RingTypes /\ ReaderPlace /\ (~collided => LanesSound /\ ReadExactly /\ ReadAll)

-----------------------------------------------------------------------------
(* Slots and laps.                                                       *)

LEMMA Sizes ==
  /\ Capacity \in Nat /\ Capacity > 0 /\ Batch \in Nat /\ Batch > 0 /\ MaxEvents \in Nat /\ MaxLost \in Nat
  /\ SeqRange \subseteq Nat /\ EventRange \subseteq Nat /\ EventRange \subseteq SeqRange
BY RingAssumption DEF SeqRange, EventRange

LEMMA IndexSlot ==
  ASSUME NEW a \in Nat
  PROVE  Index(a) \in Slots /\ \E q \in Nat : a = Capacity * q + Index(a)
<1>1. a % Capacity \in 0 .. Capacity - 1 /\ a \div Capacity \in Nat
      /\ a = Capacity * (a \div Capacity) + (a % Capacity)
  BY ONLY RingAssumption, a \in Nat
<1> QED BY <1>1 DEF Index, Slots

\* Two seqs of one slot are a lap apart.
LEMMA LapGap ==
  ASSUME NEW a \in Nat, NEW b \in Nat, Index(a) = Index(b), a < b
  PROVE  a + Capacity <= b
<1>c. Capacity \in Nat /\ Capacity > 0
  BY Sizes
<1>m. \A p, q \in Nat : p < q => Capacity * p + Capacity <= Capacity * q
  BY ONLY <1>c
<1>1. PICK p \in Nat : a = Capacity * p + Index(a)
  BY IndexSlot
<1>2. PICK q \in Nat : b = Capacity * q + Index(a)
  BY IndexSlot
<1>i. Index(a) \in Nat
  BY IndexSlot, <1>c DEF Slots
<1>3. p < q
  <2>1. SUFFICES ASSUME q <= p PROVE FALSE
    OBVIOUS
  <2>2. Capacity * q <= Capacity * p
    BY ONLY <1>c, <2>1, p \in Nat, q \in Nat
  <2> QED BY ONLY <1>1, <1>2, <1>i, <1>c, <2>2, a < b, p \in Nat, q \in Nat
<1> QED BY ONLY <1>1, <1>2, <1>3, <1>m, <1>i, <1>c, p \in Nat, q \in Nat

-----------------------------------------------------------------------------
(* What the steps of the ring do.                                        *)

LEMMA AdvanceEffect ==
  ASSUME RingTypes, NEW l \in Lanes, NEW from, NEW to \in {"reserved", "data", "kind"}, Advance(l, from, to)
  PROVE  /\ recorder' \in [Lanes -> RecorderType] /\ recorder[l].step = from /\ recorder'[l].step = to
         /\ recorder'[l].seq = recorder[l].seq /\ recorder'[l].event = recorder[l].event
         /\ \A k \in Lanes \ {l} : recorder'[k] = recorder[k]
<1>1. recorder[l] \in RecorderType /\ recorder \in [Lanes -> RecorderType]
  BY DEF RingTypes
<1>2. recorder' = [recorder EXCEPT ![l] = [recorder[l] EXCEPT !.step = to]] /\ recorder[l].step = from
  BY DEF Advance
<1>3. /\ [recorder[l] EXCEPT !.step = to] \in RecorderType
      /\ [recorder[l] EXCEPT !.step = to].step = to
      /\ [recorder[l] EXCEPT !.step = to].seq = recorder[l].seq
      /\ [recorder[l] EXCEPT !.step = to].event = recorder[l].event
  BY <1>1 DEF RecorderType
<1> QED BY <1>1, <1>2, <1>3

\* Storing one field of a slot leaves the others.
LEMMA SlotStore ==
  ASSUME RingTypes, NEW i \in Slots, NEW e
  PROVE  /\ ring' = [ring EXCEPT ![i].data = e] =>
              /\ ring'[i].data = e /\ ring'[i].seq = ring[i].seq /\ ring'[i].kind = ring[i].kind
              /\ \A j \in Slots \ {i} : ring'[j] = ring[j]
              /\ e \in EventRange => ring' \in [Slots -> RecordType]
         /\ ring' = [ring EXCEPT ![i].kind = e] =>
              /\ ring'[i].kind = e /\ ring'[i].seq = ring[i].seq /\ ring'[i].data = ring[i].data
              /\ \A j \in Slots \ {i} : ring'[j] = ring[j]
              /\ e \in EventRange => ring' \in [Slots -> RecordType]
         /\ ring' = [ring EXCEPT ![i].seq = e] =>
              /\ ring'[i].seq = e /\ ring'[i].kind = ring[i].kind /\ ring'[i].data = ring[i].data
              /\ \A j \in Slots \ {i} : ring'[j] = ring[j]
              /\ e \in SeqRange => ring' \in [Slots -> RecordType]
<1>1. ring \in [Slots -> RecordType] /\ ring[i] \in RecordType
  BY DEF RingTypes
<1> QED BY <1>1 DEF RecordType

\* A lane's step leaves the answer and the host alone.
LEMMA LaneRest ==
  ASSUME NEW l \in Lanes, Reserve(l) \/ Record(l)
  PROVE  UNCHANGED <<reader, cursor, host, lost, delivered, excused>> /\ published \subseteq published'
BY DEF Reserve, Record, StoreNext, StoreData, StoreKind, Publish, hostVars

\* A step of the answer or of the host leaves the lanes and the ring alone.
LEMMA HostRest ==
  ASSUME AnswerStep \/ Accept \/ Refuse \/ LoseAnswer \/ Resync
  PROVE  UNCHANGED <<next, ring, recorder, numbered, published, collided>>
BY DEF AnswerStep, BeginAnswer, BoundAnswer, ScanSeq, ReadKind, ReadData, CloseBatch, CheckDropped,
       Accept, Refuse, LoseAnswer, Resync, answerRest

LEMMA NoPollReader == NoPoll \in ReaderType
BY Sizes DEF NoPoll, ReaderType, Nothing, SeqRange, EventRange

\* The steps of an answer, field by field.
LEMMA BeginEffect ==
  ASSUME RingTypes, BeginAnswer
  PROVE  /\ reader' \in ReaderType /\ reader'.step = "bound" /\ reader'.next = next /\ reader'.before = published
         /\ reader'.out = <<>> /\ host = "polling" /\ UNCHANGED <<cursor, host, lost, delivered, excused>>
<1>1. reader' = [NoPoll EXCEPT !.step = "bound", !.next = next, !.before = published]
  BY DEF BeginAnswer
<1>2. next \in SeqRange /\ published \in SUBSET [seq : SeqRange, event : EventRange]
  BY Sizes DEF RingTypes, SeqRange, EventRange
<1>3. ASSUME NEW u \in ReaderType, NEW w, w = [u EXCEPT !.step = "bound", !.next = next, !.before = published]
      PROVE  w \in ReaderType /\ w.step = "bound" /\ w.next = next /\ w.before = published /\ w.out = u.out
  BY <1>2, <1>3 DEF ReaderType
<1>4. NoPoll.out = <<>>
  BY DEF NoPoll
<1>5. host = "polling" /\ UNCHANGED <<cursor, host, lost, delivered, excused>>
  BY DEF BeginAnswer, answerRest, hostVars
<1> QED BY <1>1, <1>2, <1>3, <1>4, <1>5, NoPollReader

LEMMA BoundEffect ==
  ASSUME RingTypes, BoundAnswer
  PROVE  /\ reader' \in ReaderType /\ reader.step = "bound" /\ reader'.step = "scan"
         /\ reader'.at = FirstSeq(cursor) /\ reader'.out = reader.out /\ reader'.next = reader.next
         /\ reader'.before = reader.before
         /\ UNCHANGED <<cursor, host, lost, delivered, excused>>
<1>1. reader' = [reader EXCEPT !.step = "scan", !.at = FirstSeq(cursor)] /\ reader.step = "bound"
  BY DEF BoundAnswer
<1>2. FirstSeq(cursor) \in Nat /\ reader \in ReaderType
  <2>1. next \in Nat /\ cursor \in Nat /\ Capacity \in Nat
    BY Sizes DEF RingTypes, EventRange
  <2>2. OldestSeq \in Nat /\ OldestSeq >= 1
    BY <2>1 DEF OldestSeq, AtLeast, Minus
  <2> QED BY <2>1, <2>2 DEF FirstSeq, AtLeast, RingTypes
<1>3. \A a \in Nat, u \in ReaderType : LET w == [u EXCEPT !.step = "scan", !.at = a] IN
         w \in ReaderType /\ w.step = "scan" /\ w.at = a /\ w.out = u.out /\ w.next = u.next /\ w.before = u.before
  BY DEF ReaderType
<1>4. UNCHANGED <<cursor, host, lost, delivered, excused>>
  BY DEF BoundAnswer, answerRest, hostVars
<1> QED BY <1>1, <1>2, <1>3, <1>4

LEMMA ScanEffect ==
  ASSUME RingTypes, ScanSeq
  PROVE  /\ reader' \in ReaderType /\ reader.step = "scan" /\ reader.at < reader.next
         /\ reader'.out = reader.out /\ reader'.next = reader.next /\ reader'.before = reader.before
         /\ \/ /\ Holds(reader.at) /\ Len(reader.out) < Batch /\ reader'.step = "kind"
               /\ reader'.at = reader.at
            \/ /\ ~(Holds(reader.at) /\ Len(reader.out) < Batch) /\ reader'.step = "scan"
               /\ reader'.at = reader.at + 1
         /\ UNCHANGED <<cursor, host, lost, delivered, excused>>
<1>1. /\ reader.step = "scan" /\ reader.at < reader.next
      /\ \/ Holds(reader.at) /\ Len(reader.out) < Batch /\ reader' = [reader EXCEPT !.step = "kind"]
         \/ ~(Holds(reader.at) /\ Len(reader.out) < Batch) /\ reader' = [reader EXCEPT !.at = reader.at + 1]
  BY DEF ScanSeq
<1>2. reader \in ReaderType /\ reader.at + 1 \in Nat
  BY DEF RingTypes, ReaderType
<1>3. ASSUME NEW u \in ReaderType, NEW w, w = [u EXCEPT !.step = "kind"]
      PROVE  /\ w \in ReaderType /\ w.step = "kind" /\ w.at = u.at /\ w.out = u.out /\ w.next = u.next
             /\ w.before = u.before
  BY <1>3 DEF ReaderType
<1>4. ASSUME NEW u \in ReaderType, NEW w, NEW a \in Nat, w = [u EXCEPT !.at = a]
      PROVE  /\ w \in ReaderType /\ w.step = u.step /\ w.at = a /\ w.out = u.out /\ w.next = u.next
             /\ w.before = u.before
  BY <1>4 DEF ReaderType
<1>5. UNCHANGED <<cursor, host, lost, delivered, excused>>
  BY DEF ScanSeq, answerRest, hostVars
<1> QED BY <1>1, <1>2, <1>3, <1>4, <1>5

LEMMA KindEffect ==
  ASSUME RingTypes, ReadKind
  PROVE  /\ reader' \in ReaderType /\ reader.step = "kind" /\ reader'.step = "data" /\ reader'.at = reader.at
         /\ reader'.kind = ring[Index(reader.at)].kind
         /\ reader'.out = reader.out /\ reader'.next = reader.next /\ reader'.before = reader.before
         /\ UNCHANGED <<cursor, host, lost, delivered, excused>>
<1>1. reader.step = "kind" /\ reader' = [reader EXCEPT !.step = "data", !.kind = ring[Index(reader.at)].kind]
  BY DEF ReadKind
<1>2. reader \in ReaderType /\ reader.at \in Nat
  BY DEF RingTypes, ReaderType
<1>3. ring[Index(reader.at)].kind \in EventRange
  BY <1>2, IndexSlot DEF RingTypes, RecordType
<1>4. \A a \in EventRange, u \in ReaderType : LET w == [u EXCEPT !.step = "data", !.kind = a] IN
         /\ w \in ReaderType /\ w.step = "data" /\ w.kind = a /\ w.at = u.at /\ w.out = u.out
         /\ w.next = u.next /\ w.before = u.before
  BY DEF ReaderType
<1>5. UNCHANGED <<cursor, host, lost, delivered, excused>>
  BY DEF ReadKind, answerRest, hostVars
<1> QED BY <1>1, <1>2, <1>3, <1>4, <1>5

LEMMA DataEffect ==
  ASSUME RingTypes, ReadData
  PROVE  \E r \in RecordType :
         /\ r.seq = reader.at /\ r.kind = reader.kind /\ r.data = ring[Index(reader.at)].data
         /\ reader' \in ReaderType /\ reader.step = "data" /\ reader'.step = "scan"
         /\ reader'.at = reader.at + 1 /\ reader'.out = Append(reader.out, r)
         /\ reader'.next = reader.next /\ reader'.before = reader.before
         /\ UNCHANGED <<cursor, host, lost, delivered, excused>>
<1> DEFINE r == [seq |-> reader.at, kind |-> reader.kind, data |-> ring[Index(reader.at)].data]
<1>1. /\ reader.step = "data"
      /\ reader' = [reader EXCEPT !.step = "scan", !.at = reader.at + 1, !.kind = Nothing,
                                  !.out = Append(reader.out, r)]
  BY DEF ReadData
<1>2. /\ reader \in ReaderType /\ reader.at \in Nat /\ reader.next \in SeqRange /\ reader.kind \in EventRange
      /\ reader.out \in Seq(RecordType)
  BY DEF RingTypes, ReaderType
<1>3. ring[Index(reader.at)].data \in EventRange
  BY <1>2, IndexSlot DEF RingTypes, RecordType
<1>4. reader.at \in SeqRange
  BY <1>1, <1>2, Sizes DEF RingTypes, Reading, SeqRange
<1>5. r \in RecordType /\ r.seq = reader.at /\ r.kind = reader.kind /\ r.data = ring[Index(reader.at)].data
  BY <1>2, <1>3, <1>4 DEF RecordType
<1> HIDE DEF r
<1> DEFINE S == Seq(RecordType)
           o == Append(reader.out, r)
<1>6. o \in S /\ reader.at + 1 \in Nat /\ Nothing \in EventRange
  BY <1>2, <1>5, Sizes DEF Nothing, EventRange
<1>7. ReaderType = [step : {"idle", "bound", "scan", "kind", "data", "close", "answer"}, next : SeqRange,
                    at : Nat, kind : EventRange, out : S, batchNext : SeqRange,
                    dropped : SeqRange, before : SUBSET [seq : SeqRange, event : EventRange]]
  BY DEF ReaderType
<1>u. reader' = [reader EXCEPT !.step = "scan", !.at = reader.at + 1, !.kind = Nothing, !.out = o]
  BY <1>1
<1>8. UNCHANGED <<cursor, host, lost, delivered, excused>>
  BY DEF ReadData, answerRest, hostVars
<1>9. /\ reader' \in ReaderType /\ reader'.step = "scan" /\ reader'.at = reader.at + 1
      /\ reader'.out = Append(reader.out, r) /\ reader'.next = reader.next /\ reader'.before = reader.before
  <2> HIDE DEF S, o
  <2>1. /\ reader' \in ReaderType /\ reader'.step = "scan" /\ reader'.at = reader.at + 1
        /\ reader'.out = o /\ reader'.next = reader.next /\ reader'.before = reader.before
    BY <1>2, <1>6, <1>7, <1>u
  <2> QED BY <2>1 DEF o
<1> QED BY <1>1, <1>5, <1>8, <1>9

LEMMA CloseEffect ==
  ASSUME RingTypes, ReaderPlace, CloseBatch
  PROVE  /\ reader' \in ReaderType /\ reader.step = "scan" /\ reader.at >= reader.next /\ reader'.step = "close"
         /\ reader'.batchNext = BatchNext(reader.out)
         /\ reader'.out = reader.out /\ reader'.next = reader.next /\ reader'.before = reader.before
         /\ UNCHANGED <<cursor, host, lost, delivered, excused>>
<1>1. /\ reader.step = "scan" /\ reader.at >= reader.next
      /\ reader' = [reader EXCEPT !.step = "close", !.batchNext = BatchNext(reader.out)]
  BY DEF CloseBatch
<1>2. /\ reader \in ReaderType /\ reader.next \in SeqRange /\ reader.out \in Seq(RecordType)
      /\ next \in 1 .. numbered + 1 /\ numbered \in EventRange
  BY DEF RingTypes, ReaderType
<1>3. BatchNext(reader.out) \in SeqRange
  <2>1. CASE reader.out = <<>>
    BY <1>2, <2>1, Sizes DEF BatchNext, SeqRange, EventRange
  <2>2. CASE reader.out # <<>>
    <3>1. Len(reader.out) \in 1 .. Len(reader.out)
      BY <1>2, <2>2
    <3>2. reader.out[Len(reader.out)].seq \in SeqRange /\ reader.out[Len(reader.out)].seq < reader.next
      <4>1. reader.out[Len(reader.out)] \in RecordType
        BY <1>2, <3>1
      <4> QED BY <3>1, <4>1 DEF ReaderPlace, RecordType
    <3> QED BY <1>2, <2>2, <3>2, Sizes DEF BatchNext, SeqRange
  <2> QED BY <2>1, <2>2
<1>4. \A b \in SeqRange, u \in ReaderType : LET w == [u EXCEPT !.step = "close", !.batchNext = b] IN
         /\ w \in ReaderType /\ w.step = "close" /\ w.batchNext = b /\ w.out = u.out
         /\ w.next = u.next /\ w.before = u.before
  BY DEF ReaderType
<1>5. UNCHANGED <<cursor, host, lost, delivered, excused>>
  BY DEF CloseBatch, answerRest, hostVars
<1> QED BY <1>1, <1>2, <1>3, <1>4, <1>5

LEMMA CheckEffect ==
  ASSUME RingTypes, CheckDropped
  PROVE  /\ reader' \in ReaderType /\ reader.step = "close" /\ reader'.step = "answer"
         /\ reader'.dropped = DroppedBeforeSeq(cursor) /\ reader'.batchNext = reader.batchNext
         /\ reader'.out = reader.out /\ reader'.next = reader.next /\ reader'.before = reader.before
         /\ UNCHANGED <<cursor, host, lost, delivered, excused>>
<1>1. /\ reader.step = "close"
      /\ reader' = [reader EXCEPT !.step = "answer", !.dropped = DroppedBeforeSeq(cursor)]
  BY DEF CheckDropped
<1>2. reader \in ReaderType /\ next \in 1 .. numbered + 1 /\ numbered \in EventRange /\ cursor \in EventRange
  BY DEF RingTypes
<1>3. DroppedBeforeSeq(cursor) \in SeqRange
  BY <1>2, Sizes DEF DroppedBeforeSeq, OldestSeq, AtLeast, Minus, SeqRange, EventRange
<1>4. \A b \in SeqRange, u \in ReaderType : LET w == [u EXCEPT !.step = "answer", !.dropped = b] IN
         /\ w \in ReaderType /\ w.step = "answer" /\ w.dropped = b /\ w.batchNext = u.batchNext /\ w.out = u.out
         /\ w.next = u.next /\ w.before = u.before
  BY DEF ReaderType
<1>5. UNCHANGED <<cursor, host, lost, delivered, excused>>
  BY DEF CheckDropped, answerRest, hostVars
<1> QED BY <1>1, <1>2, <1>3, <1>4, <1>5

LEMMA RingCases ==
  ASSUME [RingNext]_ringVars
  PROVE  \/ \E l \in Lanes : Reserve(l) \/ StoreNext(l) \/ StoreData(l) \/ StoreKind(l) \/ Publish(l)
         \/ BeginAnswer \/ BoundAnswer \/ ScanSeq \/ ReadKind \/ ReadData \/ CloseBatch \/ CheckDropped
         \/ Accept \/ Refuse \/ LoseAnswer \/ Resync \/ UNCHANGED ringVars
BY DEF RingNext, Record, AnswerStep

-----------------------------------------------------------------------------
(* The ring keeps its types, and an answer its place.                    *)

LEMMA RingTypesStep == RingTypes /\ ReaderPlace /\ [RingNext]_ringVars => RingTypes'
<1> SUFFICES ASSUME RingTypes, ReaderPlace, [RingNext]_ringVars PROVE RingTypes'
  OBVIOUS
<1>n. /\ numbered \in Nat /\ next \in Nat /\ next <= numbered + 1 /\ numbered <= MaxEvents
      /\ \A l \in Lanes : recorder[l].seq \in Nat /\ recorder[l].seq \in SeqRange /\ recorder[l].event \in EventRange
  <2>1. numbered \in EventRange /\ next \in 1 .. numbered + 1
    BY DEF RingTypes
  <2>2. numbered \in Nat /\ next \in Nat /\ next <= numbered + 1 /\ numbered <= MaxEvents
    BY <2>1, Sizes DEF EventRange
  <2>3. \A l \in Lanes : recorder[l].seq \in SeqRange /\ recorder[l].event \in EventRange
    BY DEF RingTypes, RecorderType
  <2> QED BY <2>2, <2>3, Sizes
<1>1. ASSUME NEW l \in Lanes, Reserve(l) PROVE RingTypes'
  <2>1. /\ numbered < MaxEvents /\ numbered' = numbered + 1
        /\ recorder' = [recorder EXCEPT ![l] = [step |-> "loaded", seq |-> next, event |-> numbered + 1]]
        /\ UNCHANGED <<next, ring, published, collided>>
    BY <1>1 DEF Reserve
  <2>2. [step |-> "loaded", seq |-> next, event |-> numbered + 1] \in RecorderType
    BY <1>n, <2>1, Sizes DEF RecorderType, SeqRange, EventRange
  <2>3. recorder' \in [Lanes -> RecorderType]
    BY <2>1, <2>2 DEF RingTypes
  <2>4. numbered' \in EventRange /\ next' \in 1 .. numbered' + 1
    BY <1>n, <2>1, Sizes DEF RingTypes, EventRange
  <2>5. \A k \in Lanes : recorder'[k].seq <= numbered'
    <3>1. \A k \in Lanes : recorder'[k].seq = next \/ recorder'[k].seq = recorder[k].seq
      BY <2>1 DEF RingTypes
    <3>2. \A k \in Lanes : recorder[k].seq <= numbered
      BY DEF RingTypes
    <3> QED BY <1>n, <2>1, <3>1, <3>2
  <2> QED BY <1>1, <2>1, <2>3, <2>4, <2>5, LaneRest DEF RingTypes, Reading
<1>2. ASSUME NEW l \in Lanes, StoreNext(l) PROVE RingTypes'
  <2>1. /\ Advance(l, "loaded", "reserved") /\ next' = recorder[l].seq + 1 /\ collided' \in BOOLEAN
        /\ UNCHANGED <<ring, numbered, published>>
    BY <1>2 DEF StoreNext
  <2>2. recorder' \in [Lanes -> RecorderType] /\ \A k \in Lanes : recorder'[k].seq = recorder[k].seq
    BY <2>1, AdvanceEffect
  <2>3. next' \in 1 .. numbered + 1
    BY <1>n, <2>1 DEF RingTypes
  <2> QED BY <1>2, <2>1, <2>2, <2>3, LaneRest DEF RingTypes, Reading, Record
<1>3. ASSUME NEW l \in Lanes, StoreData(l) PROVE RingTypes'
  <2>1. /\ Advance(l, "reserved", "data") /\ ring' = [ring EXCEPT ![Index(recorder[l].seq)].data = recorder[l].event]
        /\ UNCHANGED <<next, numbered, published, collided>>
    BY <1>3 DEF StoreData
  <2>2. recorder' \in [Lanes -> RecorderType] /\ \A k \in Lanes : recorder'[k].seq = recorder[k].seq
    BY <2>1, AdvanceEffect
  <2>3. ring' \in [Slots -> RecordType]
    BY <1>n, <2>1, IndexSlot, SlotStore
  <2> QED BY <1>3, <2>1, <2>2, <2>3, LaneRest DEF RingTypes, Reading, Record
<1>4. ASSUME NEW l \in Lanes, StoreKind(l) PROVE RingTypes'
  <2>1. /\ Advance(l, "data", "kind") /\ ring' = [ring EXCEPT ![Index(recorder[l].seq)].kind = recorder[l].event]
        /\ UNCHANGED <<next, numbered, published, collided>>
    BY <1>4 DEF StoreKind
  <2>2. recorder' \in [Lanes -> RecorderType] /\ \A k \in Lanes : recorder'[k].seq = recorder[k].seq
    BY <2>1, AdvanceEffect
  <2>3. ring' \in [Slots -> RecordType]
    BY <1>n, <2>1, IndexSlot, SlotStore
  <2> QED BY <1>4, <2>1, <2>2, <2>3, LaneRest DEF RingTypes, Reading, Record
<1>5. ASSUME NEW l \in Lanes, Publish(l) PROVE RingTypes'
  <2>1. /\ ring' = [ring EXCEPT ![Index(recorder[l].seq)].seq = recorder[l].seq]
        /\ published' = published \cup {[seq |-> recorder[l].seq, event |-> recorder[l].event]}
        /\ recorder' = [recorder EXCEPT ![l] = Idle]
        /\ UNCHANGED <<next, numbered, collided>>
    BY <1>5 DEF Publish
  <2>2. Idle \in RecorderType /\ Idle.seq = 0
    BY Sizes DEF Idle, RecorderType, Nothing, SeqRange, EventRange
  <2>3. recorder' \in [Lanes -> RecorderType] /\ \A k \in Lanes : recorder'[k].seq <= numbered
    BY <1>n, <2>1, <2>2 DEF RingTypes
  <2>4. ring' \in [Slots -> RecordType]
    BY <1>n, <2>1, IndexSlot, SlotStore
  <2>5. published' \subseteq [seq : SeqRange, event : EventRange]
    BY <1>n, <2>1 DEF RingTypes
  <2> QED BY <1>5, <2>1, <2>3, <2>4, <2>5, LaneRest DEF RingTypes, Reading, Record
<1>6. CASE BeginAnswer
  <2>1. /\ reader' \in ReaderType /\ reader'.step = "bound" /\ reader'.out = <<>>
        /\ UNCHANGED <<cursor, host, lost, delivered, excused>>
    BY <1>6, BeginEffect
  <2>2. UNCHANGED <<next, ring, recorder, numbered, published, collided>>
    BY <1>6, HostRest DEF AnswerStep
  <2> QED BY <2>1, <2>2, Sizes DEF RingTypes, Reading
<1>7. CASE BoundAnswer
  <2>1. /\ reader' \in ReaderType /\ reader'.step = "scan" /\ reader'.out = reader.out
        /\ UNCHANGED <<cursor, host, lost, delivered, excused>>
    BY <1>7, BoundEffect
  <2>2. UNCHANGED <<next, ring, recorder, numbered, published, collided>>
    BY <1>7, HostRest DEF AnswerStep
  <2> QED BY <2>1, <2>2 DEF RingTypes, Reading
<1>8. CASE ScanSeq
  <2>1. /\ reader' \in ReaderType /\ reader'.out = reader.out /\ reader'.next = reader.next
        /\ \/ Len(reader.out) < Batch /\ reader.at < reader.next /\ reader'.at = reader.at
           \/ reader'.step = "scan"
        /\ UNCHANGED <<cursor, host, lost, delivered, excused>>
    BY <1>8, ScanEffect
  <2>2. UNCHANGED <<next, ring, recorder, numbered, published, collided>>
    BY <1>8, HostRest DEF AnswerStep
  <2> QED BY <2>1, <2>2 DEF RingTypes, Reading
<1>9. CASE ReadKind
  <2>1. /\ reader' \in ReaderType /\ reader.step = "kind" /\ reader'.at = reader.at
        /\ reader'.out = reader.out /\ reader'.next = reader.next
        /\ UNCHANGED <<cursor, host, lost, delivered, excused>>
    BY <1>9, KindEffect
  <2>2. UNCHANGED <<next, ring, recorder, numbered, published, collided>>
    BY <1>9, HostRest DEF AnswerStep
  <2> QED BY <2>1, <2>2 DEF RingTypes, Reading
<1>10. CASE ReadData
  <2>1. PICK r \in RecordType :
        /\ reader' \in ReaderType /\ reader.step = "data" /\ reader'.step = "scan"
        /\ reader'.out = Append(reader.out, r)
        /\ UNCHANGED <<cursor, host, lost, delivered, excused>>
    BY <1>10, DataEffect
  <2>2. UNCHANGED <<next, ring, recorder, numbered, published, collided>>
    BY <1>10, HostRest DEF AnswerStep
  <2>3. Len(reader'.out) <= Batch
    <3>1. reader.out \in Seq(RecordType) /\ Len(reader.out) < Batch
      BY <2>1 DEF RingTypes, ReaderType, Reading
    <3> QED BY <2>1, <3>1, Sizes
  <2> QED BY <2>1, <2>2, <2>3 DEF RingTypes, Reading
<1>11. CASE CloseBatch
  <2>1. /\ reader' \in ReaderType /\ reader'.step = "close" /\ reader'.out = reader.out
        /\ UNCHANGED <<cursor, host, lost, delivered, excused>>
    BY <1>11, CloseEffect
  <2>2. UNCHANGED <<next, ring, recorder, numbered, published, collided>>
    BY <1>11, HostRest DEF AnswerStep
  <2> QED BY <2>1, <2>2 DEF RingTypes, Reading
<1>12. CASE CheckDropped
  <2>1. /\ reader' \in ReaderType /\ reader'.step = "answer" /\ reader'.out = reader.out
        /\ UNCHANGED <<cursor, host, lost, delivered, excused>>
    BY <1>12, CheckEffect
  <2>2. UNCHANGED <<next, ring, recorder, numbered, published, collided>>
    BY <1>12, HostRest DEF AnswerStep
  <2> QED BY <2>1, <2>2 DEF RingTypes, Reading
<1>r. NoPoll \in ReaderType /\ Len(NoPoll.out) <= Batch /\ NoPoll.step = "idle"
  BY NoPollReader, Sizes DEF NoPoll
<1>13. CASE Accept
  <2>1. /\ cursor' = Minus(reader.batchNext, 1) /\ delivered' = delivered \cup RecordsOf(reader.out)
        /\ reader' = NoPoll /\ UNCHANGED <<host, lost, excused>>
    BY <1>13 DEF Accept, CursorAfter
  <2>2. reader.batchNext \in SeqRange /\ reader.out \in Seq(RecordType)
    BY DEF RingTypes, ReaderType
  <2>3. cursor' \in EventRange
    BY <2>1, <2>2, Sizes DEF Minus, SeqRange, EventRange
  <2>4. RecordsOf(reader.out) \subseteq RecordType
    BY <2>2 DEF RecordsOf
  <2>5. UNCHANGED <<next, ring, recorder, numbered, published, collided>>
    BY <1>13, HostRest
  <2> QED BY <1>r, <2>1, <2>3, <2>4, <2>5 DEF RingTypes, Reading
<1>14. CASE Refuse
  <2>1. reader' = NoPoll /\ host' = "missed" /\ UNCHANGED <<cursor, lost, delivered, excused>>
    BY <1>14 DEF Refuse
  <2>2. UNCHANGED <<next, ring, recorder, numbered, published, collided>>
    BY <1>14, HostRest
  <2> QED BY <1>r, <2>1, <2>2 DEF RingTypes, Reading
<1>15. CASE LoseAnswer
  <2>1. reader' = NoPoll /\ lost < MaxLost /\ lost' = lost + 1 /\ UNCHANGED <<cursor, host, delivered, excused>>
    BY <1>15 DEF LoseAnswer
  <2>2. UNCHANGED <<next, ring, recorder, numbered, published, collided>>
    BY <1>15, HostRest
  <2>3. lost' \in 0 .. MaxLost
    BY <2>1, Sizes DEF RingTypes
  <2> QED BY <1>r, <2>1, <2>2, <2>3 DEF RingTypes, Reading
<1>16. CASE Resync
  <2>1. /\ cursor' = Minus(next, 1) /\ excused' = Minus(next, 1) /\ host' = "polling"
        /\ UNCHANGED <<reader, lost, delivered>>
    BY <1>16 DEF Resync, CursorAfter
  <2>2. UNCHANGED <<next, ring, recorder, numbered, published, collided>>
    BY <1>16, HostRest
  <2>3. Minus(next, 1) \in EventRange
    BY <1>n, Sizes DEF Minus, EventRange
  <2> QED BY <2>1, <2>2, <2>3 DEF RingTypes, Reading
<1>17. CASE UNCHANGED ringVars
  BY <1>17 DEF ringVars, RingTypes, Reading
<1> QED BY RingCases, <1>1, <1>2, <1>3, <1>4, <1>5, <1>6, <1>7, <1>8, <1>9, <1>10, <1>11, <1>12, <1>13,
           <1>14, <1>15, <1>16, <1>17

LEMMA ReaderPlaceStep == RingTypes /\ ReaderPlace /\ [RingNext]_ringVars => ReaderPlace'
<1> SUFFICES ASSUME RingTypes, ReaderPlace, [RingNext]_ringVars PROVE ReaderPlace'
  OBVIOUS
<1>n. /\ cursor \in Nat /\ reader.at \in Nat /\ reader.next \in Nat /\ next \in Nat /\ reader.out \in Seq(RecordType)
      /\ Len(reader.out) \in Nat /\ \A i \in 1 .. Len(reader.out) : reader.out[i].seq \in Nat
  <2>1. cursor \in EventRange /\ next \in 1 .. numbered + 1 /\ numbered \in EventRange
    BY DEF RingTypes
  <2>2. reader.at \in Nat /\ reader.next \in SeqRange /\ reader.out \in Seq(RecordType)
    BY DEF RingTypes, ReaderType
  <2>3. \A i \in 1 .. Len(reader.out) : reader.out[i].seq \in SeqRange
    <3>1. \A i \in 1 .. Len(reader.out) : reader.out[i] \in RecordType
      BY <2>2
    <3> QED BY <3>1 DEF RecordType
  <2>4. numbered \in Nat /\ cursor \in Nat /\ reader.next \in Nat
    BY <2>1, <2>2, Sizes
  <2>5. next \in Nat
    BY <2>1, <2>4
  <2>6. \A i \in 1 .. Len(reader.out) : reader.out[i].seq \in Nat
    BY <2>3, Sizes
  <2> QED BY <2>2, <2>4, <2>5, <2>6
<1>1. ASSUME NEW l \in Lanes, Reserve(l) \/ Record(l) PROVE ReaderPlace'
  <2>1. UNCHANGED <<reader, cursor, host>>
    BY <1>1, LaneRest
  <2> QED BY <2>1 DEF ReaderPlace, Scanning, Closed
<1>2. CASE BeginAnswer
  <2>1. reader'.step = "bound" /\ reader'.out = <<>> /\ host' = "polling"
    BY <1>2, BeginEffect
  <2> QED BY <2>1 DEF ReaderPlace, Scanning, Closed
<1>3. CASE BoundAnswer
  <2>1. /\ reader.step = "bound" /\ reader'.step = "scan" /\ reader'.at = FirstSeq(cursor)
        /\ reader'.out = reader.out /\ UNCHANGED <<cursor, host>>
    BY <1>3, BoundEffect
  <2>2. reader'.out = <<>>
    BY <2>1 DEF ReaderPlace
  <2>3. cursor < FirstSeq(cursor)
    <3>1. OldestSeq \in Nat /\ OldestSeq >= 1
      BY <1>n, Sizes DEF OldestSeq, AtLeast, Minus
    <3> QED BY <1>n, <3>1 DEF FirstSeq, AtLeast
  <2> QED BY <2>1, <2>2, <2>3 DEF ReaderPlace, Scanning, Closed
<1>4. CASE ScanSeq
  <2>1. /\ reader.step = "scan" /\ reader'.step \in {"scan", "kind"} /\ reader'.at \in {reader.at, reader.at + 1}
        /\ reader'.out = reader.out /\ reader'.next = reader.next /\ UNCHANGED <<cursor, host>>
    BY <1>4, ScanEffect
  <2>2. cursor < reader.at /\ \A i \in 1 .. Len(reader.out) : reader.out[i].seq < reader.at
    BY <2>1 DEF ReaderPlace, Scanning
  <2>3. cursor < reader'.at /\ \A i \in 1 .. Len(reader.out) : reader.out[i].seq < reader'.at
    BY <1>n, <2>1, <2>2
  <2> QED BY <2>1, <2>3 DEF ReaderPlace, Scanning, Closed
<1>5. CASE ReadKind
  <2>1. /\ reader.step = "kind" /\ reader'.step = "data" /\ reader'.at = reader.at
        /\ reader'.out = reader.out /\ reader'.next = reader.next /\ UNCHANGED <<cursor, host>>
    BY <1>5, KindEffect
  <2> QED BY <2>1 DEF ReaderPlace, Scanning, Closed
<1>6. CASE ReadData
  <2>1. PICK r \in RecordType :
        /\ r.seq = reader.at /\ reader.step = "data" /\ reader'.step = "scan" /\ reader'.at = reader.at + 1
        /\ reader'.out = Append(reader.out, r) /\ reader'.next = reader.next /\ UNCHANGED <<cursor, host>>
    BY <1>6, DataEffect
  <2>2. /\ cursor < reader.at /\ reader.at < reader.next /\ host = "polling"
        /\ \A i \in 1 .. Len(reader.out) : /\ cursor < reader.out[i].seq /\ reader.out[i].seq < reader.next
                                           /\ reader.out[i].seq < reader.at
        /\ \A i, j \in 1 .. Len(reader.out) : i < j => reader.out[i].seq < reader.out[j].seq
    BY <2>1 DEF ReaderPlace, Scanning, RingTypes, Reading
  <2>3. /\ Len(reader'.out) = Len(reader.out) + 1 /\ reader'.out[Len(reader.out) + 1] = r
        /\ \A i \in 1 .. Len(reader.out) : reader'.out[i] = reader.out[i]
    BY <1>n, <2>1
  <2>4. \A i \in 1 .. Len(reader'.out) : i \in 1 .. Len(reader.out) \/ i = Len(reader.out) + 1
    BY <1>n, <2>3
  <2>5. \A i \in 1 .. Len(reader'.out) : /\ cursor < reader'.out[i].seq /\ reader'.out[i].seq < reader'.next
                                         /\ reader'.out[i].seq < reader'.at
    <3> SUFFICES ASSUME NEW i \in 1 .. Len(reader'.out)
                 PROVE  /\ cursor < reader'.out[i].seq /\ reader'.out[i].seq < reader'.next
                        /\ reader'.out[i].seq < reader'.at
      OBVIOUS
    <3>1. CASE i \in 1 .. Len(reader.out)
      <4>1. reader'.out[i].seq = reader.out[i].seq /\ reader.out[i].seq \in Nat
        BY <1>n, <2>3, <3>1
      <4> QED BY <1>n, <2>1, <2>2, <3>1, <4>1
    <3>2. CASE i = Len(reader.out) + 1
      <4>1. reader'.out[i].seq = reader.at
        BY <2>1, <2>3, <3>2
      <4> QED BY <1>n, <2>1, <2>2, <4>1
    <3> QED BY <2>4, <3>1, <3>2
  <2>6. \A i, j \in 1 .. Len(reader'.out) : i < j => reader'.out[i].seq < reader'.out[j].seq
    <3> SUFFICES ASSUME NEW i \in 1 .. Len(reader'.out), NEW j \in 1 .. Len(reader'.out), i < j
                 PROVE  reader'.out[i].seq < reader'.out[j].seq
      OBVIOUS
    <3>1. i \in 1 .. Len(reader.out)
      BY <1>n, <2>3, <2>4
    <3>2. CASE j \in 1 .. Len(reader.out)
      BY <2>2, <2>3, <3>1, <3>2
    <3>3. CASE j = Len(reader.out) + 1
      BY <2>1, <2>2, <2>3, <3>1, <3>3
    <3> QED BY <2>4, <3>2, <3>3
  <2>7. cursor < reader'.at
    BY <1>n, <2>1, <2>2
  <2> QED BY <2>1, <2>2, <2>5, <2>6, <2>7 DEF ReaderPlace, Scanning, Closed
<1>7. CASE CloseBatch
  <2>1. /\ reader.step = "scan" /\ reader'.step = "close" /\ reader'.batchNext = BatchNext(reader.out)
        /\ reader'.out = reader.out /\ reader'.next = reader.next /\ UNCHANGED <<cursor, host>>
    BY <1>7, CloseEffect
  <2> QED BY <2>1 DEF ReaderPlace, Scanning, Closed, BatchNext
<1>8. CASE CheckDropped
  <2>1. /\ reader.step = "close" /\ reader'.step = "answer" /\ reader'.batchNext = reader.batchNext
        /\ reader'.out = reader.out /\ reader'.next = reader.next /\ UNCHANGED <<cursor, host>>
    BY <1>8, CheckEffect
  <2> QED BY <2>1 DEF ReaderPlace, Scanning, Closed
<1>9. CASE Accept \/ Refuse \/ LoseAnswer
  <2>1. reader' = NoPoll
    BY <1>9 DEF Accept, Refuse, LoseAnswer
  <2>2. reader'.step = "idle" /\ reader'.out = <<>>
    BY <2>1 DEF NoPoll
  <2> QED BY <2>2 DEF ReaderPlace, Scanning, Closed
<1>10. CASE Resync
  <2>1. host = "missed" /\ reader' = reader
    BY <1>10 DEF Resync
  <2>2. reader'.step = "idle" /\ reader'.out = <<>>
    BY <2>1 DEF ReaderPlace
  <2> QED BY <2>2 DEF ReaderPlace, Scanning, Closed
<1>11. CASE UNCHANGED ringVars
  BY <1>11 DEF ringVars, ReaderPlace, Scanning, Closed
<1> QED BY RingCases, <1>1, <1>2, <1>3, <1>4, <1>5, <1>6, <1>7, <1>8, <1>9, <1>10, <1>11 DEF Record

-----------------------------------------------------------------------------
(* Two lanes and one ring.                                               *)

LEMMA RingNumbers ==
  ASSUME RingTypes
  PROVE  /\ next \in Nat /\ next > 0 /\ cursor \in Nat /\ Capacity \in Nat
         /\ \A i \in Slots : ring[i].seq \in Nat
         /\ \A l \in Lanes : recorder[l].seq \in Nat /\ SlotOf(l) \in Slots
<1>1. /\ next \in 1 .. numbered + 1 /\ numbered \in EventRange /\ cursor \in EventRange
      /\ \A i \in Slots : ring[i].seq \in SeqRange
      /\ \A l \in Lanes : recorder[l].seq \in SeqRange
  BY DEF RingTypes, RecordType, RecorderType
<1>2. \A l \in Lanes : recorder[l].seq \in Nat
  BY <1>1, Sizes
<1>3. \A l \in Lanes : SlotOf(l) \in Slots
  BY <1>2, IndexSlot DEF SlotOf
<1>4. next \in Nat /\ next > 0
  <2>1. numbered \in Nat
    BY <1>1, Sizes
  <2> QED BY <1>1, <2>1
<1>5. cursor \in Nat /\ Capacity \in Nat /\ \A i \in Slots : ring[i].seq \in Nat
  BY <1>1, Sizes
<1> QED BY <1>2, <1>3, <1>4, <1>5

\* No lane writes a slot whose record is less than a lap old.
LEMMA LapSafe ==
  ASSUME RingTypes, LanesApart, NEW a \in Nat, ring[Index(a)].seq = a, next <= a + Capacity,
         NEW l \in Lanes, Claimed(l)
  PROVE  SlotOf(l) # Index(a)
<1> SUFFICES ASSUME SlotOf(l) = Index(a) PROVE FALSE
  OBVIOUS
<1>1. a < recorder[l].seq /\ recorder[l].seq < next
  BY DEF LanesApart
<1>2. a + Capacity <= recorder[l].seq
  BY <1>1, LapGap, RingNumbers DEF SlotOf
<1> QED BY <1>1, <1>2, RingNumbers

\* What an answer may rely on while a lane records.
LEMMA LaneEffect ==
  ASSUME RingTypes, LanesSound, NEW l \in Lanes, ~collided',
         Reserve(l) \/ StoreNext(l) \/ StoreData(l) \/ StoreKind(l) \/ Publish(l)
  PROVE  /\ next' \in Nat /\ next <= next' /\ published \subseteq published'
         /\ \A a \in Nat : ring[Index(a)].seq = a /\ next <= a + Capacity => ring'[Index(a)] = ring[Index(a)]
<1>1. next' \in Nat /\ next <= next' /\ published \subseteq published'
  <2>1. next' = next \/ next' = next + 1
    BY RingNumbers DEF Reserve, StoreNext, StoreData, StoreKind, Publish
  <2>2. published \subseteq published'
    BY DEF Reserve, StoreNext, StoreData, StoreKind, Publish
  <2> QED BY <2>1, <2>2, RingNumbers
<1>2. ASSUME NEW a \in Nat, ring[Index(a)].seq = a, next <= a + Capacity
      PROVE  ring'[Index(a)] = ring[Index(a)]
  <2>1. Index(a) \in Slots
    BY IndexSlot
  <2>2. CASE Reserve(l) \/ StoreNext(l)
    BY <2>2 DEF Reserve, StoreNext
  <2>3. CASE StoreData(l) \/ StoreKind(l) \/ Publish(l)
    <3>1. Claimed(l)
      BY <2>3 DEF StoreData, StoreKind, Publish, Advance, Claimed
    <3>2. SlotOf(l) # Index(a)
      BY <1>2, <3>1, LapSafe DEF LanesSound
    <3>3. \/ ring' = [ring EXCEPT ![SlotOf(l)].data = recorder[l].event]
          \/ ring' = [ring EXCEPT ![SlotOf(l)].kind = recorder[l].event]
          \/ ring' = [ring EXCEPT ![SlotOf(l)].seq = recorder[l].seq]
      BY <2>3 DEF StoreData, StoreKind, Publish, SlotOf
    <3>4. SlotOf(l) \in Slots
      BY RingNumbers
    <3>5. CASE ring' = [ring EXCEPT ![SlotOf(l)].data = recorder[l].event]
      BY <2>1, <3>2, <3>4, <3>5, SlotStore
    <3>6. CASE ring' = [ring EXCEPT ![SlotOf(l)].kind = recorder[l].event]
      BY <2>1, <3>2, <3>4, <3>6, SlotStore
    <3>7. CASE ring' = [ring EXCEPT ![SlotOf(l)].seq = recorder[l].seq]
      BY <2>1, <3>2, <3>4, <3>7, SlotStore
    <3> QED BY <3>3, <3>5, <3>6, <3>7
  <2> QED BY <2>2, <2>3
<1> QED BY <1>1, <1>2

LEMMA LanesSoundStep ==
  ASSUME RingTypes, LanesSound, NEW l \in Lanes, ~collided',
         Reserve(l) \/ StoreNext(l) \/ StoreData(l) \/ StoreKind(l) \/ Publish(l)
  PROVE  LanesSound'
<1>n. /\ next \in Nat /\ next > 0 /\ \A i \in Slots : ring[i].seq \in Nat
      /\ \A k \in Lanes : recorder[k].seq \in Nat /\ SlotOf(k) \in Slots
  BY RingNumbers
<1>f. recorder \in [Lanes -> RecorderType]
  BY DEF RingTypes
<1>e. \A e \in published : e.seq \in Nat /\ Index(e.seq) \in Slots
  BY Sizes, IndexSlot DEF RingTypes
<1>1. CASE Reserve(l)
  <2>1. /\ recorder' = [recorder EXCEPT ![l] = [step |-> "loaded", seq |-> next, event |-> numbered + 1]]
        /\ UNCHANGED <<next, ring, published>>
    BY <1>1 DEF Reserve
  <2>2. /\ recorder'[l].step = "loaded" /\ recorder'[l].seq = next
        /\ \A k \in Lanes \ {l} : recorder'[k] = recorder[k]
    BY <1>f, <2>1
  <2>3. \A k \in Lanes : Claimed(k)' \/ Writing(k)' => k # l
    BY <2>2 DEF Claimed, Writing
  <2>4. /\ \A k \in Lanes \ {l} : (Claimed(k)' <=> Claimed(k)) /\ (Writing(k)' <=> Writing(k)) /\ SlotOf(k)' = SlotOf(k)
        /\ recorder[l].step = "idle"
    BY <1>1, <2>2 DEF Claimed, Writing, SlotOf, Index, Reserve
  <2>5. LanesApart'
    BY <1>n, <2>1, <2>2, <2>3, <2>4 DEF LanesSound, LanesApart
  <2>6. SlotsExact'
    <3>1. \A k \in Lanes : Writing(k) => Writing(k)' /\ SlotOf(k)' = SlotOf(k)
      BY <2>4 DEF Writing
    <3> QED BY <2>1, <3>1 DEF LanesSound, SlotsExact, Exact, Index
  <2> QED BY <2>1, <2>5, <2>6 DEF LanesSound, PublishedKept, Index
<1>2. CASE StoreNext(l)
  <2>1. /\ Advance(l, "loaded", "reserved") /\ next' = recorder[l].seq + 1 /\ next = recorder[l].seq
        /\ \A k \in Lanes \ {l} : recorder[k].step # "idle" => SlotOf(k) # SlotOf(l)
        /\ UNCHANGED <<ring, published>>
    BY <1>2 DEF StoreNext, SlotOf
  <2>2. /\ recorder[l].step = "loaded" /\ recorder'[l].step = "reserved"
        /\ recorder'[l].seq = recorder[l].seq /\ recorder'[l].event = recorder[l].event
        /\ \A k \in Lanes \ {l} : recorder'[k] = recorder[k]
    BY <2>1, AdvanceEffect
  <2>3. /\ \A k \in Lanes : SlotOf(k)' = SlotOf(k) /\ (Writing(k)' <=> Writing(k))
        /\ \A k \in Lanes \ {l} : Claimed(k)' <=> Claimed(k)
        /\ Claimed(l)' /\ ~Writing(l)
    BY <2>2 DEF SlotOf, Index, Claimed, Writing
  <2>4. \A k \in Lanes \ {l} : Claimed(k) => SlotOf(k) # SlotOf(l)
    BY <2>1 DEF Claimed
  <2>5. ring[SlotOf(l)].seq < next
    BY <1>n DEF LanesSound, SlotsExact
  <2>6. LanesApart'
    <3>1. \A k \in Lanes : recorder'[k].step = "loaded" => recorder'[k].seq <= next'
      BY <1>n, <2>1, <2>2 DEF LanesSound, LanesApart
    <3>2. \A k \in Lanes : Claimed(k)' => recorder'[k].seq < next' /\ ring'[SlotOf(k)'].seq < recorder'[k].seq
      BY <1>n, <2>1, <2>2, <2>3, <2>5 DEF LanesSound, LanesApart
    <3>3. \A j, k \in Lanes : j # k /\ Claimed(j)' /\ Claimed(k)' => SlotOf(j)' # SlotOf(k)'
      BY <2>3, <2>4 DEF LanesSound, LanesApart
    <3>4. \A k \in Lanes : /\ Writing(k)' => ring'[SlotOf(k)'].data = recorder'[k].event
                           /\ recorder'[k].step = "kind" => ring'[SlotOf(k)'].kind = recorder'[k].event
      BY <2>1, <2>2, <2>3 DEF LanesSound, LanesApart
    <3> QED BY <3>1, <3>2, <3>3, <3>4 DEF LanesApart
  <2>7. SlotsExact'
    <3>1. \A i \in Slots : ring[i].seq < next'
      BY <1>n, <2>1 DEF LanesSound, SlotsExact
    <3> QED BY <2>1, <2>3, <3>1 DEF LanesSound, SlotsExact, Exact, Index
  <2>8. PublishedKept'
    BY <1>n, <1>e, <2>1 DEF LanesSound, PublishedKept, Index
  <2> QED BY <2>6, <2>7, <2>8 DEF LanesSound
<1>3. CASE StoreData(l)
  <2> DEFINE s == SlotOf(l)
  <2>1. /\ Advance(l, "reserved", "data") /\ ring' = [ring EXCEPT ![s].data = recorder[l].event]
        /\ UNCHANGED <<next, published>>
    BY <1>3 DEF StoreData, SlotOf
  <2>2. /\ recorder[l].step = "reserved" /\ recorder'[l].step = "data"
        /\ recorder'[l].seq = recorder[l].seq /\ recorder'[l].event = recorder[l].event
        /\ \A k \in Lanes \ {l} : recorder'[k] = recorder[k]
    BY <2>1, AdvanceEffect
  <2>3. /\ \A k \in Lanes : SlotOf(k)' = SlotOf(k) /\ (Claimed(k)' <=> Claimed(k))
        /\ \A k \in Lanes : Writing(k) => Writing(k)'
        /\ \A k \in Lanes \ {l} : Writing(k)' => Writing(k)
        /\ Claimed(l) /\ Writing(l)'
    BY <2>2 DEF SlotOf, Index, Claimed, Writing
  <2>4. \A k \in Lanes \ {l} : Claimed(k) => SlotOf(k) # s
    BY <2>3 DEF LanesSound, LanesApart
  <2>5. /\ s \in Slots /\ ring'[s].data = recorder[l].event /\ ring'[s].seq = ring[s].seq /\ ring'[s].kind = ring[s].kind
        /\ \A j \in Slots \ {s} : ring'[j] = ring[j]
    BY <1>n, <2>1, SlotStore
  <2> HIDE DEF s
  <2>c. \A k \in Lanes : Writing(k) => Claimed(k)
    BY DEF Writing, Claimed
  <2>s. s = SlotOf(l)
    BY DEF s
  <2>6. LanesApart'
    <3>1. \A k \in Lanes : recorder'[k].step = "loaded" => recorder'[k].seq <= next'
      BY <2>1, <2>2 DEF LanesSound, LanesApart
    <3>q. \A j \in Slots : ring'[j].seq = ring[j].seq
      BY <2>5
    <3>2. \A k \in Lanes : Claimed(k)' => recorder'[k].seq < next' /\ ring'[SlotOf(k)'].seq < recorder'[k].seq
      BY <1>n, <2>1, <2>2, <2>3, <3>q DEF LanesSound, LanesApart
    <3>3. \A j, k \in Lanes : j # k /\ Claimed(j)' /\ Claimed(k)' => SlotOf(j)' # SlotOf(k)'
      BY <2>3 DEF LanesSound, LanesApart
    <3>4. \A k \in Lanes \ {l} : Writing(k)' => ring'[SlotOf(k)'] = ring[SlotOf(k)]
      BY <1>n, <2>3, <2>4, <2>5, <2>c
    <3>5. \A k \in Lanes : Writing(k)' => ring'[SlotOf(k)'].data = recorder'[k].event
      BY <2>2, <2>3, <2>5, <2>s, <3>4 DEF LanesSound, LanesApart
    <3>6. \A k \in Lanes : recorder'[k].step = "kind" => ring'[SlotOf(k)'].kind = recorder'[k].event
      <4>1. \A k \in Lanes : recorder'[k].step = "kind" => k # l /\ Writing(k)'
        BY <2>2 DEF Writing
      <4> QED BY <2>2, <3>4, <4>1 DEF LanesSound, LanesApart
    <3> QED BY <3>1, <3>2, <3>3, <3>5, <3>6 DEF LanesApart
  <2>7. SlotsExact'
    <3> SUFFICES ASSUME NEW i \in Slots
                 PROVE  /\ ring'[i].seq < next'
                        /\ ring'[i].seq # 0 => Index(ring'[i].seq) = i
                        /\ ring'[i].seq # 0 /\ (\A k \in Lanes : Writing(k)' => SlotOf(k)' # i) => Exact(ring[i])'
      BY DEF SlotsExact, Index, Slots
    <3>1. CASE i = s
      <4>1. ~(\A k \in Lanes : Writing(k)' => SlotOf(k)' # i)
        BY <2>3, <2>s, <3>1
      <4> QED BY <2>1, <2>5, <3>1, <4>1 DEF LanesSound, SlotsExact
    <3>2. CASE i # s
      <4>1. ring'[i] = ring[i]
        BY <2>5, <3>2
      <4>2. (\A k \in Lanes : Writing(k)' => SlotOf(k)' # i) => (\A k \in Lanes : Writing(k) => SlotOf(k) # i)
        BY <2>3
      <4>3. next' = next /\ published \subseteq published'
        BY <2>1
      <4>4. Exact(ring[i]) => Exact(ring[i])'
        BY <4>1, <4>3 DEF Exact
      <4> QED BY <4>1, <4>2, <4>3, <4>4 DEF LanesSound, SlotsExact
    <3> QED BY <3>1, <3>2
  <2>8. PublishedKept'
    <3>1. \A j \in Slots : ring'[j].seq = ring[j].seq
      BY <2>5
    <3> QED BY <1>e, <2>1, <3>1 DEF LanesSound, PublishedKept, Index
  <2> QED BY <2>6, <2>7, <2>8 DEF LanesSound
<1>4. CASE StoreKind(l)
  <2> DEFINE s == SlotOf(l)
  <2>1. /\ Advance(l, "data", "kind") /\ ring' = [ring EXCEPT ![s].kind = recorder[l].event]
        /\ UNCHANGED <<next, published>>
    BY <1>4 DEF StoreKind, SlotOf
  <2>2. /\ recorder[l].step = "data" /\ recorder'[l].step = "kind"
        /\ recorder'[l].seq = recorder[l].seq /\ recorder'[l].event = recorder[l].event
        /\ \A k \in Lanes \ {l} : recorder'[k] = recorder[k]
    BY <2>1, AdvanceEffect
  <2>3. /\ \A k \in Lanes : SlotOf(k)' = SlotOf(k) /\ (Claimed(k)' <=> Claimed(k)) /\ (Writing(k)' <=> Writing(k))
        /\ Claimed(l) /\ Writing(l)
    BY <2>2 DEF SlotOf, Index, Claimed, Writing
  <2>4. \A k \in Lanes \ {l} : Claimed(k) => SlotOf(k) # s
    BY <2>3 DEF LanesSound, LanesApart
  <2>5. /\ s \in Slots /\ ring'[s].kind = recorder[l].event /\ ring'[s].seq = ring[s].seq /\ ring'[s].data = ring[s].data
        /\ \A j \in Slots \ {s} : ring'[j] = ring[j]
    BY <1>n, <2>1, SlotStore
  <2> HIDE DEF s
  <2>c. \A k \in Lanes : Writing(k) => Claimed(k)
    BY DEF Writing, Claimed
  <2>s. s = SlotOf(l)
    BY DEF s
  <2>6. LanesApart'
    <3>1. \A k \in Lanes : recorder'[k].step = "loaded" => recorder'[k].seq <= next'
      BY <2>1, <2>2 DEF LanesSound, LanesApart
    <3>q. \A j \in Slots : ring'[j].seq = ring[j].seq
      BY <2>5
    <3>2. \A k \in Lanes : Claimed(k)' => recorder'[k].seq < next' /\ ring'[SlotOf(k)'].seq < recorder'[k].seq
      BY <1>n, <2>1, <2>2, <2>3, <3>q DEF LanesSound, LanesApart
    <3>3. \A j, k \in Lanes : j # k /\ Claimed(j)' /\ Claimed(k)' => SlotOf(j)' # SlotOf(k)'
      BY <2>3 DEF LanesSound, LanesApart
    <3>4. \A k \in Lanes \ {l} : Writing(k)' => ring'[SlotOf(k)'] = ring[SlotOf(k)]
      BY <1>n, <2>3, <2>4, <2>5, <2>c
    <3>5. \A k \in Lanes : Writing(k)' => ring'[SlotOf(k)'].data = recorder'[k].event
      BY <2>2, <2>3, <2>5, <2>s, <3>4 DEF LanesSound, LanesApart
    <3>6. \A k \in Lanes : recorder'[k].step = "kind" => ring'[SlotOf(k)'].kind = recorder'[k].event
      <4>1. \A k \in Lanes : recorder'[k].step = "kind" => Writing(k)'
        BY DEF Writing
      <4> QED BY <2>2, <2>3, <2>5, <2>s, <3>4, <4>1 DEF LanesSound, LanesApart
    <3> QED BY <3>1, <3>2, <3>3, <3>5, <3>6 DEF LanesApart
  <2>7. SlotsExact'
    <3> SUFFICES ASSUME NEW i \in Slots
                 PROVE  /\ ring'[i].seq < next'
                        /\ ring'[i].seq # 0 => Index(ring'[i].seq) = i
                        /\ ring'[i].seq # 0 /\ (\A k \in Lanes : Writing(k)' => SlotOf(k)' # i) => Exact(ring[i])'
      BY DEF SlotsExact, Index, Slots
    <3>1. CASE i = s
      <4>1. ~(\A k \in Lanes : Writing(k)' => SlotOf(k)' # i)
        BY <2>3, <2>s, <3>1
      <4> QED BY <2>1, <2>5, <3>1, <4>1 DEF LanesSound, SlotsExact
    <3>2. CASE i # s
      <4>1. ring'[i] = ring[i]
        BY <2>5, <3>2
      <4>2. (\A k \in Lanes : Writing(k)' => SlotOf(k)' # i) => (\A k \in Lanes : Writing(k) => SlotOf(k) # i)
        BY <2>3
      <4>3. next' = next /\ published \subseteq published'
        BY <2>1
      <4>4. Exact(ring[i]) => Exact(ring[i])'
        BY <4>1, <4>3 DEF Exact
      <4> QED BY <4>1, <4>2, <4>3, <4>4 DEF LanesSound, SlotsExact
    <3> QED BY <3>1, <3>2
  <2>8. PublishedKept'
    <3>1. \A j \in Slots : ring'[j].seq = ring[j].seq
      BY <2>5
    <3> QED BY <1>e, <2>1, <3>1 DEF LanesSound, PublishedKept, Index
  <2> QED BY <2>6, <2>7, <2>8 DEF LanesSound
<1>5. CASE Publish(l)
  <2> DEFINE s == SlotOf(l)
             q == recorder[l].seq
  <2>1. /\ recorder[l].step = "kind" /\ ring' = [ring EXCEPT ![s].seq = q]
        /\ published' = published \cup {[seq |-> q, event |-> recorder[l].event]}
        /\ recorder' = [recorder EXCEPT ![l] = Idle] /\ next' = next
    BY <1>5 DEF Publish, SlotOf
  <2>2. recorder'[l].step = "idle" /\ \A k \in Lanes \ {l} : recorder'[k] = recorder[k]
    BY <1>f, <2>1 DEF Idle
  <2>3. /\ \A k \in Lanes \ {l} : /\ SlotOf(k)' = SlotOf(k) /\ (Claimed(k)' <=> Claimed(k))
                                  /\ (Writing(k)' <=> Writing(k))
        /\ Claimed(l) /\ Writing(l) /\ ~Claimed(l)' /\ ~Writing(l)'
    BY <2>1, <2>2 DEF SlotOf, Index, Claimed, Writing
  <2>4. \A k \in Lanes \ {l} : Claimed(k) => SlotOf(k) # s
    BY <2>3 DEF LanesSound, LanesApart
  <2>5. /\ s \in Slots /\ ring'[s].seq = q /\ ring'[s].kind = ring[s].kind /\ ring'[s].data = ring[s].data
        /\ \A j \in Slots \ {s} : ring'[j] = ring[j]
    BY <1>n, <2>1, SlotStore
  <2>o. /\ q < next /\ ring[s].seq < q /\ ring[s].data = recorder[l].event /\ ring[s].kind = recorder[l].event
        /\ q \in Nat /\ ring[s].seq \in Nat /\ Index(q) = s
    BY <1>n, <2>1, <2>3 DEF LanesSound, LanesApart, SlotOf
  <2> HIDE DEF s, q
  <2>c. \A k \in Lanes : Writing(k) => Claimed(k)
    BY DEF Writing, Claimed
  <2>s. s = SlotOf(l)
    BY DEF s
  <2>6. LanesApart'
    <3>1. \A k \in Lanes : recorder'[k].step = "loaded" => recorder'[k].seq <= next'
      BY <2>1, <2>2 DEF LanesSound, LanesApart
    <3>4. \A k \in Lanes : Claimed(k)' => k # l /\ Claimed(k) /\ ring'[SlotOf(k)'] = ring[SlotOf(k)]
      BY <1>n, <2>3, <2>4, <2>5
    <3>2. \A k \in Lanes : Claimed(k)' => recorder'[k].seq < next' /\ ring'[SlotOf(k)'].seq < recorder'[k].seq
      BY <2>1, <2>2, <3>4 DEF LanesSound, LanesApart
    <3>3. \A j, k \in Lanes : j # k /\ Claimed(j)' /\ Claimed(k)' => SlotOf(j)' # SlotOf(k)'
      BY <2>3 DEF LanesSound, LanesApart
    <3>w. \A k \in Lanes : /\ Writing(k)' => k # l /\ Writing(k) /\ Claimed(k)'
                           /\ recorder'[k].step = "kind" => Writing(k)'
      BY <2>3, <2>c DEF Writing
    <3>5. \A k \in Lanes : Writing(k)' => ring'[SlotOf(k)'].data = recorder'[k].event
      BY <2>2, <3>4, <3>w DEF LanesSound, LanesApart
    <3>6. \A k \in Lanes : recorder'[k].step = "kind" => ring'[SlotOf(k)'].kind = recorder'[k].event
      BY <2>2, <3>4, <3>w DEF LanesSound, LanesApart
    <3> QED BY <3>1, <3>2, <3>3, <3>5, <3>6 DEF LanesApart
  <2>7. SlotsExact'
    <3> SUFFICES ASSUME NEW i \in Slots
                 PROVE  /\ ring'[i].seq < next'
                        /\ ring'[i].seq # 0 => Index(ring'[i].seq) = i
                        /\ ring'[i].seq # 0 /\ (\A k \in Lanes : Writing(k)' => SlotOf(k)' # i) => Exact(ring[i])'
      BY DEF SlotsExact, Index, Slots
    <3>1. CASE i = s
      <4>1. Exact(ring[i])'
        BY <2>1, <2>5, <2>o, <3>1 DEF Exact
      <4> QED BY <2>1, <2>5, <2>o, <3>1, <4>1
    <3>2. CASE i # s
      <4>1. ring'[i] = ring[i]
        BY <2>5, <3>2
      <4>2. (\A k \in Lanes : Writing(k)' => SlotOf(k)' # i) => (\A k \in Lanes : Writing(k) => SlotOf(k) # i)
        BY <2>3, <2>s, <3>2
      <4>3. published \subseteq published'
        BY <2>1
      <4> QED BY <2>1, <4>1, <4>2, <4>3 DEF LanesSound, SlotsExact, Exact
    <3> QED BY <3>1, <3>2
  <2>8. PublishedKept'
    <3> SUFFICES ASSUME NEW e \in published'
                 PROVE  0 < e.seq /\ e.seq < next' /\ e.seq <= ring'[Index(e.seq)].seq
      BY DEF PublishedKept, Index
    <3>1. CASE e \in published
      <4>1. 0 < e.seq /\ e.seq < next /\ e.seq <= ring[Index(e.seq)].seq
        BY <3>1 DEF LanesSound, PublishedKept
      <4>2. Index(e.seq) = s => e.seq <= q
        BY <1>e, <2>o, <3>1, <4>1
      <4> QED BY <1>e, <2>1, <2>5, <3>1, <4>1, <4>2
    <3>2. CASE e = [seq |-> q, event |-> recorder[l].event]
      BY <2>1, <2>5, <2>o, <3>2
    <3> QED BY <2>1, <3>1, <3>2
  <2> QED BY <2>6, <2>7, <2>8 DEF LanesSound
<1> QED BY <1>1, <1>2, <1>3, <1>4, <1>5

-----------------------------------------------------------------------------
(* What a batch holds.                                                   *)

LEMMA OutRecords ==
  ASSUME RingTypes, ReaderPlace
  PROVE  /\ reader.out \in Seq(RecordType) /\ Len(reader.out) \in Nat /\ reader.at \in Nat /\ reader.next \in Nat
         /\ \A i \in 1 .. Len(reader.out) : reader.out[i].seq \in Nat
         /\ \A r \in RecordsOf(reader.out) : r.seq \in Nat /\ cursor < r.seq
<1>1. reader.out \in Seq(RecordType) /\ reader.at \in Nat /\ reader.next \in SeqRange
  BY DEF RingTypes, ReaderType
<1>2. \A i \in 1 .. Len(reader.out) : reader.out[i] \in RecordType
  BY <1>1
<1>3. \A i \in 1 .. Len(reader.out) : reader.out[i].seq \in SeqRange
  BY <1>2 DEF RecordType
<1>4. \A i \in 1 .. Len(reader.out) : reader.out[i].seq \in Nat
  BY <1>3, Sizes
<1>5. \A r \in RecordsOf(reader.out) : r.seq \in Nat /\ cursor < r.seq
  BY <1>4 DEF RecordsOf, ReaderPlace
<1>6. Len(reader.out) \in Nat
  BY <1>1
<1>7. reader.next \in Nat
  BY <1>1, Sizes
<1> QED BY <1>1, <1>4, <1>5, <1>6, <1>7

LEMMA RecordsAppend ==
  ASSUME NEW o \in Seq(RecordType), NEW r \in RecordType
  PROVE  RecordsOf(Append(o, r)) = RecordsOf(o) \cup {r}
<1>1. /\ Len(Append(o, r)) = Len(o) + 1 /\ Append(o, r)[Len(o) + 1] = r /\ Len(o) \in Nat
      /\ \A i \in 1 .. Len(o) : Append(o, r)[i] = o[i]
  OBVIOUS
<1>2. 1 .. Len(o) + 1 = (1 .. Len(o)) \cup {Len(o) + 1}
  BY <1>1
<1> QED BY <1>1, <1>2 DEF RecordsOf

\* The bounds an answer takes from the count.
LEMMA NotDropped ==
  ASSUME RingTypes, DroppedBeforeSeq(cursor) = 0
  PROVE  next <= cursor + 1 + Capacity
<1>1. next \in Nat /\ cursor \in Nat /\ Capacity \in Nat
  BY RingNumbers
<1>2. OldestSeq \in Nat /\ OldestSeq >= 1 /\ next <= OldestSeq + Capacity
  BY <1>1 DEF OldestSeq, AtLeast, Minus
<1>3. ~(cursor + 1 < OldestSeq)
  BY <1>1, <1>2 DEF DroppedBeforeSeq
<1> QED BY <1>1, <1>2, <1>3

LEMMA BelowFirst ==
  ASSUME RingTypes, NEW a \in Nat, cursor < a, a < FirstSeq(cursor)
  PROVE  a + Capacity < next
<1>1. next \in Nat /\ cursor \in Nat /\ Capacity \in Nat
  BY RingNumbers
<1>2. OldestSeq \in Nat /\ OldestSeq >= 1 /\ (OldestSeq = 1 \/ OldestSeq + Capacity = next)
  BY <1>1 DEF OldestSeq, AtLeast, Minus
<1>3. a < OldestSeq
  BY <1>1, <1>2 DEF FirstSeq, AtLeast
<1> QED BY <1>1, <1>2, <1>3

LEMMA ReadExactlyStep ==
  ASSUME RingTypes, ReaderPlace, LanesSound, ReadExactly, ~collided', [RingNext]_ringVars
  PROVE  ReadExactly'
<1>n. /\ next \in Nat /\ cursor \in Nat /\ Capacity \in Nat /\ reader.at \in Nat
      /\ \A r \in RecordsOf(reader.out) : r.seq \in Nat /\ cursor < r.seq
  BY RingNumbers, OutRecords
<1>1. ASSUME NEW l \in Lanes, Reserve(l) \/ StoreNext(l) \/ StoreData(l) \/ StoreKind(l) \/ Publish(l)
      PROVE  ReadExactly'
  <2>1. /\ next' \in Nat /\ next <= next' /\ published \subseteq published'
        /\ \A a \in Nat : ring[Index(a)].seq = a /\ next <= a + Capacity => ring'[Index(a)] = ring[Index(a)]
    BY <1>1, LaneEffect
  <2>2. UNCHANGED <<reader, delivered>>
    BY <1>1, LaneRest DEF Record
  <2>3. \A r : Exact(r) => Exact(r)'
    BY <2>1 DEF Exact
  <2>4. \A a \in Nat : next' <= a + Capacity => next <= a + Capacity
    BY <1>n, <2>1
  <2>5. Reading /\ next' <= reader.at + Capacity =>
          /\ ring'[Index(reader.at)] = ring[Index(reader.at)] /\ ring[Index(reader.at)].seq = reader.at
          /\ reader.step = "data" => reader.kind = ring[Index(reader.at)].kind
    BY <1>n, <2>1, <2>4 DEF ReadExactly
  <2>6. reader.step # "answer" => \A r \in RecordsOf(reader.out) : next' <= r.seq + Capacity => Exact(r)
    BY <1>n, <2>4 DEF ReadExactly
  <2>7. \A r \in delivered : Exact(r)
    BY DEF ReadExactly
  <2>8. reader.step = "answer" /\ reader.dropped = 0 => \A r \in RecordsOf(reader.out) : Exact(r)
    BY DEF ReadExactly
  <2> QED BY <2>2, <2>3, <2>5, <2>6, <2>7, <2>8 DEF ReadExactly, Reading, RecordsOf, Index
<1>h. ASSUME AnswerStep \/ Accept \/ Refuse \/ LoseAnswer \/ Resync
      PROVE  UNCHANGED <<next, ring, published>> /\ (\A r : Exact(r)' <=> Exact(r))
  BY <1>h, HostRest DEF Exact
<1>d. ASSUME AnswerStep \/ Accept \/ Refuse \/ LoseAnswer \/ Resync, delivered' = delivered,
             reader'.step \notin {"kind", "data"}, reader'.out = <<>>
      PROVE  ReadExactly'
  <2>1. RecordsOf(<<>>) = {}
    BY DEF RecordsOf
  <2> QED BY <1>d, <1>h, <2>1 DEF ReadExactly, Reading, RecordsOf
<1>2. CASE BeginAnswer
  <2>1. reader'.step = "bound" /\ reader'.out = <<>> /\ delivered' = delivered
    BY <1>2, BeginEffect
  <2> QED BY <1>2, <1>d, <2>1 DEF AnswerStep
<1>s. ASSUME AnswerStep, delivered' = delivered, reader'.step \in {"scan", "close"}, reader'.out = reader.out,
             reader.step # "answer"
      PROVE  ReadExactly'
  BY <1>h, <1>s DEF ReadExactly, Reading, RecordsOf
<1>3. CASE BoundAnswer
  BY <1>3, <1>s, BoundEffect DEF AnswerStep
<1>4. CASE ScanSeq
  <2>1. /\ reader.step = "scan" /\ reader'.out = reader.out /\ delivered' = delivered
        /\ \/ Holds(reader.at) /\ reader'.step = "kind" /\ reader'.at = reader.at
           \/ reader'.step = "scan"
    BY <1>4, ScanEffect
  <2>2. CASE reader'.step = "scan"
    BY <1>4, <1>s, <2>1, <2>2 DEF AnswerStep
  <2>3. CASE Holds(reader.at) /\ reader'.step = "kind" /\ reader'.at = reader.at
    BY <1>4, <1>h, <2>1, <2>3 DEF AnswerStep, ReadExactly, Reading, RecordsOf, Holds, Index
  <2> QED BY <2>1, <2>2, <2>3
<1>5. CASE ReadKind
  <2>1. /\ reader.step = "kind" /\ reader'.step = "data" /\ reader'.at = reader.at /\ reader'.out = reader.out
        /\ reader'.kind = ring[Index(reader.at)].kind /\ delivered' = delivered
    BY <1>5, KindEffect
  <2> QED BY <1>5, <1>h, <2>1 DEF AnswerStep, ReadExactly, Reading, RecordsOf, Index
<1>6. CASE ReadData
  <2>1. PICK r \in RecordType :
        /\ r.seq = reader.at /\ r.kind = reader.kind /\ r.data = ring[Index(reader.at)].data
        /\ reader.step = "data" /\ reader'.step = "scan"
        /\ reader'.out = Append(reader.out, r) /\ delivered' = delivered
    BY <1>6, DataEffect
  <2>2. RecordsOf(reader'.out) = RecordsOf(reader.out) \cup {r}
    BY <2>1, OutRecords, RecordsAppend
  <2>3. ASSUME next <= reader.at + Capacity PROVE Exact(r)
    <3> DEFINE i == Index(reader.at)
    <3>1. ring[i].seq = reader.at /\ reader.kind = ring[i].kind
      BY <2>1, <2>3 DEF ReadExactly, Reading
    <3>2. reader.at # 0
      BY <1>n, <2>1 DEF ReaderPlace, Scanning
    <3>3. \A l \in Lanes : Writing(l) => SlotOf(l) # i
      BY <1>n, <2>3, <3>1, LapSafe DEF LanesSound, Writing, Claimed
    <3>4. i \in Slots
      BY <1>n, IndexSlot
    <3>5. Exact(ring[i])
      BY <3>1, <3>2, <3>3, <3>4 DEF LanesSound, SlotsExact
    <3> QED BY <2>1, <3>1, <3>5 DEF Exact
  <2>4. \A u \in RecordsOf(reader'.out) : next <= u.seq + Capacity => Exact(u)
    BY <2>1, <2>2, <2>3 DEF ReadExactly
  <2> QED BY <1>6, <1>h, <2>1, <2>4 DEF AnswerStep, ReadExactly, Reading, RecordsOf
<1>7. CASE CloseBatch
  BY <1>7, <1>s, CloseEffect DEF AnswerStep
<1>8. CASE CheckDropped
  <2>1. /\ reader.step = "close" /\ reader'.step = "answer" /\ reader'.out = reader.out
        /\ reader'.dropped = DroppedBeforeSeq(cursor) /\ delivered' = delivered
    BY <1>8, CheckEffect
  <2>2. reader'.dropped = 0 => \A r \in RecordsOf(reader.out) : Exact(r)
    <3> SUFFICES ASSUME reader'.dropped = 0, NEW r \in RecordsOf(reader.out) PROVE Exact(r)
      OBVIOUS
    <3>1. next <= cursor + 1 + Capacity
      BY <2>1, NotDropped
    <3>2. next <= r.seq + Capacity
      BY <1>n, <3>1
    <3> QED BY <2>1, <3>2 DEF ReadExactly
  <2> QED BY <1>8, <1>h, <2>1, <2>2 DEF AnswerStep, ReadExactly, Reading, RecordsOf
<1>p. NoPoll.step = "idle" /\ NoPoll.out = <<>>
  BY DEF NoPoll
<1>9. CASE Accept
  <2>1. /\ reader.step = "answer" /\ reader.dropped = 0 /\ reader' = NoPoll
        /\ delivered' = delivered \cup RecordsOf(reader.out)
    BY <1>9 DEF Accept
  <2>2. \A r \in delivered' : Exact(r)
    BY <2>1 DEF ReadExactly
  <2>3. RecordsOf(<<>>) = {}
    BY DEF RecordsOf
  <2> QED BY <1>9, <1>h, <1>p, <2>1, <2>2, <2>3 DEF ReadExactly, Reading, RecordsOf
<1>10. CASE Refuse \/ LoseAnswer
  <2>1. reader' = NoPoll /\ delivered' = delivered
    BY <1>10 DEF Refuse, LoseAnswer
  <2> QED BY <1>10, <1>d, <1>p, <2>1
<1>11. CASE Resync
  <2>1. reader' = reader /\ delivered' = delivered
    BY <1>11 DEF Resync
  <2> QED BY <1>11, <1>h, <2>1 DEF ReadExactly, Reading, RecordsOf, Index
<1>12. CASE UNCHANGED ringVars
  BY <1>12 DEF ringVars, ReadExactly, Reading, RecordsOf, Index, Exact
<1> QED BY RingCases, <1>1, <1>2, <1>3, <1>4, <1>5, <1>6, <1>7, <1>8, <1>9, <1>10, <1>11, <1>12

LEMMA ReadAllStep ==
  ASSUME RingTypes, ReaderPlace, LanesSound, ReadAll, ~collided', [RingNext]_ringVars
  PROVE  ReadAll'
<1>n. /\ next \in Nat /\ cursor \in Nat /\ Capacity \in Nat /\ reader.at \in Nat /\ reader.next \in Nat
      /\ Len(reader.out) \in Nat /\ \A i \in 1 .. Len(reader.out) : reader.out[i].seq \in Nat
  BY RingNumbers, OutRecords
<1>e. \A e \in reader.before : e \in published /\ e.seq \in Nat
  BY Sizes DEF ReadAll, RingTypes
<1>b. reader.batchNext \in Nat
  BY Sizes DEF RingTypes, ReaderType
<1>1. ASSUME NEW l \in Lanes, Reserve(l) \/ StoreNext(l) \/ StoreData(l) \/ StoreKind(l) \/ Publish(l)
      PROVE  ReadAll'
  <2>1. next' \in Nat /\ next <= next' /\ published \subseteq published'
    BY <1>1, LaneEffect
  <2>2. UNCHANGED <<reader, cursor>>
    BY <1>1, LaneRest DEF Record
  <2>3. \A e \in reader.before : e.seq + Capacity < next => e.seq + Capacity < next'
    BY <1>n, <1>e, <2>1
  <2>4. cursor < next' /\ reader.next <= next' /\ (Closed => cursor < reader.batchNext /\ reader.batchNext <= next')
    BY <1>n, <1>b, <2>1 DEF ReadAll
  <2>5. \A e \in reader.before : e \in published' /\ e.seq < reader.next
    BY <2>1 DEF ReadAll
  <2>6. \A e : (InBatch(e)' <=> InBatch(e)) /\ (Within(e)' <=> Within(e))
    BY <2>2 DEF InBatch, Within, RecordsOf
  <2>7. (Scanning' <=> Scanning) /\ (Closed' <=> Closed)
    BY <2>2 DEF Scanning, Closed
  <2> QED BY <2>2, <2>3, <2>4, <2>5, <2>6, <2>7 DEF ReadAll
<1>h. ASSUME AnswerStep \/ Accept \/ Refuse \/ LoseAnswer \/ Resync
      PROVE  UNCHANGED <<next, ring, published>>
  BY <1>h, HostRest
<1>2. CASE BeginAnswer
  <2>1. reader'.step = "bound" /\ reader'.next = next /\ reader'.before = published /\ cursor' = cursor
    BY <1>2, BeginEffect
  <2>2. ~Scanning' /\ ~Closed'
    BY <2>1 DEF Scanning, Closed
  <2>3. \A e \in published : e.seq < next
    BY DEF LanesSound, PublishedKept
  <2>4. UNCHANGED <<next, published>>
    BY <1>2, <1>h DEF AnswerStep
  <2> QED BY <1>n, <2>1, <2>2, <2>3, <2>4 DEF ReadAll
<1>3. CASE BoundAnswer
  <2>1. /\ reader.step = "bound" /\ reader'.step = "scan" /\ reader'.at = FirstSeq(cursor)
        /\ reader'.next = reader.next /\ reader'.before = reader.before /\ cursor' = cursor
    BY <1>3, BoundEffect
  <2>2. UNCHANGED <<next, published>>
    BY <1>3, <1>h DEF AnswerStep
  <2>3. \A e \in reader.before : cursor < e.seq /\ e.seq < FirstSeq(cursor) => e.seq + Capacity < next
    BY <1>e, BelowFirst
  <2>4. ~Closed'
    BY <2>1 DEF Closed
  <2> QED BY <2>1, <2>2, <2>3, <2>4 DEF ReadAll
<1>4. CASE ScanSeq
  <2>1. /\ reader.step = "scan" /\ reader'.step \in {"scan", "kind"} /\ reader'.out = reader.out
        /\ reader'.next = reader.next /\ reader'.before = reader.before /\ cursor' = cursor
        /\ \/ reader'.at = reader.at
           \/ ~(Holds(reader.at) /\ Len(reader.out) < Batch) /\ reader'.at = reader.at + 1
    BY <1>4, ScanEffect
  <2>2. UNCHANGED <<next, published>>
    BY <1>4, <1>h DEF AnswerStep
  <2>3. /\ \A e : (InBatch(e)' <=> InBatch(e)) /\ (Within(e)' <=> Within(e))
        /\ Scanning /\ ~Closed'
    BY <2>1 DEF InBatch, Within, RecordsOf, Scanning, Closed
  <2>4. ASSUME NEW e \in reader.before, cursor < e.seq, e.seq < reader'.at, Within(e)
        PROVE  InBatch(e) \/ e.seq + Capacity < next
    <3>1. CASE e.seq < reader.at
      BY <2>3, <2>4, <3>1 DEF ReadAll
    <3>2. CASE ~(e.seq < reader.at)
      <4>1. e.seq = reader.at /\ ~(Holds(reader.at) /\ Len(reader.out) < Batch)
        BY <1>n, <1>e, <2>1, <2>4, <3>2
      <4>2. Len(reader.out) < Batch
        <5>1. SUFFICES ASSUME ~(Len(reader.out) < Batch) PROVE FALSE
          OBVIOUS
        <5>2. Len(reader.out) \in 1 .. Len(reader.out)
          BY <1>n, <5>1, Sizes
        <5>3. reader.out[Len(reader.out)].seq < reader.at
          BY <2>3, <5>2 DEF ReaderPlace
        <5>4. e.seq <= reader.out[Len(reader.out)].seq
          BY <2>4, <5>1 DEF Within
        <5> QED BY <1>n, <4>1, <5>2, <5>3, <5>4
      <4> DEFINE i == Index(e.seq)
                 top == ring[i].seq
      <4>3. i \in Slots /\ top \in Nat /\ e.seq \in Nat
        BY <1>e, IndexSlot, RingNumbers
      <4>4. top # e.seq /\ 0 < e.seq /\ e.seq <= top
        BY <1>e, <4>1, <4>2 DEF Holds, LanesSound, PublishedKept
      <4>5. top < next /\ Index(top) = i
        BY <4>3, <4>4 DEF LanesSound, SlotsExact
      <4> HIDE DEF top
      <4>6. e.seq < top
        BY <4>3, <4>4
      <4>7. e.seq + Capacity <= top
        BY <4>3, <4>5, <4>6, LapGap
      <4> QED BY <1>n, <4>3, <4>5, <4>7
    <3> QED BY <3>1, <3>2
  <2> QED BY <2>1, <2>2, <2>3, <2>4 DEF ReadAll
<1>5. CASE ReadKind
  <2>1. /\ reader.step = "kind" /\ reader'.step = "data" /\ reader'.at = reader.at /\ reader'.out = reader.out
        /\ reader'.next = reader.next /\ reader'.before = reader.before /\ cursor' = cursor
    BY <1>5, KindEffect
  <2>2. UNCHANGED <<next, published>>
    BY <1>5, <1>h DEF AnswerStep
  <2>3. /\ \A e : (InBatch(e)' <=> InBatch(e)) /\ (Within(e)' <=> Within(e))
        /\ Scanning /\ ~Closed'
    BY <2>1 DEF InBatch, Within, RecordsOf, Scanning, Closed
  <2> QED BY <2>1, <2>2, <2>3 DEF ReadAll
<1>6. CASE ReadData
  <2>1. PICK r \in RecordType :
        /\ r.seq = reader.at /\ reader.step = "data" /\ reader'.step = "scan" /\ reader'.at = reader.at + 1
        /\ reader'.out = Append(reader.out, r)
        /\ reader'.next = reader.next /\ reader'.before = reader.before /\ cursor' = cursor
    BY <1>6, DataEffect
  <2>2. UNCHANGED <<next, published>>
    BY <1>6, <1>h DEF AnswerStep
  <2>3. Scanning /\ ~Closed' /\ Len(reader.out) < Batch
    BY <2>1 DEF Scanning, Closed, RingTypes, Reading
  <2>4. RecordsOf(reader'.out) = RecordsOf(reader.out) \cup {r}
    BY <2>1, OutRecords, RecordsAppend
  <2>5. ASSUME NEW e \in reader.before, cursor < e.seq, e.seq < reader'.at
        PROVE  InBatch(e)' \/ e.seq + Capacity < next
    <3>1. CASE e.seq = reader.at
      BY <2>1, <2>4, <3>1 DEF InBatch
    <3>2. CASE e.seq # reader.at
      <4>1. e.seq < reader.at
        BY <1>n, <1>e, <2>1, <2>5, <3>2
      <4>2. InBatch(e) \/ e.seq + Capacity < next
        BY <2>3, <2>5, <4>1 DEF ReadAll, Within
      <4> QED BY <2>4, <4>2 DEF InBatch
    <3> QED BY <3>1, <3>2
  <2> QED BY <2>1, <2>2, <2>3, <2>5 DEF ReadAll
<1>7. CASE CloseBatch
  <2>1. /\ reader.step = "scan" /\ reader.at >= reader.next /\ reader'.step = "close"
        /\ reader'.batchNext = BatchNext(reader.out) /\ reader'.out = reader.out
        /\ reader'.next = reader.next /\ reader'.before = reader.before /\ cursor' = cursor
    BY <1>7, CloseEffect
  <2>2. UNCHANGED <<next, published>>
    BY <1>7, <1>h DEF AnswerStep
  <2>3. /\ \A e : InBatch(e)' <=> InBatch(e)
        /\ Scanning /\ ~Scanning'
    BY <2>1 DEF InBatch, RecordsOf, Scanning
  <2>0. cursor < next /\ reader.next <= next
    BY DEF ReadAll
  <2>4. \/ reader.out = <<>> /\ BatchNext(reader.out) = next /\ Len(reader.out) < Batch
        \/ /\ Len(reader.out) \in 1 .. Len(reader.out)
           /\ BatchNext(reader.out) = reader.out[Len(reader.out)].seq + 1
    <3>1. CASE reader.out = <<>>
      BY <3>1, Sizes DEF BatchNext
    <3>2. CASE reader.out # <<>>
      BY <3>2, OutRecords DEF BatchNext
    <3> QED BY <3>1, <3>2
  <2>5. cursor < BatchNext(reader.out) /\ BatchNext(reader.out) <= next
    <3>1. CASE BatchNext(reader.out) = next
      BY <1>n, <2>0, <3>1
    <3>2. CASE /\ Len(reader.out) \in 1 .. Len(reader.out)
               /\ BatchNext(reader.out) = reader.out[Len(reader.out)].seq + 1
      <4>1. cursor < reader.out[Len(reader.out)].seq /\ reader.out[Len(reader.out)].seq < reader.next
        BY <3>2 DEF ReaderPlace
      <4> QED BY <1>n, <2>0, <3>2, <4>1
    <3> QED BY <2>4, <3>1, <3>2
  <2>6. ASSUME NEW e \in reader.before, cursor < e.seq, e.seq < BatchNext(reader.out)
        PROVE  InBatch(e) \/ e.seq + Capacity < next
    <3>1. e.seq < reader.at
      <4>1. e.seq < reader.next
        BY DEF ReadAll
      <4> QED BY <1>n, <1>e, <2>1, <4>1
    <3>2. Within(e)
      BY <1>n, <1>e, <2>4, <2>6 DEF Within
    <3> QED BY <2>3, <2>6, <3>1, <3>2 DEF ReadAll
  <2> QED BY <2>1, <2>2, <2>3, <2>5, <2>6 DEF ReadAll
<1>8. CASE CheckDropped
  <2>1. /\ reader.step = "close" /\ reader'.step = "answer" /\ reader'.out = reader.out
        /\ reader'.dropped = DroppedBeforeSeq(cursor) /\ reader'.batchNext = reader.batchNext
        /\ reader'.next = reader.next /\ reader'.before = reader.before /\ cursor' = cursor
    BY <1>8, CheckEffect
  <2>2. UNCHANGED <<next, published>>
    BY <1>8, <1>h DEF AnswerStep
  <2>3. /\ \A e : InBatch(e)' <=> InBatch(e)
        /\ Closed /\ ~Scanning'
    BY <2>1 DEF InBatch, RecordsOf, Scanning, Closed
  <2>4. ASSUME reader'.dropped = 0, NEW e \in reader.before, cursor < e.seq, e.seq < reader.batchNext
        PROVE  InBatch(e)
    <3>1. next <= cursor + 1 + Capacity
      BY <2>1, <2>4, NotDropped
    <3>2. ~(e.seq + Capacity < next)
      BY <1>n, <1>e, <2>4, <3>1
    <3> QED BY <2>1, <2>4, <3>2 DEF ReadAll
  <2> QED BY <2>1, <2>2, <2>3, <2>4 DEF ReadAll
<1>p. NoPoll.step = "idle" /\ NoPoll.next = 0 /\ NoPoll.before = {}
  BY DEF NoPoll
<1>9. CASE Accept \/ Refuse \/ LoseAnswer
  <2>1. reader' = NoPoll /\ reader.step = "answer" /\ cursor' \in {cursor, CursorAfter(reader.batchNext)}
    BY <1>9 DEF Accept, Refuse, LoseAnswer
  <2>2. UNCHANGED <<next, published>>
    BY <1>9, <1>h
  <2>3. cursor < next /\ reader.batchNext <= next /\ cursor < reader.batchNext
    BY <2>1 DEF ReadAll, Closed
  <2>4. cursor' < next
    BY <1>n, <1>b, <2>1, <2>3 DEF CursorAfter, Minus
  <2>5. ~Scanning' /\ ~Closed'
    BY <1>p, <2>1 DEF Scanning, Closed
  <2> QED BY <1>n, <1>p, <2>1, <2>2, <2>4, <2>5 DEF ReadAll
<1>10. CASE Resync
  <2>1. reader' = reader /\ host = "missed" /\ cursor' = CursorAfter(next)
    BY <1>10 DEF Resync
  <2>2. UNCHANGED <<next, published>>
    BY <1>10, <1>h
  <2>3. reader.step = "idle"
    BY <2>1 DEF ReaderPlace
  <2>4. cursor' < next
    BY <2>1, RingNumbers DEF CursorAfter, Minus
  <2>5. ~Scanning' /\ ~Closed'
    BY <2>1, <2>3 DEF Scanning, Closed
  <2> QED BY <2>1, <2>2, <2>3, <2>4, <2>5 DEF ReadAll
<1>11. CASE UNCHANGED ringVars
  BY <1>11 DEF ringVars, ReadAll, Scanning, Closed, Within, InBatch, RecordsOf
<1> QED BY RingCases, <1>1, <1>2, <1>3, <1>4, <1>5, <1>6, <1>7, <1>8, <1>9, <1>10, <1>11

-----------------------------------------------------------------------------
(* The theorems about the ring.                                          *)

LEMMA RingInvInit == RingInit => RingInv
<1> SUFFICES ASSUME RingInit PROVE RingInv
  OBVIOUS
<1>i. /\ next = 1 /\ numbered = 0 /\ cursor = 0 /\ excused = 0 /\ lost = 0 /\ host = "polling"
      /\ ring = [i \in Slots |-> [seq |-> 0, kind |-> Nothing, data |-> Nothing]]
      /\ recorder = [l \in Lanes |-> Idle] /\ reader = NoPoll
      /\ published = {} /\ delivered = {} /\ collided = FALSE
  BY DEF RingInit, Slots
<1>1. /\ NoPoll.step = "idle" /\ NoPoll.out = <<>> /\ NoPoll.next = 0 /\ NoPoll.before = {} /\ NoPoll \in ReaderType
      /\ Len(NoPoll.out) = 0
  BY NoPollReader DEF NoPoll
<1>2. Idle \in RecorderType /\ Idle.step = "idle" /\ Idle.seq = 0
  BY Sizes DEF Idle, RecorderType, Nothing, SeqRange, EventRange
<1>3. [seq |-> 0, kind |-> Nothing, data |-> Nothing] \in RecordType
  BY Sizes DEF RecordType, Nothing, SeqRange, EventRange
<1>4. RingTypes
  <2>1. numbered \in EventRange /\ next \in 1 .. numbered + 1 /\ cursor \in EventRange /\ excused \in EventRange
        /\ lost \in 0 .. MaxLost
    BY <1>i, Sizes DEF EventRange
  <2>2. recorder \in [Lanes -> RecorderType] /\ \A l \in Lanes : recorder[l].seq <= numbered
    BY <1>i, <1>2
  <2>3. Len(reader.out) <= Batch
    BY <1>i, <1>1, Sizes
  <2> QED BY <1>i, <1>1, <1>3, <2>1, <2>2, <2>3 DEF RingTypes, Reading
<1>5. ReaderPlace
  BY <1>i, <1>1 DEF ReaderPlace, Scanning, Closed
<1>6. LanesSound
  <2>1. \A l \in Lanes : recorder[l].step = "idle"
    BY <1>i, <1>2
  <2>2. LanesApart
    BY <2>1 DEF LanesApart, Claimed, Writing
  <2>3. SlotsExact
    BY <1>i DEF SlotsExact
  <2> QED BY <1>i, <2>2, <2>3 DEF LanesSound, PublishedKept
<1>7. ReadExactly
  BY <1>i, <1>1 DEF ReadExactly, Reading, RecordsOf
<1>8. ReadAll
  BY <1>i, <1>1 DEF ReadAll, Scanning, Closed
<1> QED BY <1>4, <1>5, <1>6, <1>7, <1>8 DEF RingInv

LEMMA RingInvStep == RingInv /\ [RingNext]_ringVars => RingInv'
<1> SUFFICES ASSUME RingInv, [RingNext]_ringVars PROVE RingInv'
  OBVIOUS
<1>1. RingTypes' /\ ReaderPlace'
  BY RingTypesStep, ReaderPlaceStep DEF RingInv
<1>2. ASSUME ~collided' PROVE ~collided
  <2>1. collided => collided'
    BY DEF RingNext, Reserve, Record, StoreNext, StoreData, StoreKind, Publish, AnswerStep, BeginAnswer,
           BoundAnswer, ScanSeq, ReadKind, ReadData, CloseBatch, CheckDropped, Accept, Refuse, LoseAnswer,
           Resync, answerRest, ringVars
  <2> QED BY <1>2, <2>1
<1>3. ASSUME ~collided' PROVE LanesSound' /\ ReadExactly' /\ ReadAll'
  <2>1. RingTypes /\ ReaderPlace /\ LanesSound /\ ReadExactly /\ ReadAll
    BY <1>2, <1>3 DEF RingInv
  <2>2. ReadExactly' /\ ReadAll'
    BY <1>3, <2>1, ReadExactlyStep, ReadAllStep
  <2>3. LanesSound'
    <3>1. ASSUME NEW l \in Lanes, Reserve(l) \/ StoreNext(l) \/ StoreData(l) \/ StoreKind(l) \/ Publish(l)
          PROVE  LanesSound'
      BY <1>3, <2>1, <3>1, LanesSoundStep
    <3>2. CASE UNCHANGED <<next, ring, recorder, published>>
      <4>1. /\ \A l \in Lanes : (Claimed(l)' <=> Claimed(l)) /\ (Writing(l)' <=> Writing(l)) /\ SlotOf(l)' = SlotOf(l)
            /\ \A r : Exact(r)' <=> Exact(r)
        BY <3>2 DEF Claimed, Writing, SlotOf, Index, Exact
      <4>2. LanesApart'
        BY <2>1, <3>2, <4>1 DEF LanesSound, LanesApart
      <4>3. SlotsExact'
        BY <2>1, <3>2, <4>1 DEF LanesSound, SlotsExact, Index, Exact
      <4>4. PublishedKept'
        BY <2>1, <3>2 DEF LanesSound, PublishedKept, Index
      <4> QED BY <4>2, <4>3, <4>4 DEF LanesSound
    <3>3. \/ \E l \in Lanes : Reserve(l) \/ StoreNext(l) \/ StoreData(l) \/ StoreKind(l) \/ Publish(l)
          \/ UNCHANGED <<next, ring, recorder, published>>
      BY RingCases, HostRest DEF AnswerStep, ringVars
    <3> QED BY <3>1, <3>2, <3>3
  <2> QED BY <2>2, <2>3
<1> QED BY <1>1, <1>3 DEF RingInv

LEMMA RingInvariant == RingSpec => []RingInv
BY RingInvInit, RingInvStep, PTL DEF RingSpec

\* What the invariant says of the types of the ring, its lanes and the cursor.
LEMMA RingTyped == RingInv => RingTypeOK
<1> SUFFICES ASSUME RingInv PROVE RingTypeOK
  OBVIOUS
<1>1. RingTypes
  BY DEF RingInv
<1>2. next \in 1 .. MaxEvents + 1
  BY <1>1, Sizes DEF RingTypes, EventRange
<1>3. /\ reader.next \in SeqRange /\ reader.batchNext \in SeqRange /\ reader.dropped \in SeqRange
      /\ reader.out \in Seq(RecordType) /\ Len(reader.out) <= Batch
  BY <1>1 DEF RingTypes, ReaderType
<1>4. RecordsOf(reader.out) \subseteq RecordType
  BY <1>3 DEF RecordsOf
<1> QED BY <1>1, <1>2, <1>3, <1>4
        DEF RingTypeOK, RingTypes, RecordType, RecorderType, SeqRange, EventRange, Slots

\* Every counter of the ring, of its lanes and of the cursor stays within the events
\* that were recorded, whatever the lanes and the answers do at once.
THEOREM RingTypeCorrect == RingSpec => []RingTypeOK
  BY RingTyped, RingInvariant, PTL

\* record_public_event and collect_events_since: until two lanes write one slot at
\* a time, a record the host accepted is one event, as its lane recorded it.
THEOREM AlwaysDeliversExact == RingSpec => []DeliversExact
<1>1. RingInv => DeliversExact
  BY DEF RingInv, ReadExactly, Exact, DeliversExact
<1> QED BY <1>1, RingInvariant, PTL

\* render_events_json and EventCursor::poll: a batch the host accepts leaves out no
\* event published before the poll that it takes the cursor past, repeats none and
\* keeps their order.
THEOREM AlwaysOnceInOrder == RingSpec => OnceInOrder
<1>1. RingInv /\ [RingNext]_ringVars =>
        [Accepting => collided \/
           LET out == reader.out IN
           /\ \A e \in reader.before :
                cursor < e.seq /\ e.seq <= cursor' => \E r \in delivered' : r.seq = e.seq
           /\ \A i \in 1 .. Len(out) : cursor < out[i].seq /\ out[i].seq <= cursor'
           /\ \A i, j \in 1 .. Len(out) : i < j => out[i].seq < out[j].seq
           /\ cursor <= cursor']_ringVars
  <2> SUFFICES ASSUME RingInv, [RingNext]_ringVars, Accepting, ~collided
               PROVE  /\ \A e \in reader.before :
                           cursor < e.seq /\ e.seq <= cursor' => \E r \in delivered' : r.seq = e.seq
                      /\ \A i \in 1 .. Len(reader.out) : cursor < reader.out[i].seq /\ reader.out[i].seq <= cursor'
                      /\ \A i, j \in 1 .. Len(reader.out) : i < j => reader.out[i].seq < reader.out[j].seq
                      /\ cursor <= cursor'
    OBVIOUS
  <2>i. RingTypes /\ ReaderPlace /\ ReadAll
    BY DEF RingInv
  <2>a. reader.step = "answer" /\ reader.dropped = 0 /\ lost' = lost /\ reader' # reader
    <3>1. NoPoll.step = "idle"
      BY DEF NoPoll
    <3> QED BY <3>1 DEF Accepting
  <2>1. Accept
    <3>1. \A l \in Lanes : ~(Reserve(l) \/ StoreNext(l) \/ StoreData(l) \/ StoreKind(l) \/ Publish(l))
      BY <2>a, LaneRest DEF Record
    <3>2. ~BeginAnswer /\ ~BoundAnswer /\ ~ScanSeq /\ ~ReadKind /\ ~ReadData /\ ~CloseBatch /\ ~CheckDropped
      BY <2>a DEF BeginAnswer, BoundAnswer, ScanSeq, ReadKind, ReadData, CloseBatch, CheckDropped
    <3>3. ~Refuse /\ ~Resync /\ ~UNCHANGED ringVars
      BY <2>a DEF Refuse, Resync, ringVars
    <3>4. ~LoseAnswer
      <4>1. lost \in Nat
        BY <2>i, Sizes DEF RingTypes
      <4> QED BY <2>a, <4>1 DEF LoseAnswer
    <3> QED BY <3>1, <3>2, <3>3, <3>4, RingCases
  <2>2. cursor' = CursorAfter(reader.batchNext) /\ delivered' = delivered \cup RecordsOf(reader.out)
    BY <2>1 DEF Accept
  <2>n. /\ cursor \in Nat /\ Len(reader.out) \in Nat /\ reader.batchNext \in Nat
        /\ \A i \in 1 .. Len(reader.out) : reader.out[i].seq \in Nat
        /\ \A e \in reader.before : e.seq \in Nat
    <3>1. reader.batchNext \in SeqRange /\ \A e \in reader.before : e.seq \in SeqRange
      BY <2>i DEF RingTypes, ReaderType
    <3> QED BY <2>i, <3>1, RingNumbers, OutRecords, Sizes
  <2>3. cursor < reader.batchNext
    BY <2>a, <2>i DEF ReadAll, Closed
  <2>4. cursor' \in Nat /\ cursor' + 1 = reader.batchNext
    BY <2>2, <2>3, <2>n DEF CursorAfter, Minus
  <2>5. \A i, j \in 1 .. Len(reader.out) : i < j => reader.out[i].seq < reader.out[j].seq
    BY <2>i DEF ReaderPlace
  <2>6. ASSUME NEW i \in 1 .. Len(reader.out)
        PROVE  cursor < reader.out[i].seq /\ reader.out[i].seq <= cursor'
    <3> DEFINE n == Len(reader.out)
    <3>1. n \in 1 .. n /\ reader.out # <<>>
      BY <2>n
    <3>2. reader.batchNext = reader.out[n].seq + 1
      BY <2>a, <2>i, <3>1 DEF ReaderPlace, Closed
    <3>3. reader.out[i].seq <= reader.out[n].seq
      <4>1. CASE i = n
        BY <2>n, <3>1, <4>1
      <4>2. CASE i # n
        BY <2>5, <2>n, <3>1, <4>2
      <4> QED BY <4>1, <4>2
    <3>4. cursor < reader.out[i].seq
      BY <2>i DEF ReaderPlace
    <3> QED BY <2>4, <2>n, <3>1, <3>2, <3>3, <3>4
  <2>7. ASSUME NEW e \in reader.before, cursor < e.seq, e.seq <= cursor'
        PROVE  \E r \in delivered' : r.seq = e.seq
    <3>1. e.seq < reader.batchNext
      BY <2>4, <2>7, <2>n
    <3>2. InBatch(e)
      BY <2>a, <2>i, <2>7, <3>1 DEF ReadAll
    <3> QED BY <2>2, <3>2 DEF InBatch
  <2>8. cursor <= cursor'
    BY <2>3, <2>4, <2>n
  <2> QED BY <2>5, <2>6, <2>7, <2>8
<1> QED BY <1>1, RingInvariant, PTL DEF RingSpec, OnceInOrder

-----------------------------------------------------------------------------
(* The parts together.                                                     *)

\* Every part keeps its invariant; hosts that never start keep their types.
HostsInv ==
  /\ part = "failover" => FailoverInv
  /\ part # "failover" => FailoverTypeOK
  /\ RingInv /\ PossessionInv /\ SleepInv

LEMMA HostsInitial == HostsInit => HostsInv
<1> SUFFICES ASSUME HostsInit PROVE HostsInv
  OBVIOUS
<1>1. RingInv /\ PossessionInv /\ SleepInv
  BY RingInvInit, PossessionInitial, SleepInitial DEF HostsInit
<1>2. CASE part = "failover"
  <2>1. FailoverInit
    BY <1>2 DEF HostsInit, FailoverInit
  <2> QED BY <1>1, <1>2, <2>1, FailoverInvInit DEF HostsInv
<1>3. CASE part # "failover"
  <2>1. StartWith({})
    BY <1>3 DEF HostsInit
  <2>2. Machine0 \in MachineType /\ Unknown \in ViewType
    BY Thresholds, AgeNumbers DEF Machine0, Unknown, MachineType, ViewType
  <2>3. Unknown.boot = 0 /\ Unknown.lease = 0
    BY DEF Unknown
  <2>4. Unknown \in [kind : {"unknown", "free", "active"}, owner : Hosts \cup {None},
                     boot : 0 .. MaxFaults, generation : Nat, age : 0 .. Never,
                     lease : 0 .. Lease, peer : 0 .. Never]
    BY <2>2, <2>3, Thresholds DEF ViewType, Ages
  <2>5. Machine0 \in [preferredPath : BOOLEAN, outage : 0 .. Never, uncontrolled : 0 .. Never,
                      preferred : 0 .. Never, attempt : 0 .. Never, generation : Nat]
    BY <2>2 DEF MachineType, Ages
  <2>6. /\ links \subseteq Links /\ joined = FALSE /\ alive = {} /\ ticked = {}
        /\ boot = [h \in Hosts |-> 0] /\ role = [h \in Hosts |-> "subordinate"]
        /\ machine = [h \in Hosts |-> Machine0] /\ seen = [h \in Hosts |-> Unknown]
        /\ body = [owner |-> None, boot |-> 0, generation |-> 1, lease |-> 0]
        /\ faults = MaxFaults /\ sinceFree = 0
    BY <2>1 DEF StartWith
  <2>7. body \in [owner : Hosts \cup {None}, boot : 0 .. MaxFaults,
                  generation : Nat \ {NoGeneration}, lease : 0 .. Lease]
    BY <2>6, Thresholds
  <2>8. boot \in [Hosts -> 0 .. MaxFaults] /\ faults \in 0 .. MaxFaults /\ sinceFree \in 0 .. Freshness + 1
    BY <2>6, Thresholds
  <2>9. FailoverTypeOK
    BY <2>4, <2>5, <2>6, <2>7, <2>8 DEF FailoverTypeOK
  <2> QED BY <1>1, <1>3, <2>9 DEF HostsInv
<1> QED BY <1>2, <1>3

LEMMA HostsStep == HostsInv /\ [HostsNext]_hostsVars => HostsInv'
<1> SUFFICES ASSUME HostsInv, [HostsNext]_hostsVars PROVE HostsInv'
  OBVIOUS
<1>1. part' = part /\ [FailoverNext]_failoverVars /\ (part # "failover" => UNCHANGED failoverVars)
  BY DEF HostsNext, OfFailover, OfRing, OfPossession, OfSleep, hostsVars
<1>2. [RingNext]_ringVars /\ [PossessionNext]_possessionVars /\ [SleepNext]_sleepVars
  BY DEF HostsNext, OfFailover, OfRing, OfPossession, OfSleep, hostsVars
<1>3. RingInv' /\ PossessionInv' /\ SleepInv'
  BY <1>2, RingInvStep, PossessionStep, SleepingStep DEF HostsInv
<1>4. CASE part = "failover"
  <2>1. FailoverInv
    BY <1>4 DEF HostsInv
  <2>2. FailoverInv'
    BY <1>1, <2>1, FailoverInvStep
  <2> QED BY <1>1, <1>3, <1>4, <2>2 DEF HostsInv
<1>5. CASE part # "failover"
  <2>1. FailoverTypeOK'
    BY <1>1, <1>5 DEF HostsInv, FailoverTypeOK, failoverVars, history
  <2> QED BY <1>1, <1>3, <1>5, <2>1 DEF HostsInv
<1> QED BY <1>4, <1>5

\* The parts of the hosts' side keep their types, whichever of them moves.
THEOREM HostsTypeCorrect == HostsSpec => []HostsTypeOK
<1>1. HostsInv => HostsTypeOK
  BY FailoverTyped, RingTyped, PossessionTyped, SleepTyped DEF HostsInv, HostsTypeOK
<1> QED BY <1>1, HostsInitial, HostsStep, PTL DEF HostsSpec
===============================================================================
