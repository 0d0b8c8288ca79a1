------------------------------- MODULE HostFailover -------------------------------
(***************************************************************************)
(* The failover machines of the two Linux hosts (pete-higher-brain,        *)
(* HostFailover) around one body.  Each host polls the brainstem's         *)
(* possession surface and its peer, ticks its machine on what it last saw, *)
(* and carries out the decision: join the brainstem's network, ask for     *)
(* possession under the generation it saw, run the body-facing role, or    *)
(* release.  Possession itself is granted by the brainstem, which is       *)
(* external here: one atomic test of owner and generation, a lease, and a  *)
(* generation that grows at every change of owner.                         *)
(*                                                                         *)
(* Instants of the code are kept as ages in units of one tick period;      *)
(* every comparison is against a threshold, so ages stop at Horizon.  The  *)
(* hosts poll and tick once a unit; a late unit, a tick on what was polled *)
(* before, a crash, a link that changes and a lost answer each cost one of *)
(* MaxFaults.  Takeover and automatic handback are configured on.          *)
(***************************************************************************)
EXTENDS Naturals, FiniteSets

CONSTANTS
  Freshness,      \* controller_freshness_ms
  PeerFreshness,  \* peer_freshness_ms
  Grace,          \* takeover_grace_ms
  Search,         \* ordinary_search_ms
  Backoff,        \* retry_backoff_ms
  Hysteresis,     \* path_hysteresis_ms
  Lease,          \* how long the brainstem grants possession for
  Horizon,        \* the age at which the clock stops counting: stale by every threshold
  Links,          \* the links of the installation
  Fragile,        \* the links that may go down and up
  MaxFaults       \* faults of a behaviour

ASSUME ThresholdsAssumption ==
  /\ {Grace, Search, Backoff, Hysteresis, Lease} \subseteq 1 .. Horizon
  /\ {Freshness, PeerFreshness} \subseteq 1 .. Horizon - 1
  /\ Horizon \in Nat /\ MaxFaults \in Nat
  /\ Fragile \subseteq Links
  /\ Links \subseteq {"ethernet", "ordinary", "usb", "mother_wifi", "fore_wifi"}

Mother == "motherbrain"
Fore == "forebrain"
Hosts == {Mother, Fore}
None == "none"  \* no owner
Never == Horizon + 1  \* an instant the machine has not recorded
NoGeneration == 0  \* none: the generations of the body count from 1

VARIABLES
  links,      \* the links that are up
  joined,     \* the forebrain is associated with the brainstem's network
  alive,      \* the hosts that are running
  boot,       \* per host, its boot_id
  machine,    \* per host, the fields of HostFailover that later ticks read
  role,       \* per host, the advertised role
  seen,       \* per host, the ControllerStatus and the peer it polled last
  body,       \* the brainstem's possession: owner, boot, generation, lease left
  requests,   \* acquisitions under way
  replies,    \* answers under way
  ticked,     \* the hosts that ticked in this unit of time
  faults,     \* faults left
  granted,    \* history: the hosts and boots possession was granted to
  released,   \* history: the last generation released by its owner
  sinceFree   \* history: the time since the body had no owner

history == <<granted, released, sinceFree>>
failoverVars == <<links, joined, alive, boot, machine, role, seen, body, requests,
                  replies, ticked, faults, history>>

Machine0 == [preferredPath |-> TRUE, outage |-> Never, uncontrolled |-> Never,
             preferred |-> Never, attempt |-> Never, generation |-> NoGeneration]
Unknown == [kind |-> "unknown", owner |-> None, boot |-> 0, generation |-> NoGeneration, age |-> Never,
            lease |-> 0, peer |-> Never]

StartWith(up) ==
  /\ links \in SUBSET Links /\ Links \ Fragile \subseteq links /\ joined = FALSE
  /\ alive = up /\ boot = [h \in Hosts |-> 0]
  /\ machine = [h \in Hosts |-> Machine0] /\ role = [h \in Hosts |-> "subordinate"]
  /\ seen = [h \in Hosts |-> Unknown]
  /\ body = [owner |-> None, boot |-> 0, generation |-> 1, lease |-> 0]
  /\ requests = {} /\ replies = {} /\ ticked = {} /\ faults = MaxFaults
  /\ granted = {} /\ released = NoGeneration /\ sinceFree = 0
FailoverInit == StartWith(Hosts)

-----------------------------------------------------------------------------
(* What a host knows: its view is the ConnectivityObservation of a tick,   *)
(* the status it polled and the age of its observation of the peer.        *)

\* Mutant: an owner counts while the observation is recent, its lease unread.
Fresh_NoLease(v) == v.kind # "unknown" /\ v.age <= Freshness
\* Mutant: a status stays fresh whatever its age.
Fresh_AnyAge(v) == v.kind # "unknown" /\ (v.kind = "active" => v.lease > 0)
\* fresh_at: an observation counts while it is recent, an owner's only
\* while the lease it reported runs.
Fresh(v) == /\ v.kind # "unknown" /\ v.age <= Freshness
            /\ v.kind = "active" => v.lease > 0
\* active_owner and fresh_uncontrolled.
OwnerSeen(v) == Fresh(v) /\ v.kind = "active"
FreeSeen(v) == Fresh(v) /\ v.kind = "free"
\* Mutant: the node id alone identifies the owner.
IsSelf_AnyBoot(h, v) == v.owner = h
IsSelf(h, v) == v.owner = h /\ v.boot = boot[h]
Controls(h, v) == OwnerSeen(v) /\ IsSelf(h, v)
OtherControls(h, v) == OwnerSeen(v) /\ ~IsSelf(h, v)

Associated == joined /\ "fore_wifi" \in links
Reaches(h) == IF h = Mother THEN {"usb", "mother_wifi"} \cap links # {} ELSE Associated
PeerFresh(v) == v.peer <= PeerFreshness
ByEthernet(v) == "ethernet" \in links /\ PeerFresh(v)
ByWifi(v) == "ordinary" \in links /\ PeerFresh(v)
ByTransit(v) == Associated /\ "mother_wifi" \in links /\ PeerFresh(v)

\* The host's transports read the possession surface and the peer, each where
\* a link reaches it; else the earlier observation stays.
PeerUp == /\ alive = Hosts
          /\ \/ {"ethernet", "ordinary"} \cap links # {}
             \/ Associated /\ "mother_wifi" \in links
Polled(h) ==
  LET status == [kind |-> IF body.owner = None THEN "free" ELSE "active", owner |-> body.owner,
                 boot |-> body.boot, generation |-> body.generation, age |-> 0,
                 lease |-> body.lease, peer |-> seen[h].peer]
      view == IF Reaches(h) THEN status ELSE seen[h] IN
  IF PeerUp THEN [view EXCEPT !.peer = 0] ELSE view

-----------------------------------------------------------------------------
(* One tick: the machine takes at most one waiting answer.                 *)

Since(age) == IF age = Never THEN 0 ELSE age  \* get_or_insert(now)

\* The decision and what the host does with it before the next tick.
Decide(h, v, answer, m, newRole, act) ==
  /\ machine' = [machine EXCEPT ![h] = m]
  /\ role' = [role EXCEPT ![h] = newRole]
  /\ seen' = [seen EXCEPT ![h] = v]
  /\ replies' = replies \ answer
  /\ requests' = IF act = "attempt"
                 THEN requests \cup {[host |-> h, boot |-> boot[h], generation |-> m.generation]}
                 ELSE requests
  /\ joined' = (joined \/ (act = "join" /\ "fore_wifi" \in links))
  /\ IF act = "release" /\ Reaches(h) /\ body.owner = h /\ body.boot = boot[h]
     THEN /\ body' = [owner |-> None, boot |-> 0, generation |-> body.generation + 1, lease |-> 0]
          /\ released' = body.generation
          /\ sinceFree' = 0
     ELSE UNCHANGED <<body, released, sinceFree>>
  /\ ticked' = ticked \cup {h}
  /\ UNCHANGED <<links, alive, boot, granted>>

\* An answer counts for the outstanding attempt only.
Matching(h, answer) == {r \in answer : r.generation = machine[h].generation}

Granted(h, v, answer, m) ==
  /\ \E r \in Matching(h, answer) : r.result = "granted"
  /\ Decide(h, v, answer, [m EXCEPT !.attempt = Never, !.generation = NoGeneration],
            "controlling", "start")
Declined(h, v, answer, m) ==
  /\ \E r \in Matching(h, answer) : r.result = "refused"
  /\ Decide(h, v, answer, [m EXCEPT !.attempt = 0, !.generation = NoGeneration],
            "subordinate", "wait")
BacksOff(h, v, answer, m) ==
  /\ Matching(h, answer) = {} /\ FreeSeen(v) /\ m.attempt < Backoff
  /\ Decide(h, v, answer, m, "candidate", "observe")
Attempts(h, v, answer, m) ==
  /\ Matching(h, answer) = {} /\ FreeSeen(v) /\ m.attempt >= Backoff
  /\ Decide(h, v, answer, [m EXCEPT !.attempt = 0, !.generation = v.generation],
            "candidate", "attempt")
Acquires(h, v, answer, m) ==
  Granted(h, v, answer, m) \/ Declined(h, v, answer, m)
    \/ BacksOff(h, v, answer, m) \/ Attempts(h, v, answer, m)
\* A host that sees itself own the body has no attempt outstanding.
Settled(m) == [m EXCEPT !.attempt = Never, !.generation = NoGeneration]

\* tick_motherbrain and tick_motherbrain_path.
MotherbrainTick(v, answer) ==
  LET h == Mother
      m == machine[Mother] IN
  \/ OtherControls(h, v) /\ Decide(h, v, answer, m, "subordinate", "wait")
  \/ /\ Controls(h, v) /\ Reaches(h)
     /\ Decide(h, v, answer, Settled(m), "controlling", "continue")
  \/ /\ ~OwnerSeen(v) /\ Reaches(h)
     /\ \/ Acquires(h, v, answer, m)
        \/ /\ Matching(h, answer) = {} /\ ~FreeSeen(v)
           /\ Decide(h, v, answer, m, "candidate", "observe")
  \/ /\ ~OtherControls(h, v) /\ ~Reaches(h)
     /\ Decide(h, v, answer, m, IF Controls(h, v) THEN "controlling" ELSE "unavailable", "observe")

\* Mutant: the release waits for a tick inside the command sequence.
ForebrainControls_Inside(v, answer, boundary) ==
  LET m == [Settled(machine[Fore]) EXCEPT !.preferredPath = FALSE]
      motherReturned == ByEthernet(v) \/ ByWifi(v) \/ ByTransit(v) IN
  /\ Controls(Fore, v)
  /\ \/ motherReturned /\ ~boundary /\ Decide(Fore, v, answer, m, "controlling", "release")
     \/ motherReturned /\ boundary /\ Decide(Fore, v, answer, m, "controlling", "wait")
     \/ ~motherReturned /\ Decide(Fore, v, answer, m, "controlling", "continue")
\* tick_forebrain while it controls: it releases to a motherbrain it sees
\* again, at a safe boundary of its command sequence.
ForebrainControls(v, answer, boundary) ==
  LET m == [Settled(machine[Fore]) EXCEPT !.preferredPath = FALSE]
      motherReturned == ByEthernet(v) \/ ByWifi(v) \/ ByTransit(v) IN
  /\ Controls(Fore, v)
  /\ \/ motherReturned /\ boundary /\ Decide(Fore, v, answer, m, "controlling", "release")
     \/ motherReturned /\ ~boundary /\ Decide(Fore, v, answer, m, "controlling", "wait")
     \/ ~motherReturned /\ Decide(Fore, v, answer, m, "controlling", "continue")

\* The Ethernet peer, trusted again after the hysteresis.
ForebrainPreferred(v, answer) ==
  LET m == [machine[Fore] EXCEPT !.preferred = Since(@)]
      stable == m.preferredPath \/ m.preferred >= Hysteresis IN
  /\ ~Controls(Fore, v) /\ ByEthernet(v)
  /\ \/ stable /\ Decide(Fore, v, answer,
                         [m EXCEPT !.outage = Never, !.uncontrolled = Never,
                                   !.preferredPath = TRUE],
                         "subordinate", "use path")
     \/ ~stable /\ Decide(Fore, v, answer, m, "subordinate", "use path")

\* The ordinary paths, then the brainstem's network and the peer behind it.
ForebrainSearches(v, answer, m) ==
  \/ ByWifi(v) /\ Decide(Fore, v, answer, m, "subordinate", "use path")
  \/ ~ByWifi(v) /\ m.outage < Search /\ Decide(Fore, v, answer, m, "subordinate", "search")
  \/ /\ ~ByWifi(v) /\ m.outage >= Search /\ ~Associated
     /\ Decide(Fore, v, answer, m, "subordinate", "join")
  \/ /\ ~ByWifi(v) /\ m.outage >= Search /\ Associated
     /\ ByTransit(v) \/ ~FreeSeen(v)
     /\ Decide(Fore, v, answer, [m EXCEPT !.uncontrolled = Never], "subordinate", "observe")

\* The last resort: no path to the motherbrain and a body seen without owner.
ForebrainTakesOver(v, answer, before) ==
  LET m == [before EXCEPT !.uncontrolled = Since(@)] IN
  /\ ~ByWifi(v) /\ m.outage >= Search /\ Associated /\ ~ByTransit(v) /\ FreeSeen(v)
  /\ \/ m.uncontrolled < Grace /\ Decide(Fore, v, answer, m, "subordinate", "observe")
     \/ m.uncontrolled >= Grace /\ Acquires(Fore, v, answer, m)

ForebrainTick(v, answer, boundary) ==
  LET m == [machine[Fore] EXCEPT !.preferred = Never, !.outage = Since(@),
                                 !.preferredPath = FALSE] IN
  \/ ForebrainControls(v, answer, boundary)
  \/ ForebrainPreferred(v, answer)
  \/ /\ ~Controls(Fore, v) /\ ~ByEthernet(v)
     /\ ForebrainSearches(v, answer, m) \/ ForebrainTakesOver(v, answer, m)

\* A punctual tick works on what it has just polled and takes an answer that
\* waits; one whose transport is stuck works on the earlier view and may leave
\* the answer.  Getting stuck is a fault, staying stuck is not another.
Tick(h, boundary, lags) ==
  LET waiting == {r \in replies : r.host = h}
      v == IF lags THEN seen[h] ELSE Polled(h) IN
  /\ h \in alive \ ticked
  /\ IF lags /\ seen[h].age <= 1 THEN faults > 0 /\ faults' = faults - 1 ELSE faults' = faults
  /\ \E answer \in SUBSET waiting :
       /\ Cardinality(answer) <= 1 /\ (answer = {} => lags \/ waiting = {})
       /\ IF h = Mother THEN MotherbrainTick(v, answer) ELSE ForebrainTick(v, answer, boundary)

-----------------------------------------------------------------------------
(* The brainstem, time and faults.                                         *)

\* The atomic acquisition: granted while the body is free under the
\* generation the host saw.  An answer to a dead process reaches nobody.
Acquire(q) ==
  LET free == body.owner = None /\ q.generation = body.generation IN
  /\ q \in requests
  /\ requests' = requests \ {q}
  /\ IF free
     THEN /\ body' = [owner |-> q.host, boot |-> q.boot, generation |-> body.generation + 1,
                      lease |-> Lease]
          /\ granted' = granted \cup {<<q.host, q.boot>>}
     ELSE UNCHANGED <<body, granted>>
  /\ replies' = IF q.host \in alive /\ boot[q.host] = q.boot
                THEN replies \cup {[host |-> q.host, generation |-> q.generation,
                                    result |-> IF free THEN "granted" ELSE "refused"]}
                ELSE replies
  /\ UNCHANGED <<links, joined, alive, boot, machine, role, seen, ticked, faults, released,
                 sinceFree>>

Older(age) == IF age < Horizon THEN age + 1 ELSE age
OlderMachine(m) ==
  [m EXCEPT !.outage = Older(@), !.uncontrolled = Older(@), !.preferred = Older(@),
            !.attempt = Older(@)]
OlderView(v) ==
  [v EXCEPT !.age = Older(@), !.lease = IF @ > 0 THEN @ - 1 ELSE 0, !.peer = Older(@)]

\* A host that runs the body-facing role renews its lease over its session.
Renewing == /\ body.owner \in alive /\ boot[body.owner] = body.boot
            /\ role[body.owner] = "controlling" /\ Reaches(body.owner)
OlderBody(renewed) ==
  IF renewed THEN [body EXCEPT !.lease = Lease]
  ELSE IF body.lease > 1 THEN [body EXCEPT !.lease = @ - 1]
  ELSE [owner |-> None, boot |-> 0, generation |-> body.generation + 1, lease |-> 0]

\* A unit of time passes: after every host ticked and every request was
\* answered, or late.
Clock(late) ==
  /\ IF late THEN faults > 0 /\ faults' = faults - 1
             ELSE requests = {} /\ alive \subseteq ticked /\ faults' = faults
  /\ \E renewed \in IF late THEN {Renewing, FALSE} ELSE {Renewing} :
       body' = IF body.owner = None THEN body ELSE OlderBody(renewed)
  /\ machine' = [h \in Hosts |-> OlderMachine(machine[h])]
  /\ seen' = [h \in Hosts |-> OlderView(seen[h])]
  /\ sinceFree' = IF body'.owner = None THEN 0
                  ELSE IF sinceFree <= Freshness THEN sinceFree + 1 ELSE sinceFree
  /\ ticked' = {}
  /\ UNCHANGED <<links, joined, alive, boot, role, requests, replies, granted, released>>

\* A host stops; what it knew and the answers to it are gone.
Crash(h) ==
  /\ h \in alive /\ faults > 0 /\ faults' = faults - 1
  /\ alive' = alive \ {h}
  /\ machine' = [machine EXCEPT ![h] = Machine0]
  /\ role' = [role EXCEPT ![h] = "unavailable"]
  /\ seen' = [seen EXCEPT ![h] = Unknown]
  /\ replies' = {r \in replies : r.host # h}
  /\ joined' = (joined /\ h # Fore)
  /\ ticked' = ticked \ {h}
  /\ UNCHANGED <<links, boot, body, requests, history>>

\* It starts again under a boot_id of its own (HostFailover::new).
Restart(h) ==
  /\ h \notin alive
  /\ alive' = alive \cup {h} /\ boot' = [boot EXCEPT ![h] = @ + 1]
  /\ UNCHANGED <<links, joined, machine, role, seen, body, requests, replies, ticked, faults,
                 history>>

LinkChanges(l) ==
  /\ l \in Fragile /\ faults > 0 /\ faults' = faults - 1
  /\ links' = IF l \in links THEN links \ {l} ELSE links \cup {l}
  /\ joined' = (joined /\ l # "fore_wifi")
  /\ UNCHANGED <<alive, boot, machine, role, seen, body, requests, replies, ticked, history>>

LoseReply(r) ==
  /\ r \in replies /\ faults > 0 /\ faults' = faults - 1
  /\ replies' = replies \ {r}
  /\ UNCHANGED <<links, joined, alive, boot, machine, role, seen, body, requests, ticked,
                 history>>

TickStep == \E h \in Hosts, boundary, lags \in BOOLEAN : Tick(h, boundary, lags)
FailoverNext ==
  \/ TickStep
  \/ \E h \in Hosts : Crash(h) \/ Restart(h)
  \/ \E q \in requests : Acquire(q)
  \/ \E late \in BOOLEAN : Clock(late)
  \/ \E l \in Fragile : LinkChanges(l)
  \/ \E r \in replies : LoseReply(r)

\* Running hosts tick, the brainstem answers, time passes, and safe boundaries
\* recur while the forebrain runs the body.
FailoverFairness ==
  /\ \A h \in Hosts : SF_failoverVars(Tick(h, TRUE, FALSE))
  /\ WF_failoverVars(\E q \in requests : Acquire(q))
  /\ WF_failoverVars(Clock(FALSE))

FailoverSpec == FailoverInit /\ [][FailoverNext]_failoverVars /\ FailoverFairness

-----------------------------------------------------------------------------
(* Properties.                                                             *)

\* Every field holds a value of its type: ages stop at the horizon.
FailoverTypeOK ==
  LET Age == 0 .. Never IN
  /\ links \subseteq Links
  /\ joined \in BOOLEAN /\ (joined => "fore_wifi" \in links /\ Fore \in alive)
  /\ alive \subseteq Hosts /\ ticked \subseteq Hosts /\ boot \in [Hosts -> 0 .. MaxFaults]
  /\ machine \in [Hosts -> [preferredPath : BOOLEAN, outage : Age, uncontrolled : Age,
                            preferred : Age, attempt : Age, generation : Nat]]
  /\ role \in [Hosts -> {"controlling", "subordinate", "candidate", "unavailable"}]
  /\ seen \in [Hosts -> [kind : {"unknown", "free", "active"}, owner : Hosts \cup {None},
                         boot : 0 .. MaxFaults, generation : Nat, age : Age,
                         lease : 0 .. Lease, peer : Age]]
  /\ body \in [owner : Hosts \cup {None}, boot : 0 .. MaxFaults,
               generation : Nat \ {NoGeneration}, lease : 0 .. Lease]
  /\ faults \in 0 .. MaxFaults /\ sinceFree \in 0 .. Freshness + 1

\* A host advertises the controlling role only as the process possession was
\* granted to: the boot identity and the generation keep a restarted host from
\* taking its predecessor's lease, or the answer to it, for its own.
ControlsByGrant == \A h \in Hosts : role[h] = "controlling" => <<h, boot[h]>> \in granted

\* A host that goes on controlling because of what it last saw still has
\* possession, however old the observation is, unless it released it itself:
\* the lease it saw bounds how long it may believe so.
ContinuesOnLease ==
  [][\A h \in ticked' \ ticked : (role'[h] = "controlling" /\ Controls(h, seen'[h]))
       => \/ body.owner = h /\ body.boot = boot[h]
          \/ seen'[h].generation = released]_failoverVars

\* A host asks for a body that had no owner a moment ago: a status that aged on
\* the way, or was overtaken, opens no acquisition.
AsksForFreeBody == [][requests' \subseteq requests \/ sinceFree <= Freshness]_failoverVars

\* The body finds its controller.  With the motherbrain gone for good and the
\* forebrain in reach of the brainstem's network, the forebrain ends up with it.
\* A motherbrain that is back, sees its body link and is seen by the forebrain
\* ends up with it, and the forebrain out of the role.
BodyIsServed ==
  /\ <>[](Mother \notin alive /\ Fore \in alive /\ "fore_wifi" \in links)
       => <>[](body.owner = Fore /\ role[Fore] = "controlling")
  /\ <>[](alive = Hosts /\ Reaches(Mother) /\ "ethernet" \in links)
       => <>[](body.owner = Mother /\ role[Mother] = "controlling" /\ role[Fore] # "controlling")
=============================================================================
