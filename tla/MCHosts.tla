------------------------------- MODULE MCHosts -------------------------------
(***************************************************************************)
(* The hosts' side of the body for TLC: who has the body (HostFailover),   *)
(* the event cursor and the ring it reads (EventRing), a possession's      *)
(* calls (MotherbrainPossession) and the runtime's sleep                   *)
(* (SleepController).  Each keeps its own state in the code, so a          *)
(* behaviour of this module moves one of them, chosen at the start, and    *)
(* leaves the others at rest, both hosts of the failover not yet started.  *)
(***************************************************************************)
EXTENDS HostFailover, EventRing, MotherbrainPossession, SleepController

VARIABLE part  \* the component this behaviour is about

hostsVars == <<part, failoverVars, ringVars, possessionVars, sleepVars>>

HostsInit == /\ part \in {"failover", "ring", "possession", "sleep"}
             /\ StartWith(IF part = "failover" THEN Hosts ELSE {})
             /\ RingInit /\ PossessionInit /\ SleepInit
             /\ part # "failover" => links = Links
             /\ part # "possession" => latched = "none"

OfFailover(step) == /\ part = "failover" /\ step
                    /\ UNCHANGED <<part, ringVars, possessionVars, sleepVars>>
OfRing(step) == /\ part = "ring" /\ step
                /\ UNCHANGED <<part, failoverVars, possessionVars, sleepVars>>
OfPossession(step) == /\ part = "possession" /\ step
                      /\ UNCHANGED <<part, failoverVars, ringVars, sleepVars>>
OfSleep(step) == /\ part = "sleep" /\ step
                 /\ UNCHANGED <<part, failoverVars, ringVars, possessionVars>>
HostsNext == OfFailover(FailoverNext) \/ OfRing(RingNext) \/ OfPossession(PossessionNext)
               \/ OfSleep(SleepNext)

\* The fairness of each specification, for the behaviours of its part.
HostsFairness ==
  /\ \A h \in Hosts : SF_hostsVars(OfFailover(Tick(h, TRUE, FALSE)))
  /\ WF_hostsVars(OfFailover(\E q \in requests : Acquire(q)))
  /\ WF_hostsVars(OfFailover(Clock(FALSE)))
  /\ \A l \in Lanes : WF_hostsVars(OfRing(Record(l)))
  /\ WF_hostsVars(OfRing(AnswerStep \/ Accept \/ Refuse \/ Resync))
  /\ WF_hostsVars(OfPossession(CallStep))
  /\ WF_hostsVars(OfSleep(SleepStep))

\* Every part keeps its types.
HostsTypeOK == FailoverTypeOK /\ RingTypeOK /\ PossessionTypeOK /\ SleepTypeOK

HostsSpec == HostsInit /\ [][HostsNext]_hostsVars /\ HostsFairness
==============================================================================
