--------------------------- MODULE AuthorityProofs ---------------------------
(***************************************************************************)
(* Proofs about BrainstemAuthority, for any hosts, roles, bounds and       *)
(* compile-time features.                                                  *)
(***************************************************************************)
EXTENDS BrainstemAuthority, TLAPS

-----------------------------------------------------------------------------
(* Types.                                                                  *)

\* A command is between the check of its session and its store.
Admitting == {"admit_expiry", "admit_id", "admit_owner", "admit_store"}

\* What the lanes hold in their registers at the points where it is used.
Registers ==
  /\ tpc \in {"hello_publish", "hello_wait"} =>
       tSession \in Sessions /\ helloOf[tSession] \in Hellos
  /\ tpc \in {"lease_publish", "lease_wait", "service_publish", "service_wait"} \cup Admitting =>
       tLease \in Leases
  /\ rpc = "session_ack" => rGeneration \in SessionOrNone
  /\ rpc = "authority_ack" => rGeneration \in LeaseOrNone

TypeInv == TypeOK /\ Registers

\* Generation 0 stands for none, the others are sessions and leases.
LEMMA RangeFacts ==
  /\ 0 \in SessionOrNone /\ Sessions \subseteq SessionOrNone
  /\ 0 \in LeaseOrNone /\ Leases \subseteq LeaseOrNone
  /\ SessionOrNone \subseteq Nat /\ LeaseOrNone \subseteq Nat
  /\ \A l \in LeaseOrNone : l # 0 => l \in Leases
  /\ \A l \in LeaseOrNone : l < MaxLeases => l + 1 \in Leases
BY BoundsAssumption DEF SessionOrNone, Sessions, LeaseOrNone, Leases

\* The initial state has its types.
LEMMA TypeInvInit == Init => TypeInv
BY RangeFacts, BoundsAssumption
   DEF Init, TypeInv, TypeOK, Registers, Admitting, TransportPcs, RuntimePcs, SessionTypes, ReplaceTypes,
       LeaseTypes, TransitionTypes, ServiceTypes, LaneTypes, BodyTypes, HistoryTypes

\* A group of variables that a step leaves alone keeps its types.
LEMMA TypeFrame ==
  ASSUME TypeInv
  PROVE  /\ UNCHANGED sessionVars => SessionTypes'
         /\ UNCHANGED replaceVars => ReplaceTypes'
         /\ UNCHANGED leaseVars => LeaseTypes'
         /\ UNCHANGED transitionVars => TransitionTypes'
         /\ UNCHANGED serviceVars => ServiceTypes'
         /\ UNCHANGED <<transportVars, runtimeVars>> => LaneTypes'
         /\ UNCHANGED <<mailVars, bodyVars>> => BodyTypes'
         /\ UNCHANGED historyVars => HistoryTypes'
         /\ UNCHANGED <<transportVars, runtimeVars, helloOf>> => Registers'
BY DEF TypeInv, TypeOK, Registers, Admitting, SessionTypes, ReplaceTypes, LeaseTypes, TransitionTypes,
       ServiceTypes, LaneTypes, BodyTypes, HistoryTypes, sessionVars, replaceVars, leaseVars,
       transitionVars, serviceVars, transportVars, runtimeVars, mailVars, bodyVars, historyVars

\* Every step of either lane, and every deadline, keeps the types: one step per
\* action, and under it one for each group of variables it changes.
LEMMA TypeInvStep == TypeInv /\ [Next]_vars => TypeInv'
<1> SUFFICES ASSUME TypeInv, [Next]_vars PROVE TypeInv'
  OBVIOUS
<1>0. /\ SessionTypes /\ ReplaceTypes /\ LeaseTypes /\ TransitionTypes /\ ServiceTypes
      /\ LaneTypes /\ BodyTypes /\ HistoryTypes /\ Registers
  BY DEF TypeInv, TypeOK
<1>1. CASE UNCHANGED vars
  BY <1>1, TypeFrame DEF TypeInv, TypeOK, vars, sessionVars
<1>2. CASE Request
  <2>1. ASSUME NEW h \in Hellos, Hello(h) PROVE TypeInv'
    <3>1. SessionTypes'
      BY <1>0, <2>1, RangeFacts DEF Hello, SessionTypes, sessionVars
    <3>2. ReplaceTypes'
      BY <1>0, <2>1, RangeFacts DEF Hello, ReplaceTypes, Registers, Admitting, replaceVars
    <3>3. LaneTypes'
      BY <1>0, <2>1, RangeFacts DEF Hello, LaneTypes, TransportPcs, RuntimePcs, Registers,
         ReplaceTypes, TransitionTypes, transportVars, runtimeVars
    <3>4. Registers'
      BY <1>0, <2>1, RangeFacts DEF Hello, Registers, Admitting, sessionVars, transportVars,
         runtimeVars,
         LaneTypes, ReplaceTypes, TransitionTypes, SessionTypes
    <3> QED
      BY <2>1, <3>1, <3>2, <3>3, <3>4, TypeFrame DEF Hello, TypeInv, TypeOK
  <2>2. ASSUME NEW s \in Sessions, AcquireControl(s) PROVE TypeInv'
    <3>1. LeaseTypes'
      BY <1>0, <2>2, RangeFacts DEF AcquireControl, RequestTransition, LeaseTypes,
         TransitionTypes, leaseVars
    <3>2. TransitionTypes'
      BY <1>0, <2>2, RangeFacts DEF AcquireControl, RequestTransition, TransitionTypes,
         Registers, Admitting, LaneTypes, transitionVars
    <3>3. LaneTypes'
      BY <1>0, <2>2, RangeFacts DEF AcquireControl, RequestTransition, LaneTypes,
         TransportPcs, RuntimePcs, Registers, Admitting, ReplaceTypes, TransitionTypes,
         transportVars, runtimeVars
    <3>4. HistoryTypes'
      BY <1>0, <2>2, RangeFacts DEF AcquireControl, RequestTransition, HistoryTypes,
         Registers, Admitting, LeaseTypes, BodyTypes, TransitionTypes, LaneTypes, historyVars
    <3>5. Registers'
      BY <1>0, <2>2, RangeFacts DEF AcquireControl, RequestTransition, Registers,
         sessionVars, transportVars, runtimeVars,
         LaneTypes, ReplaceTypes, TransitionTypes, SessionTypes
    <3> QED
      BY <2>2, <3>1, <3>2, <3>3, <3>4, <3>5, TypeFrame DEF AcquireControl,
         RequestTransition, TypeInv, TypeOK
  <2>3. ASSUME NEW s \in Sessions, AcquireService(s) PROVE TypeInv'
    <3>1. LeaseTypes'
      BY <1>0, <2>3, RangeFacts DEF AcquireService, RequestTransition, LeaseTypes,
         TransitionTypes, leaseVars
    <3>2. TransitionTypes'
      BY <1>0, <2>3, RangeFacts DEF AcquireService, RequestTransition, TransitionTypes,
         Registers, Admitting, LaneTypes, transitionVars
    <3>3. LaneTypes'
      BY <1>0, <2>3, RangeFacts DEF AcquireService, RequestTransition, LaneTypes,
         TransportPcs, RuntimePcs, Registers, Admitting, ReplaceTypes, TransitionTypes,
         transportVars, runtimeVars
    <3>4. Registers'
      BY <1>0, <2>3, RangeFacts DEF AcquireService, RequestTransition, Registers,
         sessionVars, transportVars, runtimeVars,
         LaneTypes, ReplaceTypes, TransitionTypes, SessionTypes
    <3> QED
      BY <2>3, <3>1, <3>2, <3>3, <3>4, TypeFrame DEF AcquireService, RequestTransition,
         TypeInv, TypeOK
  <2>4. ASSUME NEW l \in Leases, Command(l) PROVE TypeInv'
    <3>1. LaneTypes'
      BY <1>0, <2>4, RangeFacts DEF Command, LaneTypes,
         TransportPcs, RuntimePcs, Registers, Admitting, HistoryTypes, transportVars, runtimeVars
    <3>2. HistoryTypes'
      BY <1>0, <2>4, RangeFacts DEF Command, HistoryTypes, historyVars
    <3>3. Registers'
      BY <1>0, <2>4, RangeFacts DEF Command, Registers, Admitting, sessionVars,
         transportVars, runtimeVars, LaneTypes
    <3> QED
      BY <2>4, <3>1, <3>2, <3>3, TypeFrame DEF Command,
         TypeInv, TypeOK
  <2> QED
    BY <1>2, <2>1, <2>2, <2>3, <2>4 DEF Request
<1>3. CASE TransportStep
  <2>1. CASE HelloPublish
    <3>1. ReplaceTypes'
      BY <1>0, <2>1, RangeFacts DEF HelloPublish, ReplaceTypes, Registers, Admitting, replaceVars
    <3>2. LaneTypes'
      BY <1>0, <2>1, RangeFacts DEF HelloPublish, LaneTypes, TransportPcs, RuntimePcs,
         Registers, Admitting, ReplaceTypes, TransitionTypes, transportVars, runtimeVars
    <3>3. Registers'
      BY <1>0, <2>1, RangeFacts DEF HelloPublish, Registers, Admitting, sessionVars, transportVars,
         runtimeVars,
         LaneTypes, ReplaceTypes, TransitionTypes, SessionTypes
    <3> QED
      BY <2>1, <3>1, <3>2, <3>3, TypeFrame DEF HelloPublish, TypeInv, TypeOK
  <2>2. CASE HelloReply
    <3>1. ReplaceTypes'
      BY <1>0, <2>2, RangeFacts, HelloAssumption DEF HelloReply, Answered, ReplaceTypes, Registers,
         replaceVars
    <3>2. LaneTypes'
      BY <1>0, <2>2, RangeFacts DEF HelloReply, Answered, LaneTypes, TransportPcs, RuntimePcs,
         Registers, Admitting, ReplaceTypes, TransitionTypes, transportVars, runtimeVars
    <3>3. Registers'
      BY <1>0, <2>2, RangeFacts DEF HelloReply, Answered, Registers, Admitting, sessionVars, transportVars,
         runtimeVars,
         LaneTypes, ReplaceTypes, TransitionTypes, SessionTypes
    <3> QED
      BY <2>2, <3>1, <3>2, <3>3, TypeFrame DEF HelloReply, Answered, TypeInv, TypeOK
  <2>3. CASE HelloTimeout
    <3>1. LaneTypes'
      BY <1>0, <2>3, RangeFacts DEF HelloTimeout, Answered, LaneTypes, TransportPcs, RuntimePcs,
         Registers, Admitting, ReplaceTypes, TransitionTypes, transportVars, runtimeVars
    <3>2. Registers'
      BY <1>0, <2>3, RangeFacts DEF HelloTimeout, Answered, Registers, Admitting, sessionVars, transportVars,
         runtimeVars,
         LaneTypes, ReplaceTypes, TransitionTypes, SessionTypes
    <3> QED
      BY <2>3, <3>1, <3>2, TypeFrame DEF HelloTimeout, Answered, TypeInv, TypeOK
  <2>4. CASE PublishTransition
    <3>1. TransitionTypes'
      BY <1>0, <2>4, RangeFacts DEF PublishTransition, TransitionTypes, Registers,
         LaneTypes, transitionVars
    <3>2. LaneTypes'
      BY <1>0, <2>4, RangeFacts DEF PublishTransition, LaneTypes, TransportPcs,
         RuntimePcs, Registers, Admitting, ReplaceTypes, TransitionTypes, transportVars, runtimeVars
    <3>3. Registers'
      BY <1>0, <2>4, RangeFacts DEF PublishTransition, Registers, Admitting, sessionVars,
         transportVars, runtimeVars,
         LaneTypes, ReplaceTypes, TransitionTypes, SessionTypes
    <3> QED
      BY <2>4, <3>1, <3>2, <3>3, TypeFrame DEF PublishTransition, TypeInv, TypeOK
  <2>5. CASE LeaseGranted
    <3>1. LaneTypes'
      BY <1>0, <2>5, RangeFacts DEF LeaseGranted, Answered, LaneTypes, TransportPcs, RuntimePcs,
         Registers, Admitting, ReplaceTypes, TransitionTypes, transportVars, runtimeVars
    <3>2. HistoryTypes'
      BY <1>0, <2>5, RangeFacts DEF LeaseGranted, Answered, HistoryTypes, Registers, Admitting, LeaseTypes,
         BodyTypes, TransitionTypes, LaneTypes, historyVars
    <3>3. Registers'
      BY <1>0, <2>5, RangeFacts DEF LeaseGranted, Answered, Registers, Admitting, sessionVars, transportVars,
         runtimeVars,
         LaneTypes, ReplaceTypes, TransitionTypes, SessionTypes
    <3> QED
      BY <2>5, <3>1, <3>2, <3>3, TypeFrame DEF LeaseGranted, Answered, TypeInv, TypeOK
  <2>6. CASE ServiceGranted
    <3>1. ServiceTypes'
      BY <1>0, <2>6, RangeFacts DEF ServiceGranted, Answered, ServiceTypes, Registers, Admitting, LaneTypes,
         serviceVars
    <3>2. LaneTypes'
      BY <1>0, <2>6, RangeFacts DEF ServiceGranted, Answered, LaneTypes, TransportPcs, RuntimePcs,
         Registers, Admitting, ReplaceTypes, TransitionTypes, transportVars, runtimeVars
    <3>3. Registers'
      BY <1>0, <2>6, RangeFacts DEF ServiceGranted, Answered, Registers, Admitting, sessionVars, transportVars,
         runtimeVars,
         LaneTypes, ReplaceTypes, TransitionTypes, SessionTypes
    <3> QED
      BY <2>6, <3>1, <3>2, <3>3, TypeFrame DEF ServiceGranted, Answered, TypeInv, TypeOK
  <2>7. CASE TransitionTimeout
    <3>1. LaneTypes'
      BY <1>0, <2>7, RangeFacts DEF TransitionTimeout, Answered, LaneTypes, TransportPcs,
         RuntimePcs, Registers, Admitting, ReplaceTypes, TransitionTypes, transportVars, runtimeVars
    <3>2. Registers'
      BY <1>0, <2>7, RangeFacts DEF TransitionTimeout, Answered, Registers, Admitting, sessionVars,
         transportVars, runtimeVars,
         LaneTypes, ReplaceTypes, TransitionTypes, SessionTypes
    <3> QED
      BY <2>7, <3>1, <3>2, TypeFrame DEF TransitionTimeout, Answered, TypeInv, TypeOK
  <2>8. CASE Check
    <3>1. LaneTypes'
      BY <1>0, <2>8, RangeFacts DEF Check, Answered, AfterLoad, LaneTypes,
         TransportPcs, RuntimePcs, Registers, Admitting, HistoryTypes, transportVars, runtimeVars
    <3>2. HistoryTypes'
      BY <1>0, <2>8, RangeFacts DEF Check, Answered, AfterLoad, HistoryTypes, historyVars
    <3>3. Registers'
      BY <1>0, <2>8, RangeFacts DEF Check, Answered, AfterLoad, Registers, Admitting, sessionVars,
         transportVars, runtimeVars, LaneTypes
    <3> QED
      BY <2>8, <3>1, <3>2, <3>3, TypeFrame DEF Check, Answered, AfterLoad,
         TypeInv, TypeOK
  <2>9. CASE SubmitMotion
    <3>1. LaneTypes'
      BY <1>0, <2>9, RangeFacts DEF SubmitMotion, Answered, LaneTypes,
         TransportPcs, RuntimePcs, Registers, Admitting, HistoryTypes, transportVars, runtimeVars
    <3>2. BodyTypes'
      BY <1>0, <2>9, RangeFacts DEF SubmitMotion, Answered, BodyTypes, LaneTypes,
         mailVars, bodyVars
    <3>3. HistoryTypes'
      BY <1>0, <2>9, RangeFacts DEF SubmitMotion, Answered, HistoryTypes, historyVars
    <3>4. Registers'
      BY <1>0, <2>9, RangeFacts DEF SubmitMotion, Answered, Registers, Admitting, sessionVars,
         transportVars, runtimeVars, LaneTypes
    <3> QED
      BY <2>9, <3>1, <3>2, <3>3, <3>4, TypeFrame DEF SubmitMotion, Answered,
         TypeInv, TypeOK
  <2>10. CASE SubmitHeartbeat
    <3>1. LaneTypes'
      BY <1>0, <2>10, RangeFacts DEF SubmitHeartbeat, Answered, LaneTypes,
         TransportPcs, RuntimePcs, Registers, Admitting, HistoryTypes, transportVars, runtimeVars
    <3>2. BodyTypes'
      BY <1>0, <2>10, RangeFacts DEF SubmitHeartbeat, Answered, BodyTypes, LaneTypes,
         mailVars, bodyVars
    <3>3. HistoryTypes'
      BY <1>0, <2>10, RangeFacts DEF SubmitHeartbeat, Answered, HistoryTypes, historyVars
    <3>4. Registers'
      BY <1>0, <2>10, RangeFacts DEF SubmitHeartbeat, Answered, Registers, Admitting, sessionVars,
         transportVars, runtimeVars, LaneTypes
    <3> QED
      BY <2>10, <3>1, <3>2, <3>3, <3>4, TypeFrame DEF SubmitHeartbeat, Answered,
         TypeInv, TypeOK
  <2> QED
    BY <1>3, <2>1, <2>2, <2>3, <2>4, <2>5, <2>6, <2>7,
       <2>8, <2>9, <2>10 DEF TransportStep
<1>4. CASE RuntimeStep
  <2>1. CASE PollSessionReplace
    <3>1. LaneTypes'
      BY <1>0, <2>1, RangeFacts DEF PollSessionReplace, StopBody, KeepBody, LaneTypes,
         TransportPcs, RuntimePcs, Registers, Admitting, ReplaceTypes, TransitionTypes,
         transportVars, runtimeVars
    <3>2. BodyTypes'
      BY <1>0, <2>1, RangeFacts DEF PollSessionReplace, StopBody, KeepBody, BodyTypes,
         mailVars, bodyVars
    <3>3. HistoryTypes'
      BY <1>0, <2>1, RangeFacts DEF PollSessionReplace, StopBody, KeepBody, HistoryTypes,
         Registers, Admitting, LeaseTypes, BodyTypes, TransitionTypes, LaneTypes, historyVars
    <3>4. Registers'
      BY <1>0, <2>1, RangeFacts DEF PollSessionReplace, StopBody, KeepBody, Registers,
         sessionVars, transportVars, runtimeVars,
         LaneTypes, ReplaceTypes, TransitionTypes, SessionTypes
    <3> QED
      BY <2>1, <3>1, <3>2, <3>3, <3>4, TypeFrame DEF PollSessionReplace, StopBody,
         KeepBody, TypeInv, TypeOK
  <2>2. CASE AcknowledgeSession
    <3>1. ReplaceTypes'
      BY <1>0, <2>2, RangeFacts DEF AcknowledgeSession, ReplaceTypes, Registers, Admitting, replaceVars
    <3>2. LaneTypes'
      BY <1>0, <2>2, RangeFacts DEF AcknowledgeSession, LaneTypes, TransportPcs,
         RuntimePcs, Registers, Admitting, ReplaceTypes, TransitionTypes, transportVars, runtimeVars
    <3>3. Registers'
      BY <1>0, <2>2, RangeFacts DEF AcknowledgeSession, Registers, Admitting, sessionVars,
         transportVars, runtimeVars,
         LaneTypes, ReplaceTypes, TransitionTypes, SessionTypes
    <3> QED
      BY <2>2, <3>1, <3>2, <3>3, TypeFrame DEF AcknowledgeSession, TypeInv, TypeOK
  <2>3. CASE RevokeForSession
    <3>1. LeaseTypes'
      BY <1>0, <2>3, RangeFacts DEF RevokeForSession, LeaseTypes, TransitionTypes, leaseVars
    <3>2. ServiceTypes'
      BY <1>0, <2>3, RangeFacts DEF RevokeForSession, ServiceTypes, Registers, Admitting, LaneTypes,
         serviceVars
    <3>3. LaneTypes'
      BY <1>0, <2>3, RangeFacts DEF RevokeForSession, LaneTypes, TransportPcs, RuntimePcs,
         Registers, Admitting, ReplaceTypes, TransitionTypes, transportVars, runtimeVars
    <3>4. Registers'
      BY <1>0, <2>3, RangeFacts DEF RevokeForSession, Registers, Admitting, sessionVars,
         transportVars, runtimeVars,
         LaneTypes, ReplaceTypes, TransitionTypes, SessionTypes
    <3> QED
      BY <2>3, <3>1, <3>2, <3>3, <3>4, TypeFrame DEF RevokeForSession, TypeInv, TypeOK
  <2>4. CASE PollAuthorityTransition
    <3>1. LaneTypes'
      BY <1>0, <2>4, RangeFacts DEF PollAuthorityTransition, StopBody, KeepBody,
         LaneTypes, TransportPcs, RuntimePcs, Registers, Admitting, ReplaceTypes, TransitionTypes,
         transportVars, runtimeVars
    <3>2. BodyTypes'
      BY <1>0, <2>4, RangeFacts DEF PollAuthorityTransition, StopBody, KeepBody,
         BodyTypes, mailVars, bodyVars
    <3>3. HistoryTypes'
      BY <1>0, <2>4, RangeFacts DEF PollAuthorityTransition, StopBody, KeepBody,
         HistoryTypes, Registers, Admitting, LeaseTypes, BodyTypes, TransitionTypes, LaneTypes,
         historyVars
    <3>4. Registers'
      BY <1>0, <2>4, RangeFacts DEF PollAuthorityTransition, StopBody, KeepBody,
         Registers, Admitting, sessionVars, transportVars, runtimeVars,
         LaneTypes, ReplaceTypes, TransitionTypes, SessionTypes
    <3> QED
      BY <2>4, <3>1, <3>2, <3>3, <3>4, TypeFrame DEF PollAuthorityTransition, StopBody,
         KeepBody, TypeInv, TypeOK
  <2>5. CASE AcknowledgeAuthority
    <3>1. LeaseTypes'
      BY <1>0, <2>5, RangeFacts DEF AcknowledgeAuthority, LeaseTypes, TransitionTypes,
         leaseVars
    <3>2. TransitionTypes'
      BY <1>0, <2>5, RangeFacts DEF AcknowledgeAuthority, TransitionTypes, Registers,
         LaneTypes, transitionVars
    <3>3. ServiceTypes'
      BY <1>0, <2>5, RangeFacts DEF AcknowledgeAuthority, ServiceTypes, Registers,
         LaneTypes, serviceVars
    <3>4. LaneTypes'
      BY <1>0, <2>5, RangeFacts DEF AcknowledgeAuthority, LaneTypes, TransportPcs,
         RuntimePcs, Registers, Admitting, ReplaceTypes, TransitionTypes, transportVars, runtimeVars
    <3>5. Registers'
      BY <1>0, <2>5, RangeFacts DEF AcknowledgeAuthority, Registers, Admitting, sessionVars,
         transportVars, runtimeVars,
         LaneTypes, ReplaceTypes, TransitionTypes, SessionTypes
    <3> QED
      BY <2>5, <3>1, <3>2, <3>3, <3>4, <3>5, TypeFrame DEF AcknowledgeAuthority, TypeInv,
         TypeOK
  <2>6. CASE TakeCommand
    <3>1. LaneTypes'
      BY <1>0, <2>6, RangeFacts DEF TakeCommand, KeepBody, LaneTypes, TransportPcs,
         RuntimePcs, Registers, Admitting, ReplaceTypes, TransitionTypes, mailVars, transportVars,
         runtimeVars
    <3>2. BodyTypes'
      BY <1>0, <2>6, RangeFacts DEF TakeCommand, KeepBody, BodyTypes, mailVars, bodyVars
    <3>3. Registers'
      BY <1>0, <2>6, RangeFacts DEF TakeCommand, KeepBody, Registers, Admitting, sessionVars,
         transportVars, runtimeVars,
         LaneTypes, ReplaceTypes, TransitionTypes, SessionTypes
    <3> QED
      BY <2>6, <3>1, <3>2, <3>3, TypeFrame DEF TakeCommand, KeepBody, TypeInv, TypeOK
  <2>7. CASE EnforceSafety
    <3>1. LaneTypes'
      BY <1>0, <2>7, RangeFacts DEF EnforceSafety, KeepBody, LaneTypes, TransportPcs,
         RuntimePcs, Registers, Admitting, ReplaceTypes, TransitionTypes, transportVars, runtimeVars
    <3>2. BodyTypes'
      BY <1>0, <2>7, RangeFacts DEF EnforceSafety, KeepBody, BodyTypes, mailVars, bodyVars
    <3>3. Registers'
      BY <1>0, <2>7, RangeFacts DEF EnforceSafety, KeepBody, Registers, Admitting, sessionVars,
         transportVars, runtimeVars,
         LaneTypes, ReplaceTypes, TransitionTypes, SessionTypes
    <3> QED
      BY <2>7, <3>1, <3>2, <3>3, TypeFrame DEF EnforceSafety, KeepBody, TypeInv, TypeOK
  <2>8. CASE EnforceHeartbeat
    <3>1. LeaseTypes'
      BY <1>0, <2>8, RangeFacts DEF EnforceHeartbeat, StopBody, KeepBody, LeaseTypes,
         TransitionTypes, leaseVars
    <3>2. LaneTypes'
      BY <1>0, <2>8, RangeFacts DEF EnforceHeartbeat, StopBody, KeepBody, LaneTypes,
         TransportPcs, RuntimePcs, Registers, Admitting, ReplaceTypes, TransitionTypes, leaseVars,
         transportVars, runtimeVars
    <3>3. BodyTypes'
      BY <1>0, <2>8, RangeFacts DEF EnforceHeartbeat, StopBody, KeepBody, BodyTypes,
         leaseVars, mailVars, bodyVars
    <3>4. Registers'
      BY <1>0, <2>8, RangeFacts DEF EnforceHeartbeat, StopBody, KeepBody, Registers,
         sessionVars, transportVars, runtimeVars,
         LaneTypes, ReplaceTypes, TransitionTypes, SessionTypes
    <3> QED
      BY <2>8, <3>1, <3>2, <3>3, <3>4, TypeFrame DEF EnforceHeartbeat, StopBody, KeepBody,
         TypeInv, TypeOK
  <2>9. CASE CheckExpiry
    <3>1. LaneTypes'
      BY <1>0, <2>9, RangeFacts DEF CheckExpiry, LaneTypes, TransportPcs, RuntimePcs,
         Registers, Admitting, ReplaceTypes, TransitionTypes, transportVars, runtimeVars
    <3>2. Registers'
      BY <1>0, <2>9, RangeFacts DEF CheckExpiry, Registers, Admitting, sessionVars, transportVars,
         runtimeVars,
         LaneTypes, ReplaceTypes, TransitionTypes, SessionTypes
    <3> QED
      BY <2>9, <3>1, <3>2, TypeFrame DEF CheckExpiry, TypeInv, TypeOK
  <2>10. CASE RevokeExpired
    <3>1. LeaseTypes'
      BY <1>0, <2>10, RangeFacts DEF RevokeExpired, StopBody, LeaseTypes, TransitionTypes,
         leaseVars
    <3>2. LaneTypes'
      BY <1>0, <2>10, RangeFacts DEF RevokeExpired, StopBody, LaneTypes, TransportPcs,
         RuntimePcs, Registers, Admitting, ReplaceTypes, TransitionTypes, transportVars, runtimeVars
    <3>3. BodyTypes'
      BY <1>0, <2>10, RangeFacts DEF RevokeExpired, StopBody, BodyTypes, mailVars, bodyVars
    <3>4. Registers'
      BY <1>0, <2>10, RangeFacts DEF RevokeExpired, StopBody, Registers, Admitting, sessionVars,
         transportVars, runtimeVars,
         LaneTypes, ReplaceTypes, TransitionTypes, SessionTypes
    <3> QED
      BY <2>10, <3>1, <3>2, <3>3, <3>4, TypeFrame DEF RevokeExpired, StopBody, TypeInv,
         TypeOK
  <2>11. CASE RunMotion
    <3>1. LaneTypes'
      BY <1>0, <2>11, RangeFacts DEF RunMotion, LaneTypes, TransportPcs, RuntimePcs,
         Registers, Admitting, ReplaceTypes, TransitionTypes, transportVars, runtimeVars
    <3>2. BodyTypes'
      BY <1>0, <2>11, RangeFacts DEF RunMotion, BodyTypes, mailVars, bodyVars
    <3>3. Registers'
      BY <1>0, <2>11, RangeFacts DEF RunMotion, Registers, Admitting, sessionVars, transportVars,
         runtimeVars,
         LaneTypes, ReplaceTypes, TransitionTypes, SessionTypes
    <3> QED
      BY <2>11, <3>1, <3>2, <3>3, TypeFrame DEF RunMotion, TypeInv, TypeOK
  <2> QED
    BY <1>4, <2>1, <2>2, <2>3, <2>4, <2>5, <2>6, <2>7, <2>8, <2>9, <2>10,
       <2>11 DEF RuntimeStep
<1>5. CASE Clock
  <2>1. CASE Expire
    <3>1. LeaseTypes'
      BY <1>0, <2>1, RangeFacts DEF Expire, LeaseTypes, TransitionTypes, leaseVars
    <3>2. HistoryTypes'
      BY <1>0, <2>1, RangeFacts DEF Expire, HistoryTypes, Registers, Admitting, LeaseTypes,
         BodyTypes, TransitionTypes, LaneTypes, historyVars
    <3>3. Registers'
      BY <1>0, <2>1, RangeFacts DEF Expire, Registers, Admitting, sessionVars, transportVars,
         runtimeVars,
         LaneTypes, ReplaceTypes, TransitionTypes, SessionTypes
    <3> QED
      BY <2>1, <3>1, <3>2, <3>3, TypeFrame DEF Expire, TypeInv, TypeOK
  <2>2. CASE ServiceExpire
    <3>1. ServiceTypes'
      BY <1>0, <2>2, RangeFacts DEF ServiceExpire, ServiceTypes, Registers, Admitting, LaneTypes,
         serviceVars
    <3>2. Registers'
      BY <1>0, <2>2, RangeFacts DEF ServiceExpire, Registers, Admitting, sessionVars, transportVars,
         runtimeVars,
         LaneTypes, ReplaceTypes, TransitionTypes, SessionTypes
    <3> QED
      BY <2>2, <3>1, <3>2, TypeFrame DEF ServiceExpire, TypeInv, TypeOK
  <2>3. CASE MotionDue
    <3>1. BodyTypes'
      BY <1>0, <2>3, RangeFacts DEF MotionDue, BodyTypes, mailVars, bodyVars
    <3>2. Registers'
      BY <1>0, <2>3, RangeFacts DEF MotionDue, Registers, Admitting, sessionVars, transportVars,
         runtimeVars,
         LaneTypes, ReplaceTypes, TransitionTypes, SessionTypes
    <3> QED
      BY <2>3, <3>1, <3>2, TypeFrame DEF MotionDue, TypeInv, TypeOK
  <2> QED
    BY <1>5, <2>1, <2>2, <2>3 DEF Clock
<1> QED
  BY <1>1, <1>2, <1>3, <1>4, <1>5 DEF Next

\* Each load of the check refuses the command or passes to the next one.
LEMMA CheckLoads ==
  ASSUME Check
  PROVE  \/ tpc \in Admitting /\ tpc' = "idle" /\ tSession' = 0 /\ tLease' = 0 /\ late' = FALSE
         \/ /\ UNCHANGED <<tSession, tLease, late>>
            /\ \/ tpc = "admit_expiry" /\ leaseLive /\ tpc' = "admit_id"
               \/ tpc = "admit_id" /\ leaseId = tLease /\ tpc' = "admit_owner"
               \/ tpc = "admit_owner" /\ leaseSession = tSession /\ tpc' = "admit_store"
<1>1. tpc \in {"admit_expiry", "admit_id", "admit_owner"}
  BY DEF Check, AfterLoad
<1>2. CASE ~Passes
  BY <1>1, <1>2 DEF Check, Answered, Admitting
<1>3. CASE tpc = "admit_expiry" /\ Passes
  BY <1>3 DEF Check, AfterLoad, Passes
<1>4. CASE tpc = "admit_id" /\ Passes
  BY <1>4 DEF Check, AfterLoad, Passes
<1>5. CASE tpc = "admit_owner" /\ Passes
  BY <1>5 DEF Check, AfterLoad, Passes
<1> QED  BY <1>1, <1>2, <1>3, <1>4, <1>5

\* The sessions, leases and owners of every reachable state have their types.
THEOREM AuthorityTypeCorrect == Spec => []TypeOK
<1>1. TypeInv => TypeOK
  BY DEF TypeInv
<1> QED
  BY TypeInvInit, TypeInvStep, <1>1, PTL DEF Spec

-----------------------------------------------------------------------------
(* A service lease excludes the control lease.                             *)

\* Generations are handed out in increasing order, so a request that is still
\* to be published is newer than anything requested, acknowledged or about to
\* be acknowledged; a request that waits for a service barrier has an empty
\* pending lease, which is what its acknowledgement installs.
Generations ==
  /\ authGeneration \in Nat /\ authRequest \in Nat /\ authAck \in Nat
  /\ authRequest <= authGeneration /\ authAck <= authGeneration
  /\ \A l \in granted \cup {tLease} : l \in Nat /\ l <= authGeneration
  /\ rpc = "authority_ack" => rGeneration \in Nat /\ rGeneration <= authGeneration

BarrierUnpublished ==
  tpc = "service_publish" =>
    /\ pendLease = 0
    /\ authRequest < tLease /\ authAck < tLease
    /\ rpc = "authority_ack" => rGeneration < tLease

BarrierWaiting ==
  tpc = "service_wait" => pendLease = 0 /\ (authAck = tLease => leaseId = 0)

ServiceInv ==
  Generations /\ BarrierUnpublished /\ BarrierWaiting /\ ServiceExcludesControl

\* The initial state has no request, no lease and no service lease.
LEMMA ServiceInvInit == Init => ServiceInv
BY DEF Init, ServiceInv, Generations, BarrierUnpublished, BarrierWaiting,
       ServiceExcludesControl

\* Every step of either lane keeps the invariant.
LEMMA ServiceInvStep == ServiceInv /\ [Next]_vars => ServiceInv'
<1> SUFFICES ASSUME ServiceInv, [Next]_vars PROVE ServiceInv'
  OBVIOUS
<1> USE DEF ServiceInv, Generations, BarrierUnpublished, BarrierWaiting,
            ServiceExcludesControl, vars, sessionVars, replaceVars, leaseVars,
            transitionVars, serviceVars, transportVars, runtimeVars, mailVars, bodyVars,
            historyVars
<1>1. CASE UNCHANGED vars
  BY <1>1
<1>2. CASE Request
  <2>1. ASSUME NEW h \in Hellos, Hello(h) PROVE ServiceInv'
    BY <2>1 DEF Hello
  <2>2. ASSUME NEW s \in Sessions, AcquireControl(s) PROVE ServiceInv'
    BY <2>2 DEF AcquireControl, RequestTransition
  <2>3. ASSUME NEW s \in Sessions, AcquireService(s) PROVE ServiceInv'
    BY <2>3 DEF AcquireService, RequestTransition
  <2>4. ASSUME NEW l \in Leases, Command(l) PROVE ServiceInv'
    BY <2>4 DEF Command
  <2> QED
    BY <1>2, <2>1, <2>2, <2>3, <2>4 DEF Request
<1>3. CASE TransportStep
  <2>1. CASE HelloPublish \/ HelloReply \/ HelloTimeout
    BY <2>1 DEF HelloPublish, HelloReply, HelloTimeout, Answered
  <2>2. CASE PublishTransition
    BY <2>2 DEF PublishTransition
  <2>3. CASE LeaseGranted
    BY <2>3 DEF LeaseGranted, Answered
  <2>4. CASE ServiceGranted
    BY <2>4 DEF ServiceGranted, Answered
  <2>5. CASE TransitionTimeout
    BY <2>5 DEF TransitionTimeout, Answered
  <2>6. CASE Check \/ SubmitMotion \/ SubmitHeartbeat
    BY <2>6 DEF Check, SubmitMotion, SubmitHeartbeat, Answered, AfterLoad
  <2> QED
    BY <1>3, <2>1, <2>2, <2>3, <2>4, <2>5, <2>6 DEF TransportStep
<1>4. CASE RuntimeStep
  <2>1. CASE PollSessionReplace
    BY <2>1 DEF PollSessionReplace, StopBody, KeepBody
  <2>2. CASE AcknowledgeSession
    BY <2>2 DEF AcknowledgeSession
  <2>3. CASE RevokeForSession
    BY <2>3 DEF RevokeForSession
  <2>4. CASE PollAuthorityTransition
    BY <2>4 DEF PollAuthorityTransition, StopBody, KeepBody
  <2>5. CASE AcknowledgeAuthority
    BY <2>5 DEF AcknowledgeAuthority
  <2>6. CASE TakeCommand
    BY <2>6 DEF TakeCommand, KeepBody
  <2>7. CASE EnforceSafety
    BY <2>7 DEF EnforceSafety, KeepBody
  <2>8. CASE EnforceHeartbeat
    BY <2>8 DEF EnforceHeartbeat, StopBody, KeepBody
  <2>9. CASE CheckExpiry
    BY <2>9 DEF CheckExpiry
  <2>10. CASE RevokeExpired
    BY <2>10 DEF RevokeExpired, StopBody
  <2>11. CASE RunMotion
    BY <2>11 DEF RunMotion
  <2> QED
    BY <1>4, <2>1, <2>2, <2>3, <2>4, <2>5, <2>6, <2>7, <2>8, <2>9, <2>10, <2>11
       DEF RuntimeStep
<1>5. CASE Clock
  BY <1>5 DEF Clock, Expire, ServiceExpire, MotionDue
<1> QED
  BY <1>1, <1>2, <1>3, <1>4, <1>5 DEF Next

\* acquiring a service lease "revokes the control lease", and a control lease
\* acknowledged later revokes the service lease, even if requests of either
\* kind time out and are acknowledged after the host was told they failed.
THEOREM ServiceNeverWithControl == Spec => []ServiceExcludesControl
<1>1. ServiceInv => ServiceExcludesControl
  BY DEF ServiceInv
<1> QED
  BY ServiceInvInit, ServiceInvStep, <1>1, PTL DEF Spec

-----------------------------------------------------------------------------
(* The lease changes hands over a stopped body, when no wait runs out.     *)

\* A request is outstanding only while the transport lane waits for it, so
\* nothing can replace the pending lease between the runtime's decision
\* whether to stop the body and its acknowledgement.
OutstandingIsAwaited ==
  authRequest # authAck => tpc \in {"lease_wait", "service_wait"} /\ authRequest = tLease

DecidedIsAwaited ==
  rpc = "authority_ack" => rGeneration = authRequest /\ authRequest # authAck

StoppedForNewOwner ==
  rpc = "authority_ack" =>
    leaseSession = pendLeaseSession \/ withdrawal \/ (moving = 0 /\ queued = {})

HandOverInv == OutstandingIsAwaited /\ DecidedIsAwaited /\ StoppedForNewOwner

\* Nothing is requested in the initial state.
LEMMA HandOverInvInit == Init => HandOverInv
BY DEF Init, HandOverInv, OutstandingIsAwaited, DecidedIsAwaited, StoppedForNewOwner

\* What a step may do to the lease, given the invariant.
HandOverStep == leaseSession' \notin {0, leaseSession}
                  => withdrawal \/ (moving = 0 /\ queued = {})

\* Without timeouts every step keeps the invariant and moves the lease only
\* over a stopped body.
LEMMA HandOverInvStep ==
  ASSUME ~Timeouts, HandOverInv, [Next]_vars
  PROVE  HandOverInv' /\ HandOverStep
<1> USE DEF HandOverInv, OutstandingIsAwaited, DecidedIsAwaited, StoppedForNewOwner,
            HandOverStep, vars, sessionVars, replaceVars, leaseVars, transitionVars,
            serviceVars, transportVars, runtimeVars, mailVars, bodyVars, historyVars
<1>1. CASE UNCHANGED vars
  BY <1>1
<1>2. CASE Request
  <2>1. ASSUME NEW h \in Hellos, Hello(h) PROVE HandOverInv' /\ HandOverStep
    BY <2>1 DEF Hello
  <2>2. ASSUME NEW s \in Sessions, AcquireControl(s) \/ AcquireService(s)
        PROVE HandOverInv' /\ HandOverStep
    BY <2>2 DEF AcquireControl, AcquireService, RequestTransition
  <2>3. ASSUME NEW l \in Leases, Command(l)
        PROVE HandOverInv' /\ HandOverStep
    BY <2>3 DEF Command
  <2> QED
    BY <1>2, <2>1, <2>2, <2>3 DEF Request
<1>3. CASE TransportStep
  <2>1. CASE HelloPublish \/ HelloReply \/ HelloTimeout
    BY <2>1 DEF HelloPublish, HelloReply, HelloTimeout, Answered
  <2>2. CASE PublishTransition
    BY <2>2 DEF PublishTransition
  <2>3. CASE LeaseGranted \/ ServiceGranted
    BY <2>3 DEF LeaseGranted, Answered, ServiceGranted
  <2>4. CASE TransitionTimeout
    BY <2>4 DEF TransitionTimeout, Answered
  <2>5. CASE Check \/ SubmitMotion \/ SubmitHeartbeat
    BY <2>5 DEF Check, SubmitMotion, SubmitHeartbeat, Answered, AfterLoad
  <2> QED
    BY <1>3, <2>1, <2>2, <2>3, <2>4, <2>5 DEF TransportStep
<1>4. CASE RuntimeStep
  <2>1. CASE PollSessionReplace
    BY <2>1 DEF PollSessionReplace, StopBody, KeepBody
  <2>2. CASE AcknowledgeSession \/ RevokeForSession
    BY <2>2 DEF AcknowledgeSession, RevokeForSession
  <2>3. CASE PollAuthorityTransition
    BY <2>3 DEF PollAuthorityTransition, ContinuesOwner, StopBody, KeepBody
  <2>4. CASE AcknowledgeAuthority
    BY <2>4 DEF AcknowledgeAuthority
  <2>5. CASE TakeCommand
    BY <2>5 DEF TakeCommand, KeepBody
  <2>6. CASE EnforceSafety
    BY <2>6 DEF EnforceSafety, KeepBody
  <2>7. CASE EnforceHeartbeat
    BY <2>7 DEF EnforceHeartbeat, StopBody, KeepBody
  <2>8. CASE CheckExpiry \/ RevokeExpired
    BY <2>8 DEF CheckExpiry, RevokeExpired, StopBody
  <2>9. CASE RunMotion
    BY <2>9 DEF RunMotion
  <2> QED
    BY <1>4, <2>1, <2>2, <2>3, <2>4, <2>5, <2>6, <2>7, <2>8, <2>9 DEF RuntimeStep
<1>5. CASE Clock
  BY <1>5 DEF Clock, Expire, ServiceExpire, MotionDue
<1> QED
  BY <1>1, <1>2, <1>3, <1>4, <1>5 DEF Next

\* "STOP -> clear queue -> ... -> install new lease": as long as the runtime
\* answers within the 250 ms the transport lane waits, the control lease moves
\* to another session only when the drive is stopped and the queue is empty,
\* or a reflex withdrawal owns the body.
THEOREM LeaseHandedOverStopped == ASSUME ~Timeouts PROVE Spec => HandsOverStopped
<1>1. HandOverInv /\ [Next]_vars => HandOverInv'
  BY HandOverInvStep
<1>2. HandOverInv /\ [Next]_vars
        => [leaseSession' \notin {0, leaseSession}
              => withdrawal \/ (moving = 0 /\ queued = {})]_vars
  BY HandOverInvStep DEF HandOverStep
<1> QED
  BY HandOverInvInit, <1>1, <1>2, PTL DEF Spec, HandsOverStopped

-----------------------------------------------------------------------------
(* Whom the body moves for, and what a lapsed lease admits, when no wait    *)
(* runs out.  MovesForOwner speaks of the drive only: it needs the queue,   *)
(* the mailbox and the transition that is about to be acknowledged, and it  *)
(* has to hold for an expired lease too, which the next request revives.    *)

\* The commands on their way to the drive or at it.
InBody == (queued \cup {moving, mail}) \ {0}

\* Nothing in the body, the leases or the history is newer than the last
\* generation handed out, so a request is for a lease nobody has seen.
NothingNewer ==
  /\ \A l \in InBody \cup lapsed \cup granted \cup {carried, leaseId, pendLease, tLease} :
       l <= authGeneration
  /\ authRequest <= authGeneration /\ authAck <= authGeneration

WithdrawsStill == withdrawal => moving = 0 /\ queued = {}

\* Sessions and leases are installed and withdrawn together.
LeasesPaired ==
  /\ leaseSession # 0 => leaseId # 0
  /\ pendLeaseSession # 0 => pendLease # 0

\* Every command belongs to the installed lease's session, or was the one in
\* the mailbox when the body was last stopped for a new owner.
OwnedBy(s) == \A l \in InBody : mintedFor[l] = s \/ l = carried

BodyOwned ==
  /\ rpc \notin {"session_ack", "session_revoke", "authority_ack"} /\ leaseId # 0
       => OwnedBy(leaseSession)
  /\ rpc = "authority_ack" /\ pendLease # 0 => OwnedBy(pendLeaseSession)

\* The lease a transport lane waits for has not lapsed before it is installed.
AwaitedIsFresh ==
  /\ tpc \in {"lease_publish", "lease_wait"} =>
       /\ pendLease = tLease
       /\ authAck # tLease => tLease \notin lapsed \cup {leaseId}
  /\ tpc \in {"service_publish", "service_wait"} => pendLease = 0

\* The installed lease has lapsed and yet looks live only while its next
\* owner's request, which moved the shared expiry, is not acknowledged.
RevivedIsAwaited ==
  leaseLive /\ leaseId \in lapsed =>
    tpc \in {"lease_publish", "lease_wait"} /\ authAck # tLease

\* A command under check carries the session its lease was minted for; once it
\* has passed, its session owns the lease, or the lease has been revoked since.
CheckedForOwner ==
  /\ tpc \in Admitting => tSession = mintedFor[tLease]
  /\ tpc = "admit_store" => leaseId = 0 \/ leaseSession = tSession

\* A command that came under a lapsed lease has not passed the load of the
\* lease id: a live expiry is another lease's.
LateIsRefused ==
  late => /\ tLease \in lapsed
          /\ \/ tpc = "admit_expiry"
             \/ tpc = "admit_id" /\ leaseId # tLease

OwnerInv == /\ TypeInv /\ HandOverInv /\ NothingNewer /\ WithdrawsStill /\ LeasesPaired
            /\ BodyOwned /\ AwaitedIsFresh /\ RevivedIsAwaited
            /\ CheckedForOwner /\ LateIsRefused

\* The initial state has no owner, no lease and nothing in the body.
LEMMA OwnerInvInit == Init => OwnerInv
<1> SUFFICES ASSUME Init PROVE OwnerInv
  OBVIOUS
<1>1. InBody = {}
  BY DEF Init, InBody
<1>2. NothingNewer /\ WithdrawsStill /\ LeasesPaired
  BY <1>1 DEF Init, NothingNewer, WithdrawsStill, LeasesPaired
<1>3. /\ BodyOwned /\ AwaitedIsFresh /\ RevivedIsAwaited
      /\ CheckedForOwner /\ LateIsRefused
  BY DEF Init, BodyOwned, AwaitedIsFresh, RevivedIsAwaited, CheckedForOwner, LateIsRefused,
         Admitting
<1> QED  BY <1>2, <1>3, TypeInvInit, HandOverInvInit DEF OwnerInv

\* What the proofs below read off the types.
LEMMA OwnerTypes ==
  ASSUME TypeInv
  PROVE  /\ InBody \subseteq Leases /\ lapsed \subseteq Leases /\ granted \subseteq Leases
         /\ queued \subseteq Leases /\ 0 \notin Leases
         /\ moving \in LeaseOrNone /\ mail \in LeaseOrNone /\ carried \in LeaseOrNone
         /\ leaseId \in LeaseOrNone /\ pendLease \in LeaseOrNone /\ tLease \in LeaseOrNone
         /\ authRequest \in LeaseOrNone /\ authAck \in LeaseOrNone
         /\ authGeneration \in LeaseOrNone /\ mintedFor \in [Leases -> SessionOrNone]
         /\ LeaseOrNone \subseteq Nat /\ Leases \subseteq LeaseOrNone
         /\ withdrawal \in BOOLEAN /\ leaseLive \in BOOLEAN
<1>1. 0 \notin Leases
  BY DEF Leases
<1> QED
  BY <1>1, RangeFacts
  DEF InBody, TypeInv, TypeOK, BodyTypes, HistoryTypes, LeaseTypes, TransitionTypes,
      LaneTypes

\* A reflex withdrawal starts on a stopped body, and commands are dropped
\* while it lasts.
LEMMA WithdrawsStillStep ==
  ASSUME WithdrawsStill, [Next]_vars PROVE WithdrawsStill'
<1> USE DEF WithdrawsStill, vars, sessionVars, replaceVars, leaseVars, transitionVars, serviceVars,
            transportVars, runtimeVars, mailVars, bodyVars, historyVars
<1>1. CASE UNCHANGED vars
  BY <1>1
<1>2. CASE Request
  <2>1. ASSUME NEW h \in Hellos, Hello(h) PROVE WithdrawsStill'
    BY <2>1 DEF Hello
  <2>2. ASSUME NEW s \in Sessions, AcquireControl(s) PROVE WithdrawsStill'
    BY <2>2 DEF AcquireControl, RequestTransition
  <2>3. ASSUME NEW s \in Sessions, AcquireService(s) PROVE WithdrawsStill'
    BY <2>3 DEF AcquireService, RequestTransition
  <2>4. ASSUME NEW l \in Leases, Command(l) PROVE WithdrawsStill'
    BY <2>4 DEF Command
  <2> QED
    BY <1>2, <2>1, <2>2, <2>3, <2>4 DEF Request
<1>3. CASE TransportStep
  <2>1. CASE HelloPublish
    BY <2>1 DEF HelloPublish
  <2>2. CASE HelloReply
    BY <2>2 DEF HelloReply, Answered
  <2>3. CASE HelloTimeout
    BY <2>3 DEF HelloTimeout, Answered
  <2>4. CASE PublishTransition
    BY <2>4 DEF PublishTransition
  <2>5. CASE LeaseGranted
    BY <2>5 DEF LeaseGranted, Answered
  <2>6. CASE ServiceGranted
    BY <2>6 DEF ServiceGranted, Answered
  <2>7. CASE TransitionTimeout
    BY <2>7 DEF TransitionTimeout, Answered
  <2>8. CASE Check
    BY <2>8 DEF Check, Answered
  <2>9. CASE SubmitMotion
    BY <2>9 DEF SubmitMotion, Answered
  <2>10. CASE SubmitHeartbeat
    BY <2>10 DEF SubmitHeartbeat, Answered
  <2> QED
    BY <1>3, <2>1, <2>2, <2>3, <2>4, <2>5, <2>6, <2>7,
       <2>8, <2>9, <2>10 DEF TransportStep
<1>4. CASE RuntimeStep
  <2>1. CASE PollSessionReplace
    BY <2>1 DEF PollSessionReplace, StopBody, KeepBody
  <2>2. CASE AcknowledgeSession
    BY <2>2 DEF AcknowledgeSession
  <2>3. CASE RevokeForSession
    BY <2>3 DEF RevokeForSession
  <2>4. CASE PollAuthorityTransition
    BY <2>4 DEF PollAuthorityTransition, ContinuesOwner, StopBody, KeepBody
  <2>5. CASE AcknowledgeAuthority
    BY <2>5 DEF AcknowledgeAuthority
  <2>6. CASE TakeCommand
    BY <2>6 DEF TakeCommand, KeepBody
  <2>7. CASE EnforceSafety
    BY <2>7 DEF EnforceSafety, KeepBody
  <2>8. CASE EnforceHeartbeat
    BY <2>8 DEF EnforceHeartbeat, StopBody, KeepBody
  <2>9. CASE CheckExpiry
    BY <2>9 DEF CheckExpiry
  <2>10. CASE RevokeExpired
    BY <2>10 DEF RevokeExpired, StopBody
  <2>11. CASE RunMotion
    BY <2>11 DEF RunMotion
  <2> QED
    BY <1>4, <2>1, <2>2, <2>3, <2>4, <2>5, <2>6, <2>7, <2>8,
       <2>9, <2>10, <2>11 DEF RuntimeStep
<1>5. CASE Clock
  <2>1. CASE Expire
    BY <2>1 DEF Expire
  <2>2. CASE ServiceExpire
    BY <2>2 DEF ServiceExpire
  <2>3. CASE MotionDue
    BY <2>3 DEF MotionDue
  <2> QED
    BY <1>5, <2>1, <2>2, <2>3 DEF Clock
<1> QED
  BY <1>1, <1>2, <1>3, <1>4, <1>5 DEF Next

LEMMA LeasesPairedStep ==
  ASSUME TypeInv, LeasesPaired, [Next]_vars PROVE LeasesPaired'
<1>0. authGeneration \in Nat /\ authGeneration + 1 # 0
  BY OwnerTypes
<1> USE DEF LeasesPaired, vars, sessionVars, replaceVars, leaseVars, transitionVars, serviceVars,
            transportVars, runtimeVars, mailVars, bodyVars, historyVars
<1>1. CASE UNCHANGED vars
  BY <1>1, <1>0
<1>2. CASE Request
  <2>1. ASSUME NEW h \in Hellos, Hello(h) PROVE LeasesPaired'
    BY <2>1, <1>0 DEF Hello
  <2>2. ASSUME NEW s \in Sessions, AcquireControl(s) PROVE LeasesPaired'
    BY <2>2, <1>0 DEF AcquireControl, RequestTransition
  <2>3. ASSUME NEW s \in Sessions, AcquireService(s) PROVE LeasesPaired'
    BY <2>3, <1>0 DEF AcquireService, RequestTransition
  <2>4. ASSUME NEW l \in Leases, Command(l) PROVE LeasesPaired'
    BY <2>4, <1>0 DEF Command
  <2> QED
    BY <1>2, <2>1, <2>2, <2>3, <2>4 DEF Request
<1>3. CASE TransportStep
  <2>1. CASE HelloPublish
    BY <2>1, <1>0 DEF HelloPublish
  <2>2. CASE HelloReply
    BY <2>2, <1>0 DEF HelloReply, Answered
  <2>3. CASE HelloTimeout
    BY <2>3, <1>0 DEF HelloTimeout, Answered
  <2>4. CASE PublishTransition
    BY <2>4, <1>0 DEF PublishTransition
  <2>5. CASE LeaseGranted
    BY <2>5, <1>0 DEF LeaseGranted, Answered
  <2>6. CASE ServiceGranted
    BY <2>6, <1>0 DEF ServiceGranted, Answered
  <2>7. CASE TransitionTimeout
    BY <2>7, <1>0 DEF TransitionTimeout, Answered
  <2>8. CASE Check
    BY <2>8, <1>0 DEF Check, Answered
  <2>9. CASE SubmitMotion
    BY <2>9, <1>0 DEF SubmitMotion, Answered
  <2>10. CASE SubmitHeartbeat
    BY <2>10, <1>0 DEF SubmitHeartbeat, Answered
  <2> QED
    BY <1>3, <2>1, <2>2, <2>3, <2>4, <2>5, <2>6, <2>7,
       <2>8, <2>9, <2>10 DEF TransportStep
<1>4. CASE RuntimeStep
  <2>1. CASE PollSessionReplace
    BY <2>1, <1>0 DEF PollSessionReplace, StopBody, KeepBody
  <2>2. CASE AcknowledgeSession
    BY <2>2, <1>0 DEF AcknowledgeSession
  <2>3. CASE RevokeForSession
    BY <2>3, <1>0 DEF RevokeForSession
  <2>4. CASE PollAuthorityTransition
    BY <2>4, <1>0 DEF PollAuthorityTransition, ContinuesOwner, StopBody, KeepBody
  <2>5. CASE AcknowledgeAuthority
    BY <2>5, <1>0 DEF AcknowledgeAuthority
  <2>6. CASE TakeCommand
    BY <2>6, <1>0 DEF TakeCommand, KeepBody
  <2>7. CASE EnforceSafety
    BY <2>7, <1>0 DEF EnforceSafety, KeepBody
  <2>8. CASE EnforceHeartbeat
    BY <2>8, <1>0 DEF EnforceHeartbeat, StopBody, KeepBody
  <2>9. CASE CheckExpiry
    BY <2>9, <1>0 DEF CheckExpiry
  <2>10. CASE RevokeExpired
    BY <2>10, <1>0 DEF RevokeExpired, StopBody
  <2>11. CASE RunMotion
    BY <2>11, <1>0 DEF RunMotion
  <2> QED
    BY <1>4, <2>1, <2>2, <2>3, <2>4, <2>5, <2>6, <2>7, <2>8,
       <2>9, <2>10, <2>11 DEF RuntimeStep
<1>5. CASE Clock
  <2>1. CASE Expire
    BY <2>1, <1>0 DEF Expire
  <2>2. CASE ServiceExpire
    BY <2>2, <1>0 DEF ServiceExpire
  <2>3. CASE MotionDue
    BY <2>3, <1>0 DEF MotionDue
  <2> QED
    BY <1>5, <2>1, <2>2, <2>3 DEF Clock
<1> QED
  BY <1>1, <1>2, <1>3, <1>4, <1>5 DEF Next

\* Where the commands of the body come from: a step moves them on, drops them,
\* or adds to the mailbox one that passed the check.
LEMMA BodyFlow ==
  ASSUME TypeInv, [Next]_vars
  PROVE  \/ InBody' \subseteq InBody
         \/ SubmitMotion /\ InBody' \subseteq InBody \cup {tLease}
<1> DEFINE Goal == \/ InBody' \subseteq InBody
                   \/ SubmitMotion /\ InBody' \subseteq InBody \cup {tLease}
<1> SUFFICES Goal
  OBVIOUS
<1>0. UNCHANGED <<queued, moving, mail>> => InBody' = InBody
  BY DEF InBody
<1>r. queued' \subseteq queued /\ moving' \in {0, moving} /\ mail' = mail => InBody' \subseteq InBody
  BY DEF InBody
<1>s. StopBody /\ mail' = mail => InBody' \subseteq InBody
  BY <1>r DEF StopBody
<1> USE DEF vars, sessionVars, replaceVars, leaseVars, transitionVars, serviceVars,
            transportVars, runtimeVars, mailVars, bodyVars, historyVars
<1>1. CASE UNCHANGED vars
  BY <1>1, <1>0
<1>2. CASE Request
  <2>1. ASSUME NEW h \in Hellos, Hello(h) PROVE Goal
    BY <2>1, <1>0 DEF Hello
  <2>2. ASSUME NEW s \in Sessions, AcquireControl(s) PROVE Goal
    BY <2>2, <1>0 DEF AcquireControl, RequestTransition
  <2>3. ASSUME NEW s \in Sessions, AcquireService(s) PROVE Goal
    BY <2>3, <1>0 DEF AcquireService, RequestTransition
  <2>4. ASSUME NEW l \in Leases, Command(l) PROVE Goal
    BY <2>4, <1>0 DEF Command
  <2> QED
    BY <1>2, <2>1, <2>2, <2>3, <2>4 DEF Request
<1>3. CASE TransportStep
  <2>1. CASE HelloPublish
    BY <2>1, <1>0 DEF HelloPublish
  <2>2. CASE HelloReply
    BY <2>2, <1>0 DEF HelloReply, Answered
  <2>3. CASE HelloTimeout
    BY <2>3, <1>0 DEF HelloTimeout, Answered
  <2>4. CASE PublishTransition
    BY <2>4, <1>0 DEF PublishTransition
  <2>5. CASE LeaseGranted
    BY <2>5, <1>0 DEF LeaseGranted, Answered
  <2>6. CASE ServiceGranted
    BY <2>6, <1>0 DEF ServiceGranted, Answered
  <2>7. CASE TransitionTimeout
    BY <2>7, <1>0 DEF TransitionTimeout, Answered
  <2>8. CASE Check
    BY <2>8, <1>0 DEF Check, Answered
  <2>9. CASE SubmitMotion
    <3>1. mail' = tLease /\ UNCHANGED <<queued, moving>>
      BY <2>9 DEF SubmitMotion
    <3>2. InBody' \subseteq InBody \cup {tLease}
      BY <3>1 DEF InBody
    <3> QED  BY <2>9, <3>2
  <2>10. CASE SubmitHeartbeat
    BY <2>10, <1>0 DEF SubmitHeartbeat, Answered
  <2> QED
    BY <1>3, <2>1, <2>2, <2>3, <2>4, <2>5, <2>6, <2>7,
       <2>8, <2>9, <2>10 DEF TransportStep
<1>4. CASE RuntimeStep
  <2>1. CASE PollSessionReplace
    BY <2>1, <1>0, <1>s DEF PollSessionReplace, KeepBody
  <2>2. CASE AcknowledgeSession
    BY <2>2, <1>0 DEF AcknowledgeSession
  <2>3. CASE RevokeForSession
    BY <2>3, <1>0 DEF RevokeForSession
  <2>4. CASE PollAuthorityTransition
    BY <2>4, <1>0, <1>s DEF PollAuthorityTransition, KeepBody
  <2>5. CASE AcknowledgeAuthority
    BY <2>5, <1>0 DEF AcknowledgeAuthority
  <2>6. CASE TakeCommand
    BY <2>6 DEF TakeCommand, KeepBody, InBody
  <2>7. CASE EnforceSafety
    BY <2>7, <1>0, <1>r DEF EnforceSafety, KeepBody
  <2>8. CASE EnforceHeartbeat
    BY <2>8, <1>0, <1>s DEF EnforceHeartbeat, KeepBody
  <2>9. CASE CheckExpiry
    BY <2>9, <1>0 DEF CheckExpiry
  <2>10. CASE RevokeExpired
    BY <2>10, <1>s DEF RevokeExpired
  <2>11. CASE RunMotion
    BY <2>11 DEF RunMotion, InBody
  <2> QED
    BY <1>4, <2>1, <2>2, <2>3, <2>4, <2>5, <2>6, <2>7, <2>8,
       <2>9, <2>10, <2>11 DEF RuntimeStep
<1>5. CASE Clock
  <2>1. CASE Expire
    BY <2>1, <1>0 DEF Expire
  <2>2. CASE ServiceExpire
    BY <2>2, <1>0 DEF ServiceExpire
  <2>3. CASE MotionDue
    BY <2>3, <1>0 DEF MotionDue
  <2> QED
    BY <1>5, <2>1, <2>2, <2>3 DEF Clock
<1> QED
  BY <1>1, <1>2, <1>3, <1>4, <1>5 DEF Next

\* Generations only grow, and what is stored of them is copied from each other.
LEMMA NothingNewerStep ==
  ASSUME TypeInv, DecidedIsAwaited, NothingNewer, [Next]_vars
  PROVE  NothingNewer'
<1>0. /\ authGeneration \in Nat /\ authGeneration <= authGeneration + 1
      /\ authGeneration + 1 <= authGeneration + 1 /\ 0 <= authGeneration
      /\ authGeneration <= authGeneration
      /\ \A l \in LeaseOrNone : l <= authGeneration => l <= authGeneration + 1
  BY OwnerTypes
<1>1. authGeneration' = authGeneration \/ authGeneration' = authGeneration + 1
  <2> USE DEF vars, sessionVars, replaceVars, leaseVars, transitionVars, serviceVars,
              transportVars, runtimeVars, mailVars, bodyVars, historyVars
  <2>1. CASE UNCHANGED vars
    BY <2>1
  <2>2. CASE Request
    BY <2>2
    DEF Request, Hello, AcquireControl, AcquireService, RequestTransition, Command
  <2>3. CASE TransportStep
    BY <2>3
    DEF TransportStep, HelloPublish, HelloReply, HelloTimeout, PublishTransition,
        LeaseGranted, ServiceGranted, TransitionTimeout, Check, SubmitMotion, SubmitHeartbeat
  <2>4. CASE RuntimeStep
    BY <2>4
    DEF RuntimeStep, PollSessionReplace, AcknowledgeSession, RevokeForSession,
        PollAuthorityTransition, AcknowledgeAuthority, TakeCommand, EnforceSafety,
        EnforceHeartbeat, CheckExpiry, RevokeExpired, RunMotion
  <2>5. CASE Clock
    BY <2>5 DEF Clock, Expire, ServiceExpire, MotionDue
  <2> QED  BY <2>1, <2>2, <2>3, <2>4, <2>5 DEF Next
<1>2. \A l \in LeaseOrNone : l <= authGeneration => l <= authGeneration'
  BY <1>0, <1>1
<1>3. ASSUME NEW l \in InBody' PROVE l <= authGeneration'
  <2>1. CASE l \in InBody
    BY <1>2, <2>1, OwnerTypes DEF NothingNewer
  <2>2. CASE l \notin InBody
    <3>1. l = tLease
      BY <1>3, <2>2, BodyFlow
    <3> QED  BY <1>2, <3>1, OwnerTypes DEF NothingNewer
  <2> QED  BY <2>1, <2>2
<1>4. /\ \A l \in lapsed' \cup granted' \cup {carried', leaseId', pendLease', tLease'} :
           \/ l \in InBody \cup lapsed \cup granted \cup {carried, leaseId, pendLease, tLease, 0}
           \/ l = authGeneration + 1 /\ authGeneration' = authGeneration + 1
      /\ authRequest' \in {authRequest, tLease}
      /\ authAck' \in {authAck, authRequest}
  <2> DEFINE Goal == /\ \A l \in lapsed' \cup granted' \cup {carried', leaseId', pendLease', tLease'} :
                          \/ l \in InBody \cup lapsed \cup granted \cup {carried, leaseId, pendLease, tLease, 0}
                          \/ l = authGeneration + 1 /\ authGeneration' = authGeneration + 1
                     /\ authRequest' \in {authRequest, tLease}
                     /\ authAck' \in {authAck, authRequest}
  <2> SUFFICES Goal
    OBVIOUS
  <2>0. mail \in InBody \cup {0}
    BY DEF InBody
  <2> USE DEF vars, sessionVars, replaceVars, leaseVars, transitionVars, serviceVars,
              transportVars, runtimeVars, mailVars, bodyVars, historyVars
  <2>1. CASE UNCHANGED vars
    BY <2>1, <2>0
  <2>2. CASE Request
    <3>1. ASSUME NEW h \in Hellos, Hello(h) PROVE Goal
      BY <3>1, <2>0 DEF Hello
    <3>2. ASSUME NEW s \in Sessions, AcquireControl(s) PROVE Goal
      BY <3>2, <2>0 DEF AcquireControl, RequestTransition
    <3>3. ASSUME NEW s \in Sessions, AcquireService(s) PROVE Goal
      BY <3>3, <2>0 DEF AcquireService, RequestTransition
    <3>4. ASSUME NEW l \in Leases, Command(l) PROVE Goal
      BY <3>4, <2>0 DEF Command
    <3> QED
      BY <2>2, <3>1, <3>2, <3>3, <3>4 DEF Request
  <2>3. CASE TransportStep
    <3>1. CASE HelloPublish
      BY <3>1, <2>0 DEF HelloPublish
    <3>2. CASE HelloReply
      BY <3>2, <2>0 DEF HelloReply, Answered
    <3>3. CASE HelloTimeout
      BY <3>3, <2>0 DEF HelloTimeout, Answered
    <3>4. CASE PublishTransition
      BY <3>4, <2>0 DEF PublishTransition
    <3>5. CASE LeaseGranted
      BY <3>5, <2>0 DEF LeaseGranted, Answered
    <3>6. CASE ServiceGranted
      BY <3>6, <2>0 DEF ServiceGranted, Answered
    <3>7. CASE TransitionTimeout
      BY <3>7, <2>0 DEF TransitionTimeout, Answered
    <3>8. CASE Check
      BY <3>8, <2>0 DEF Check, Answered
    <3>9. CASE SubmitMotion
      BY <3>9, <2>0 DEF SubmitMotion, Answered
    <3>10. CASE SubmitHeartbeat
      BY <3>10, <2>0 DEF SubmitHeartbeat, Answered
    <3> QED
      BY <2>3, <3>1, <3>2, <3>3, <3>4, <3>5, <3>6, <3>7,
       <3>8, <3>9, <3>10 DEF TransportStep
  <2>4. CASE RuntimeStep
    <3>1. CASE PollSessionReplace
      BY <3>1, <2>0 DEF PollSessionReplace, StopBody, KeepBody
    <3>2. CASE AcknowledgeSession
      BY <3>2, <2>0 DEF AcknowledgeSession
    <3>3. CASE RevokeForSession
      BY <3>3, <2>0 DEF RevokeForSession
    <3>4. CASE PollAuthorityTransition
      BY <3>4, <2>0 DEF PollAuthorityTransition, ContinuesOwner, StopBody, KeepBody
    <3>5. CASE AcknowledgeAuthority
      BY <3>5, <2>0 DEF AcknowledgeAuthority, DecidedIsAwaited
    <3>6. CASE TakeCommand
      BY <3>6, <2>0 DEF TakeCommand, KeepBody
    <3>7. CASE EnforceSafety
      BY <3>7, <2>0 DEF EnforceSafety, KeepBody
    <3>8. CASE EnforceHeartbeat
      BY <3>8, <2>0 DEF EnforceHeartbeat, StopBody, KeepBody
    <3>9. CASE CheckExpiry
      BY <3>9, <2>0 DEF CheckExpiry
    <3>10. CASE RevokeExpired
      BY <3>10, <2>0 DEF RevokeExpired, StopBody
    <3>11. CASE RunMotion
      BY <3>11, <2>0 DEF RunMotion
    <3> QED
      BY <2>4, <3>1, <3>2, <3>3, <3>4, <3>5, <3>6, <3>7, <3>8,
         <3>9, <3>10, <3>11 DEF RuntimeStep
  <2>5. CASE Clock
    <3>1. CASE Expire
      BY <3>1, <2>0 DEF Expire
    <3>2. CASE ServiceExpire
      BY <3>2, <2>0 DEF ServiceExpire
    <3>3. CASE MotionDue
      BY <3>3, <2>0 DEF MotionDue
    <3> QED
      BY <2>5, <3>1, <3>2, <3>3 DEF Clock
  <2> QED
    BY <2>1, <2>2, <2>3, <2>4, <2>5 DEF Next
<1>5. \A l \in lapsed' \cup granted' \cup {carried', leaseId', pendLease', tLease'} : l <= authGeneration'
  <2> SUFFICES ASSUME NEW l \in lapsed' \cup granted' \cup {carried', leaseId', pendLease', tLease'}
               PROVE  l <= authGeneration'
    OBVIOUS
  <2>1. CASE l \in InBody \cup lapsed \cup granted \cup {carried, leaseId, pendLease, tLease}
    BY <1>2, <2>1, OwnerTypes DEF NothingNewer
  <2>2. CASE l = 0
    BY <1>0, <1>1, <2>2
  <2>3. CASE l = authGeneration + 1 /\ authGeneration' = authGeneration + 1
    BY <1>0, <2>3
  <2> QED  BY <1>4, <2>1, <2>2, <2>3
<1>6. authRequest' <= authGeneration' /\ authAck' <= authGeneration'
  BY <1>2, <1>4, OwnerTypes DEF NothingNewer
<1> QED  BY <1>3, <1>5, <1>6 DEF NothingNewer

\* A command in the body keeps the session its lease was minted for: leases are
\* minted under a generation nothing in the body carries.
LEMMA MintedKept ==
  ASSUME TypeInv, NothingNewer, [Next]_vars, NEW l \in InBody
  PROVE  mintedFor'[l] = mintedFor[l]
<1>0. /\ l \in Leases /\ l # authGeneration + 1
  <2>1. l \in Leases /\ l <= authGeneration
    BY OwnerTypes DEF NothingNewer
  <2>2. l \in Nat /\ authGeneration \in Nat
    BY <2>1, OwnerTypes
  <2> QED  BY <2>1, <2>2
<1>f. mintedFor \in [Leases -> SessionOrNone]
  BY OwnerTypes
<1> DEFINE Goal == mintedFor'[l] = mintedFor[l]
<1> SUFFICES Goal
  OBVIOUS
<1> USE DEF vars, sessionVars, replaceVars, leaseVars, transitionVars, serviceVars,
            transportVars, runtimeVars, mailVars, bodyVars, historyVars
<1>1. CASE UNCHANGED vars
  BY <1>1
<1>2. CASE Request
  <2>1. ASSUME NEW h \in Hellos, Hello(h) PROVE Goal
    BY <2>1 DEF Hello
  <2>2. ASSUME NEW s \in Sessions, AcquireControl(s) PROVE Goal
    BY <2>2, <1>0, <1>f DEF AcquireControl, RequestTransition
  <2>3. ASSUME NEW s \in Sessions, AcquireService(s) PROVE Goal
    BY <2>3 DEF AcquireService, RequestTransition
  <2>4. ASSUME NEW m \in Leases, Command(m) PROVE Goal
    BY <2>4 DEF Command
  <2> QED
    BY <1>2, <2>1, <2>2, <2>3, <2>4 DEF Request
<1>3. CASE TransportStep
  <2>1. CASE HelloPublish
    BY <2>1 DEF HelloPublish
  <2>2. CASE HelloReply
    BY <2>2 DEF HelloReply, Answered
  <2>3. CASE HelloTimeout
    BY <2>3 DEF HelloTimeout, Answered
  <2>4. CASE PublishTransition
    BY <2>4 DEF PublishTransition
  <2>5. CASE LeaseGranted
    BY <2>5 DEF LeaseGranted, Answered
  <2>6. CASE ServiceGranted
    BY <2>6 DEF ServiceGranted, Answered
  <2>7. CASE TransitionTimeout
    BY <2>7 DEF TransitionTimeout, Answered
  <2>8. CASE Check
    BY <2>8 DEF Check, Answered
  <2>9. CASE SubmitMotion
    BY <2>9 DEF SubmitMotion, Answered
  <2>10. CASE SubmitHeartbeat
    BY <2>10 DEF SubmitHeartbeat, Answered
  <2> QED
    BY <1>3, <2>1, <2>2, <2>3, <2>4, <2>5, <2>6, <2>7,
       <2>8, <2>9, <2>10 DEF TransportStep
<1>4. CASE RuntimeStep
  <2>1. CASE PollSessionReplace
    BY <2>1 DEF PollSessionReplace, StopBody, KeepBody
  <2>2. CASE AcknowledgeSession
    BY <2>2 DEF AcknowledgeSession
  <2>3. CASE RevokeForSession
    BY <2>3 DEF RevokeForSession
  <2>4. CASE PollAuthorityTransition
    BY <2>4 DEF PollAuthorityTransition, ContinuesOwner, StopBody, KeepBody
  <2>5. CASE AcknowledgeAuthority
    BY <2>5 DEF AcknowledgeAuthority
  <2>6. CASE TakeCommand
    BY <2>6 DEF TakeCommand, KeepBody
  <2>7. CASE EnforceSafety
    BY <2>7 DEF EnforceSafety, KeepBody
  <2>8. CASE EnforceHeartbeat
    BY <2>8 DEF EnforceHeartbeat, StopBody, KeepBody
  <2>9. CASE CheckExpiry
    BY <2>9 DEF CheckExpiry
  <2>10. CASE RevokeExpired
    BY <2>10 DEF RevokeExpired, StopBody
  <2>11. CASE RunMotion
    BY <2>11 DEF RunMotion
  <2> QED
    BY <1>4, <2>1, <2>2, <2>3, <2>4, <2>5, <2>6, <2>7, <2>8,
       <2>9, <2>10, <2>11 DEF RuntimeStep
<1>5. CASE Clock
  <2>1. CASE Expire
    BY <2>1 DEF Expire
  <2>2. CASE ServiceExpire
    BY <2>2 DEF ServiceExpire
  <2>3. CASE MotionDue
    BY <2>3 DEF MotionDue
  <2> QED
    BY <1>5, <2>1, <2>2, <2>3 DEF Clock
<1> QED
  BY <1>1, <1>2, <1>3, <1>4, <1>5 DEF Next

\* A step that adds nothing to the body and installs no lease.
LEMMA BodyOwnedFrame ==
  ASSUME BodyOwned, InBody' \subseteq InBody, carried' = carried,
         \A l \in InBody : mintedFor'[l] = mintedFor[l],
         leaseId' = 0 \/ UNCHANGED <<leaseId, leaseSession>>,
         rpc' = "authority_ack" =>
           rpc = "authority_ack" /\ UNCHANGED <<pendLease, pendLeaseSession>>,
         \/ rpc' \in {"session_ack", "session_revoke", "authority_ack"}
         \/ rpc \notin {"session_ack", "session_revoke", "authority_ack"}
         \/ leaseId' = 0
  PROVE  BodyOwned'
BY DEF BodyOwned, OwnedBy

\* The body is stopped for an owner who does not renew, so that everything in
\* it belongs to the session whose lease is acknowledged next.
LEMMA BodyOwnedStep ==
  ASSUME OwnerInv, [Next]_vars
  PROVE  BodyOwned'
<1>0. /\ BodyOwned /\ TypeInv /\ HandOverInv /\ WithdrawsStill /\ LeasesPaired /\ NothingNewer
      /\ CheckedForOwner
  BY DEF OwnerInv
<1>m. \A l \in InBody : mintedFor'[l] = mintedFor[l]
  BY <1>0, MintedKept
<1>i. tpc \in {"idle"} \cup Admitting => rpc # "authority_ack"
  BY <1>0 DEF HandOverInv, OutstandingIsAwaited, DecidedIsAwaited, Admitting
<1>f. UNCHANGED <<queued, moving, mail>> => InBody' = InBody
  BY DEF InBody
<1>k. queued' \subseteq queued /\ moving' \in {0, moving} /\ mail' = mail => InBody' \subseteq InBody
  BY DEF InBody
<1>z. /\ StopBody /\ mail' = mail => InBody' \subseteq {mail}
      /\ StopBody /\ mail' = mail => InBody' \subseteq InBody
  BY <1>0, <1>k DEF StopBody, WithdrawsStill, InBody
<1> USE DEF vars, sessionVars, replaceVars, leaseVars, transitionVars, serviceVars,
            transportVars, runtimeVars, mailVars, bodyVars, historyVars
<1>1. CASE UNCHANGED vars
  BY <1>1, <1>f, <1>0, BodyOwnedFrame
<1>2. CASE Request
  <2>1. ASSUME NEW h \in Hellos, Hello(h) PROVE BodyOwned'
    BY <2>1, <1>f, <1>0, <1>m, BodyOwnedFrame DEF Hello
  <2>2. ASSUME NEW s \in Sessions, AcquireControl(s) PROVE BodyOwned'
    <3>1. tpc = "idle" /\ UNCHANGED <<rpc, leaseId, leaseSession, queued, moving, mail, carried>>
      BY <2>2 DEF AcquireControl, RequestTransition
    <3>2. \A l \in InBody : mintedFor'[l] = mintedFor[l]
      BY <1>m
    <3>3. InBody' = InBody /\ rpc # "authority_ack" /\ rpc' # "authority_ack"
      BY <3>1, <1>f, <1>i
    <3>4. BodyOwned
      BY <1>0
    <3> QED  BY ONLY <3>1, <3>2, <3>3, <3>4 DEF BodyOwned, OwnedBy
  <2>3. ASSUME NEW s \in Sessions, AcquireService(s) PROVE BodyOwned'
    BY <2>3, <1>f, <1>i, <1>0, <1>m, BodyOwnedFrame DEF AcquireService, RequestTransition
  <2>4. ASSUME NEW l \in Leases, Command(l) PROVE BodyOwned'
    BY <2>4, <1>f, <1>0, <1>m, BodyOwnedFrame DEF Command
  <2> QED
    BY <1>2, <2>1, <2>2, <2>3, <2>4 DEF Request
<1>3. CASE TransportStep
  <2>1. CASE HelloPublish
    BY <2>1, <1>f, <1>0, <1>m, BodyOwnedFrame DEF HelloPublish
  <2>2. CASE HelloReply
    BY <2>2, <1>f, <1>0, <1>m, BodyOwnedFrame DEF HelloReply, Answered
  <2>3. CASE HelloTimeout
    BY <2>3, <1>f, <1>0, <1>m, BodyOwnedFrame DEF HelloTimeout, Answered
  <2>4. CASE PublishTransition
    BY <2>4, <1>f, <1>0, <1>m, BodyOwnedFrame DEF PublishTransition
  <2>5. CASE LeaseGranted
    BY <2>5, <1>f, <1>0, <1>m, BodyOwnedFrame DEF LeaseGranted, Answered
  <2>6. CASE ServiceGranted
    BY <2>6, <1>f, <1>0, <1>m, BodyOwnedFrame DEF ServiceGranted, Answered
  <2>7. CASE TransitionTimeout
    BY <2>7, <1>f, <1>0, <1>m, BodyOwnedFrame DEF TransitionTimeout, Answered
  <2>8. CASE Check
    BY <2>8, <1>f, <1>0, <1>m, BodyOwnedFrame DEF Check, Answered
  <2>9. CASE SubmitMotion
    <3>1. /\ tpc = "admit_store" /\ mail' = tLease
          /\ UNCHANGED <<rpc, leaseId, leaseSession, carried, queued, moving, mintedFor>>
      BY <2>9 DEF SubmitMotion
    <3>2. InBody' \subseteq InBody \cup {tLease}
      BY <3>1 DEF InBody
    <3>3. (leaseId = 0 \/ leaseSession = mintedFor[tLease]) /\ rpc # "authority_ack"
      BY <1>0, <1>i, <3>1 DEF CheckedForOwner, Admitting
    <3> QED  BY <1>0, <3>1, <3>2, <3>3 DEF BodyOwned, OwnedBy
  <2>10. CASE SubmitHeartbeat
    BY <2>10, <1>f, <1>0, <1>m, BodyOwnedFrame DEF SubmitHeartbeat, Answered
  <2> QED
    BY <1>3, <2>1, <2>2, <2>3, <2>4, <2>5, <2>6, <2>7,
       <2>8, <2>9, <2>10 DEF TransportStep
<1>4. CASE RuntimeStep
  <2>1. CASE PollSessionReplace
    <3>1. CASE rpc' = "session_ack"
      BY <3>1 DEF BodyOwned
    <3>2. CASE rpc' # "session_ack"
      <4>1. /\ rpc = "session" /\ rpc' = "authority" /\ UNCHANGED <<queued, moving, mail, carried>>
            /\ UNCHANGED <<leaseId, leaseSession, mintedFor>>
        BY <2>1, <3>2 DEF PollSessionReplace, KeepBody
      <4> QED  BY <4>1, <1>f, <1>0, BodyOwnedFrame
    <3> QED  BY <3>1, <3>2
  <2>2. CASE AcknowledgeSession
    BY <2>2, <1>f, <1>0, <1>m, BodyOwnedFrame DEF AcknowledgeSession
  <2>3. CASE RevokeForSession
    BY <2>3, <1>f, <1>0, <1>m, BodyOwnedFrame DEF RevokeForSession
  <2>4. CASE PollAuthorityTransition
    <3>0. rpc = "authority" /\ UNCHANGED <<mail, leaseId, leaseSession, pendLease, pendLeaseSession, mintedFor>>
      BY <2>4 DEF PollAuthorityTransition
    <3>1. CASE rpc' = "authority_ack" /\ ContinuesOwner
      <4>1. UNCHANGED <<queued, moving, carried>>
        BY <2>4, <3>1 DEF PollAuthorityTransition, KeepBody
      <4>2. leaseId # 0 /\ leaseSession = pendLeaseSession
        BY <1>0, <3>1 DEF ContinuesOwner, LeasesPaired
      <4>3. OwnedBy(leaseSession)
        BY <1>0, <3>0, <4>2 DEF BodyOwned
      <4> QED  BY <1>f, <3>0, <3>1, <4>1, <4>2, <4>3 DEF BodyOwned, OwnedBy
    <3>2. CASE rpc' = "authority_ack" /\ ~ContinuesOwner
      <4>1. StopBody /\ carried' = mail
        BY <2>4, <3>2 DEF PollAuthorityTransition
      <4>2. \A l \in InBody' : l = carried'
        BY <1>z, <3>0, <4>1
      <4> QED  BY <3>2, <4>2 DEF BodyOwned, OwnedBy
    <3>3. CASE rpc' # "authority_ack"
      <4>1. rpc' = "take" /\ UNCHANGED <<queued, moving, carried>>
        BY <2>4, <3>3 DEF PollAuthorityTransition, KeepBody
      <4> QED  BY <3>0, <4>1, <1>f, <1>0, BodyOwnedFrame
    <3> QED  BY <3>1, <3>2, <3>3
  <2>5. CASE AcknowledgeAuthority
    <3>1. /\ rpc = "authority_ack" /\ rpc' = "take"
          /\ leaseId' = pendLease /\ leaseSession' = pendLeaseSession
          /\ UNCHANGED <<queued, moving, mail, carried, mintedFor>>
      BY <2>5 DEF AcknowledgeAuthority
    <3> QED  BY <1>0, <1>f, <3>1 DEF BodyOwned, OwnedBy
  <2>6. CASE TakeCommand
    <3>1. /\ rpc = "take" /\ rpc' = "safety"
          /\ UNCHANGED <<leaseId, leaseSession, carried, mintedFor>>
      BY <2>6 DEF TakeCommand
    <3>2. InBody' \subseteq InBody
      BY <2>6 DEF TakeCommand, KeepBody, InBody
    <3> QED  BY <1>0, <3>1, <3>2, BodyOwnedFrame
  <2>7. CASE EnforceSafety
    <3>1. /\ rpc' \notin {"session_ack", "session_revoke", "authority_ack"}
          /\ rpc \notin {"session_ack", "session_revoke", "authority_ack"}
          /\ UNCHANGED <<leaseId, leaseSession, carried, mintedFor>>
      BY <2>7 DEF EnforceSafety
    <3>2. InBody' \subseteq InBody
      BY <2>7 DEF EnforceSafety, KeepBody, InBody
    <3> QED  BY <1>0, <3>1, <3>2, BodyOwnedFrame
  <2>8. CASE EnforceHeartbeat
    <3>1. /\ rpc = "heartbeat" /\ rpc' = "expiry" /\ UNCHANGED <<mail, carried, mintedFor>>
          /\ leaseId' = 0 \/ UNCHANGED <<leaseId, leaseSession>>
      BY <2>8 DEF EnforceHeartbeat
    <3>2. InBody' \subseteq InBody
      BY <2>8, <1>f, <1>z, <3>1 DEF EnforceHeartbeat, KeepBody
    <3> QED  BY <1>0, <3>1, <3>2, BodyOwnedFrame
  <2>9. CASE CheckExpiry
    BY <2>9, <1>f, <1>0, <1>m, BodyOwnedFrame DEF CheckExpiry
  <2>10. CASE RevokeExpired
    BY <2>10 DEF RevokeExpired, BodyOwned
  <2>11. CASE RunMotion
    <3>1. /\ rpc' \notin {"session_ack", "session_revoke", "authority_ack"}
          /\ rpc \notin {"session_ack", "session_revoke", "authority_ack"}
          /\ UNCHANGED <<leaseId, leaseSession, carried, mintedFor>>
      BY <2>11 DEF RunMotion
    <3>2. InBody' \subseteq InBody
      BY <2>11 DEF RunMotion, InBody
    <3> QED  BY <1>0, <3>1, <3>2, BodyOwnedFrame
  <2> QED
    BY <1>4, <2>1, <2>2, <2>3, <2>4, <2>5, <2>6, <2>7, <2>8,
       <2>9, <2>10, <2>11 DEF RuntimeStep
<1>5. CASE Clock
  <2>1. CASE Expire
    BY <2>1, <1>f, <1>0, <1>m, BodyOwnedFrame DEF Expire
  <2>2. CASE ServiceExpire
    BY <2>2, <1>f, <1>0, <1>m, BodyOwnedFrame DEF ServiceExpire
  <2>3. CASE MotionDue
    BY <2>3, <1>f, <1>0, <1>m, BodyOwnedFrame DEF MotionDue
  <2> QED
    BY <1>5, <2>1, <2>2, <2>3 DEF Clock
<1> QED
  BY <1>1, <1>2, <1>3, <1>4, <1>5 DEF Next

\* A lease is asked for under a generation that cannot have lapsed, and while
\* it is awaited only its acknowledgement installs it.
LEMMA AwaitedIsFreshStep ==
  ASSUME OwnerInv, [Next]_vars
  PROVE  AwaitedIsFresh'
<1>0. AwaitedIsFresh /\ HandOverInv
  BY DEF OwnerInv
<1>n. /\ authGeneration + 1 \notin lapsed \cup {leaseId}
      /\ authAck # authGeneration + 1
  <2>1. ASSUME NEW l \in lapsed \cup {leaseId, authAck} PROVE l # authGeneration + 1
    <3>1. l \in Nat /\ authGeneration \in Nat /\ l <= authGeneration
      BY <2>1, OwnerTypes DEF OwnerInv, NothingNewer
    <3> QED  BY <3>1
  <2> QED  BY <2>1
<1>l. tpc \in {"lease_publish", "lease_wait"} => tLease # 0
  BY RangeFacts, OwnerTypes DEF OwnerInv, TypeInv, Registers
<1> USE <1>0 DEF AwaitedIsFresh, vars, sessionVars, replaceVars, leaseVars, transitionVars, serviceVars,
            transportVars, runtimeVars, mailVars, bodyVars, historyVars
<1>1. CASE UNCHANGED vars
  BY <1>1
<1>2. CASE Request
  <2>1. ASSUME NEW h \in Hellos, Hello(h) PROVE AwaitedIsFresh'
    BY <2>1 DEF Hello
  <2>2. ASSUME NEW s \in Sessions, AcquireControl(s) PROVE AwaitedIsFresh'
    BY <2>2, <1>n DEF AcquireControl, RequestTransition
  <2>3. ASSUME NEW s \in Sessions, AcquireService(s) PROVE AwaitedIsFresh'
    BY <2>3 DEF AcquireService, RequestTransition
  <2>4. ASSUME NEW l \in Leases, Command(l) PROVE AwaitedIsFresh'
    BY <2>4 DEF Command
  <2> QED
    BY <1>2, <2>1, <2>2, <2>3, <2>4 DEF Request
<1>3. CASE TransportStep
  <2>1. CASE HelloPublish
    BY <2>1 DEF HelloPublish
  <2>2. CASE HelloReply
    BY <2>2 DEF HelloReply, Answered
  <2>3. CASE HelloTimeout
    BY <2>3 DEF HelloTimeout, Answered
  <2>4. CASE PublishTransition
    BY <2>4 DEF PublishTransition
  <2>5. CASE LeaseGranted
    BY <2>5 DEF LeaseGranted, Answered
  <2>6. CASE ServiceGranted
    BY <2>6 DEF ServiceGranted, Answered
  <2>7. CASE TransitionTimeout
    BY <2>7 DEF TransitionTimeout, Answered
  <2>8. CASE Check
    BY <2>8, CheckLoads DEF Check, Admitting
  <2>9. CASE SubmitMotion
    BY <2>9 DEF SubmitMotion, Answered
  <2>10. CASE SubmitHeartbeat
    BY <2>10 DEF SubmitHeartbeat, Answered
  <2> QED
    BY <1>3, <2>1, <2>2, <2>3, <2>4, <2>5, <2>6, <2>7,
       <2>8, <2>9, <2>10 DEF TransportStep
<1>4. CASE RuntimeStep
  <2>1. CASE PollSessionReplace
    BY <2>1 DEF PollSessionReplace, StopBody, KeepBody
  <2>2. CASE AcknowledgeSession
    BY <2>2 DEF AcknowledgeSession
  <2>3. CASE RevokeForSession
    BY <2>3, <1>l DEF RevokeForSession
  <2>4. CASE PollAuthorityTransition
    BY <2>4 DEF PollAuthorityTransition, ContinuesOwner, StopBody, KeepBody
  <2>5. CASE AcknowledgeAuthority
    <3>1. tpc \in {"lease_wait", "service_wait"} /\ authAck' = tLease
      BY <2>5 DEF AcknowledgeAuthority, HandOverInv, OutstandingIsAwaited, DecidedIsAwaited
    <3> QED  BY <2>5, <3>1 DEF AcknowledgeAuthority
  <2>6. CASE TakeCommand
    BY <2>6 DEF TakeCommand, KeepBody
  <2>7. CASE EnforceSafety
    BY <2>7 DEF EnforceSafety, KeepBody
  <2>8. CASE EnforceHeartbeat
    BY <2>8, <1>l DEF EnforceHeartbeat
  <2>9. CASE CheckExpiry
    BY <2>9 DEF CheckExpiry
  <2>10. CASE RevokeExpired
    BY <2>10, <1>l DEF RevokeExpired
  <2>11. CASE RunMotion
    BY <2>11 DEF RunMotion
  <2> QED
    BY <1>4, <2>1, <2>2, <2>3, <2>4, <2>5, <2>6, <2>7, <2>8,
       <2>9, <2>10, <2>11 DEF RuntimeStep
<1>5. CASE Clock
  <2>1. CASE Expire
    BY <2>1 DEF Expire
  <2>2. CASE ServiceExpire
    BY <2>2 DEF ServiceExpire
  <2>3. CASE MotionDue
    BY <2>3 DEF MotionDue
  <2> QED
    BY <1>5, <2>1, <2>2, <2>3 DEF Clock
<1> QED
  BY <1>1, <1>2, <1>3, <1>4, <1>5 DEF Next

\* While no wait runs out, the transport lane answers for the lease whose
\* expiry it moved.
LEMMA RevivedIsAwaitedStep ==
  ASSUME ~Timeouts, OwnerInv, [Next]_vars
  PROVE  RevivedIsAwaited'
<1>0. RevivedIsAwaited /\ HandOverInv /\ AwaitedIsFresh
  BY DEF OwnerInv
<1>n. authAck # authGeneration + 1
  <2>1. authAck \in Nat /\ authGeneration \in Nat /\ authAck <= authGeneration
    BY OwnerTypes DEF OwnerInv, NothingNewer
  <2> QED  BY <2>1
<1>l. 0 \notin lapsed
  BY OwnerTypes DEF OwnerInv
<1> USE <1>0, <1>l DEF RevivedIsAwaited, vars, sessionVars, replaceVars, leaseVars, transitionVars, serviceVars,
            transportVars, runtimeVars, mailVars, bodyVars, historyVars
<1>1. CASE UNCHANGED vars
  BY <1>1
<1>2. CASE Request
  <2>1. ASSUME NEW h \in Hellos, Hello(h) PROVE RevivedIsAwaited'
    BY <2>1 DEF Hello
  <2>2. ASSUME NEW s \in Sessions, AcquireControl(s) PROVE RevivedIsAwaited'
    BY <2>2, <1>n DEF AcquireControl, RequestTransition
  <2>3. ASSUME NEW s \in Sessions, AcquireService(s) PROVE RevivedIsAwaited'
    BY <2>3 DEF AcquireService, RequestTransition
  <2>4. ASSUME NEW l \in Leases, Command(l) PROVE RevivedIsAwaited'
    BY <2>4 DEF Command
  <2> QED
    BY <1>2, <2>1, <2>2, <2>3, <2>4 DEF Request
<1>3. CASE TransportStep
  <2>1. CASE HelloPublish
    BY <2>1 DEF HelloPublish
  <2>2. CASE HelloReply
    BY <2>2 DEF HelloReply, Answered
  <2>3. CASE HelloTimeout
    BY <2>3 DEF HelloTimeout, Answered
  <2>4. CASE PublishTransition
    BY <2>4 DEF PublishTransition
  <2>5. CASE LeaseGranted
    BY <2>5 DEF LeaseGranted, Answered
  <2>6. CASE ServiceGranted
    BY <2>6 DEF ServiceGranted, Answered
  <2>7. CASE TransitionTimeout
    BY <2>7 DEF TransitionTimeout, Answered
  <2>8. CASE Check
    BY <2>8, CheckLoads DEF Check, Admitting
  <2>9. CASE SubmitMotion
    BY <2>9 DEF SubmitMotion, Answered
  <2>10. CASE SubmitHeartbeat
    BY <2>10 DEF SubmitHeartbeat, Answered
  <2> QED
    BY <1>3, <2>1, <2>2, <2>3, <2>4, <2>5, <2>6, <2>7,
       <2>8, <2>9, <2>10 DEF TransportStep
<1>4. CASE RuntimeStep
  <2>1. CASE PollSessionReplace
    BY <2>1 DEF PollSessionReplace, StopBody, KeepBody
  <2>2. CASE AcknowledgeSession
    BY <2>2 DEF AcknowledgeSession
  <2>3. CASE RevokeForSession
    BY <2>3 DEF RevokeForSession
  <2>4. CASE PollAuthorityTransition
    BY <2>4 DEF PollAuthorityTransition, ContinuesOwner, StopBody, KeepBody
  <2>5. CASE AcknowledgeAuthority
    <3>1. /\ tpc \in {"lease_wait", "service_wait"} /\ authAck # tLease
          /\ leaseId' = pendLease /\ lapsed' = lapsed
      BY <2>5 DEF AcknowledgeAuthority, HandOverInv, OutstandingIsAwaited, DecidedIsAwaited
    <3> QED  BY <3>1 DEF AwaitedIsFresh
  <2>6. CASE TakeCommand
    BY <2>6 DEF TakeCommand, KeepBody
  <2>7. CASE EnforceSafety
    BY <2>7 DEF EnforceSafety, KeepBody
  <2>8. CASE EnforceHeartbeat
    BY <2>8 DEF EnforceHeartbeat, StopBody, KeepBody
  <2>9. CASE CheckExpiry
    BY <2>9 DEF CheckExpiry
  <2>10. CASE RevokeExpired
    BY <2>10 DEF RevokeExpired, StopBody
  <2>11. CASE RunMotion
    BY <2>11 DEF RunMotion
  <2> QED
    BY <1>4, <2>1, <2>2, <2>3, <2>4, <2>5, <2>6, <2>7, <2>8,
       <2>9, <2>10, <2>11 DEF RuntimeStep
<1>5. CASE Clock
  <2>1. CASE Expire
    BY <2>1 DEF Expire
  <2>2. CASE ServiceExpire
    BY <2>2 DEF ServiceExpire
  <2>3. CASE MotionDue
    BY <2>3 DEF MotionDue
  <2> QED
    BY <1>5, <2>1, <2>2, <2>3 DEF Clock
<1> QED
  BY <1>1, <1>2, <1>3, <1>4, <1>5 DEF Next

\* Nothing but a revocation comes between the load of the owner and the store.
LEMMA CheckedForOwnerStep ==
  ASSUME OwnerInv, [Next]_vars
  PROVE  CheckedForOwner'
<1>0. CheckedForOwner
  BY DEF OwnerInv
<1>i. rpc = "authority_ack" => tpc \notin Admitting
  BY DEF OwnerInv, HandOverInv, OutstandingIsAwaited, DecidedIsAwaited, Admitting
<1> USE <1>0 DEF CheckedForOwner, Admitting, vars, sessionVars, replaceVars, leaseVars, transitionVars, serviceVars,
            transportVars, runtimeVars, mailVars, bodyVars, historyVars
<1>1. CASE UNCHANGED vars
  BY <1>1
<1>2. CASE Request
  <2>1. ASSUME NEW h \in Hellos, Hello(h) PROVE CheckedForOwner'
    BY <2>1 DEF Hello
  <2>2. ASSUME NEW s \in Sessions, AcquireControl(s) PROVE CheckedForOwner'
    BY <2>2 DEF AcquireControl, RequestTransition
  <2>3. ASSUME NEW s \in Sessions, AcquireService(s) PROVE CheckedForOwner'
    BY <2>3 DEF AcquireService, RequestTransition
  <2>4. ASSUME NEW l \in Leases, Command(l) PROVE CheckedForOwner'
    BY <2>4 DEF Command
  <2> QED
    BY <1>2, <2>1, <2>2, <2>3, <2>4 DEF Request
<1>3. CASE TransportStep
  <2>1. CASE HelloPublish
    BY <2>1 DEF HelloPublish
  <2>2. CASE HelloReply
    BY <2>2 DEF HelloReply, Answered
  <2>3. CASE HelloTimeout
    BY <2>3 DEF HelloTimeout, Answered
  <2>4. CASE PublishTransition
    BY <2>4 DEF PublishTransition
  <2>5. CASE LeaseGranted
    BY <2>5 DEF LeaseGranted, Answered
  <2>6. CASE ServiceGranted
    BY <2>6 DEF ServiceGranted, Answered
  <2>7. CASE TransitionTimeout
    BY <2>7 DEF TransitionTimeout, Answered
  <2>8. CASE Check
    BY <2>8, CheckLoads DEF Check, Admitting
  <2>9. CASE SubmitMotion
    BY <2>9 DEF SubmitMotion, Answered
  <2>10. CASE SubmitHeartbeat
    BY <2>10 DEF SubmitHeartbeat, Answered
  <2> QED
    BY <1>3, <2>1, <2>2, <2>3, <2>4, <2>5, <2>6, <2>7,
       <2>8, <2>9, <2>10 DEF TransportStep
<1>4. CASE RuntimeStep
  <2>1. CASE PollSessionReplace
    BY <2>1 DEF PollSessionReplace, StopBody, KeepBody
  <2>2. CASE AcknowledgeSession
    BY <2>2 DEF AcknowledgeSession
  <2>3. CASE RevokeForSession
    BY <2>3 DEF RevokeForSession
  <2>4. CASE PollAuthorityTransition
    BY <2>4 DEF PollAuthorityTransition, ContinuesOwner, StopBody, KeepBody
  <2>5. CASE AcknowledgeAuthority
    BY <2>5, <1>i DEF AcknowledgeAuthority
  <2>6. CASE TakeCommand
    BY <2>6 DEF TakeCommand, KeepBody
  <2>7. CASE EnforceSafety
    BY <2>7 DEF EnforceSafety, KeepBody
  <2>8. CASE EnforceHeartbeat
    BY <2>8 DEF EnforceHeartbeat, StopBody, KeepBody
  <2>9. CASE CheckExpiry
    BY <2>9 DEF CheckExpiry
  <2>10. CASE RevokeExpired
    BY <2>10 DEF RevokeExpired, StopBody
  <2>11. CASE RunMotion
    BY <2>11 DEF RunMotion
  <2> QED
    BY <1>4, <2>1, <2>2, <2>3, <2>4, <2>5, <2>6, <2>7, <2>8,
       <2>9, <2>10, <2>11 DEF RuntimeStep
<1>5. CASE Clock
  <2>1. CASE Expire
    BY <2>1 DEF Expire
  <2>2. CASE ServiceExpire
    BY <2>2 DEF ServiceExpire
  <2>3. CASE MotionDue
    BY <2>3 DEF MotionDue
  <2> QED
    BY <1>5, <2>1, <2>2, <2>3 DEF Clock
<1> QED
  BY <1>1, <1>2, <1>3, <1>4, <1>5 DEF Next

\* The expiry looks live under a lapsed lease only while its next owner's request
\* is answered, and then no command is under check.
LEMMA LateIsRefusedStep ==
  ASSUME OwnerInv, [Next]_vars
  PROVE  LateIsRefused'
<1>0. LateIsRefused /\ RevivedIsAwaited
  BY DEF OwnerInv
<1>i. rpc = "authority_ack" => tpc \notin Admitting
  BY DEF OwnerInv, HandOverInv, OutstandingIsAwaited, DecidedIsAwaited, Admitting
<1>l. tpc \in Admitting => tLease # 0
  BY OwnerTypes DEF OwnerInv, TypeInv, Registers
<1> USE <1>0, <1>l DEF LateIsRefused, Admitting, vars, sessionVars, replaceVars, leaseVars, transitionVars, serviceVars,
            transportVars, runtimeVars, mailVars, bodyVars, historyVars
<1>1. CASE UNCHANGED vars
  BY <1>1
<1>2. CASE Request
  <2>1. ASSUME NEW h \in Hellos, Hello(h) PROVE LateIsRefused'
    BY <2>1 DEF Hello
  <2>2. ASSUME NEW s \in Sessions, AcquireControl(s) PROVE LateIsRefused'
    BY <2>2 DEF AcquireControl, RequestTransition
  <2>3. ASSUME NEW s \in Sessions, AcquireService(s) PROVE LateIsRefused'
    BY <2>3 DEF AcquireService, RequestTransition
  <2>4. ASSUME NEW l \in Leases, Command(l) PROVE LateIsRefused'
    BY <2>4 DEF Command
  <2> QED
    BY <1>2, <2>1, <2>2, <2>3, <2>4 DEF Request
<1>3. CASE TransportStep
  <2>1. CASE HelloPublish
    BY <2>1 DEF HelloPublish
  <2>2. CASE HelloReply
    BY <2>2 DEF HelloReply, Answered
  <2>3. CASE HelloTimeout
    BY <2>3 DEF HelloTimeout, Answered
  <2>4. CASE PublishTransition
    BY <2>4 DEF PublishTransition
  <2>5. CASE LeaseGranted
    BY <2>5 DEF LeaseGranted, Answered
  <2>6. CASE ServiceGranted
    BY <2>6 DEF ServiceGranted, Answered
  <2>7. CASE TransitionTimeout
    BY <2>7 DEF TransitionTimeout, Answered
  <2>8. CASE Check
    BY <2>8, CheckLoads DEF Check, Admitting, RevivedIsAwaited
  <2>9. CASE SubmitMotion
    BY <2>9 DEF SubmitMotion, Answered
  <2>10. CASE SubmitHeartbeat
    BY <2>10 DEF SubmitHeartbeat, Answered
  <2> QED
    BY <1>3, <2>1, <2>2, <2>3, <2>4, <2>5, <2>6, <2>7,
       <2>8, <2>9, <2>10 DEF TransportStep
<1>4. CASE RuntimeStep
  <2>1. CASE PollSessionReplace
    BY <2>1 DEF PollSessionReplace, StopBody, KeepBody
  <2>2. CASE AcknowledgeSession
    BY <2>2 DEF AcknowledgeSession
  <2>3. CASE RevokeForSession
    BY <2>3 DEF RevokeForSession
  <2>4. CASE PollAuthorityTransition
    BY <2>4 DEF PollAuthorityTransition, ContinuesOwner, StopBody, KeepBody
  <2>5. CASE AcknowledgeAuthority
    BY <2>5, <1>i DEF AcknowledgeAuthority
  <2>6. CASE TakeCommand
    BY <2>6 DEF TakeCommand, KeepBody
  <2>7. CASE EnforceSafety
    BY <2>7 DEF EnforceSafety, KeepBody
  <2>8. CASE EnforceHeartbeat
    BY <2>8 DEF EnforceHeartbeat, StopBody, KeepBody
  <2>9. CASE CheckExpiry
    BY <2>9 DEF CheckExpiry
  <2>10. CASE RevokeExpired
    BY <2>10 DEF RevokeExpired, StopBody
  <2>11. CASE RunMotion
    BY <2>11 DEF RunMotion
  <2> QED
    BY <1>4, <2>1, <2>2, <2>3, <2>4, <2>5, <2>6, <2>7, <2>8,
       <2>9, <2>10, <2>11 DEF RuntimeStep
<1>5. CASE Clock
  <2>1. CASE Expire
    BY <2>1 DEF Expire
  <2>2. CASE ServiceExpire
    BY <2>2 DEF ServiceExpire
  <2>3. CASE MotionDue
    BY <2>3 DEF MotionDue
  <2> QED
    BY <1>5, <2>1, <2>2, <2>3 DEF Clock
<1> QED
  BY <1>1, <1>2, <1>3, <1>4, <1>5 DEF Next

\* Without timeouts every step keeps the invariant.
LEMMA OwnerInvStep ==
  ASSUME ~Timeouts, OwnerInv, [Next]_vars
  PROVE  OwnerInv'
<1>1. TypeInv' /\ HandOverInv'
  BY TypeInvStep, HandOverInvStep DEF OwnerInv
<1>2. NothingNewer' /\ WithdrawsStill' /\ LeasesPaired'
  BY NothingNewerStep, WithdrawsStillStep, LeasesPairedStep DEF OwnerInv, HandOverInv
<1>3. BodyOwned' /\ AwaitedIsFresh' /\ RevivedIsAwaited'
  BY BodyOwnedStep, AwaitedIsFreshStep, RevivedIsAwaitedStep
<1>4. CheckedForOwner' /\ LateIsRefused'
  BY CheckedForOwnerStep, LateIsRefusedStep
<1> QED  BY <1>1, <1>2, <1>3, <1>4 DEF OwnerInv

\* As long as the runtime answers within the 250 ms the transport lane waits,
\* the body moves, under a live lease, for that lease's session or for the one
\* command that was waiting in the mailbox when the owner changed.
THEOREM BodyMovesForOwner == ASSUME ~Timeouts PROVE Spec => []MovesForOwner
<1>1. OwnerInv => MovesForOwner
  <2> SUFFICES ASSUME OwnerInv, leaseId # 0, moving # 0,
                      rpc \notin {"session_ack", "session_revoke", "authority_ack"}
               PROVE  mintedFor[moving] = leaseSession \/ moving = carried
    BY DEF MovesForOwner
  <2>1. moving \in InBody
    BY DEF InBody
  <2> QED  BY <2>1 DEF OwnerInv, BodyOwned, OwnedBy
<1>2. OwnerInv /\ [Next]_vars => OwnerInv'
  BY OwnerInvStep
<1> QED  BY <1>1, <1>2, OwnerInvInit, PTL DEF Spec

\* Under the same condition a command that comes under a lapsed lease is never
\* stored (active_authority_matches), although a request for a new lease moves
\* the expiry all leases share before that lease is installed, and the check
\* loads expiry, id and owner one after the other while the runtime lane runs.
THEOREM LapsedLeaseNeverAdmits == ASSUME ~Timeouts PROVE Spec => []LapsedNeverAdmitted
<1>1. OwnerInv => LapsedNeverAdmitted
  BY DEF OwnerInv, LateIsRefused, LapsedNeverAdmitted
<1>2. OwnerInv /\ [Next]_vars => OwnerInv'
  BY OwnerInvStep
<1> QED  BY <1>1, <1>2, OwnerInvInit, PTL DEF Spec
=============================================================================
