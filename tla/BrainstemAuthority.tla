------------------------- MODULE BrainstemAuthority -------------------------
(***************************************************************************)
(* Who may move the body: the cockpit sessions, the control lease and the  *)
(* service lease of pete-brainstem.  The transport lane answers one host   *)
(* request at a time (session.rs, arch/pico_w/handshake.rs and             *)
(* authority.rs); a request that changes ownership is posted in atomics    *)
(* and waits, at most 250 ms, until the runtime lane has acknowledged it   *)
(* from poll_session_replace or poll_authority_transition, between         *)
(* stopping the body and installing the new owner.                         *)
(*                                                                         *)
(* Each lane has a program counter; the steps of the runtime lane are the  *)
(* parts of one tick, in tick order.  Deadlines are abstracted to the      *)
(* events of passing them (Expire, HeartbeatExpired, MotionDue).  A        *)
(* session is named by the generation its id carries, a lease by the       *)
(* authority generation in its id.  A motion command is named by the       *)
(* lease it was submitted under; the body's reflex motion has no lease     *)
(* and is the flag withdrawal.                                             *)
(***************************************************************************)
EXTENDS Naturals

CONSTANTS
  Hellos,         \* the hello messages hosts send, told apart by their nonce
  RoleOf,         \* Hellos -> "motherbrain", "forebrain", "operator", "service_tool"
  ControlHellos,  \* those that ask for a control-purpose session
  TransportOf,    \* Hellos -> "usb", "uart", "http", "udp"
  PeerOf,         \* Hellos -> the device that sends it
  RecoveryPeer,   \* PETE_RECOVERY_FOREBRAIN_ID
  OperatorDebug,  \* the operator-debug feature is compiled in
  ServiceMode,    \* the service-mode feature is compiled in
  Heartbeats,     \* the hosts arm the heartbeat
  Timeouts,       \* the 250 ms waits of the transport lane may run out
  DiagnosticSlots, \* DIAGNOSTIC_SESSION_CAPACITY
  MaxSessions, MaxLeases  \* bounds on the generation counters

Roles == {"motherbrain", "forebrain", "operator", "service_tool"}
Transports == {"usb", "uart", "http", "udp"}
NoHello == "none"

ASSUME HelloAssumption ==
  /\ RoleOf \in [Hellos -> Roles] /\ ControlHellos \subseteq Hellos
  /\ TransportOf \in [Hellos -> Transports] /\ NoHello \notin Hellos
ASSUME BoundsAssumption ==
  /\ MaxSessions \in Nat /\ MaxLeases \in Nat /\ DiagnosticSlots \in Nat \ {0}
ASSUME FlagsAssumption ==
  {OperatorDebug, ServiceMode, Heartbeats, Timeouts} \subseteq BOOLEAN

VARIABLES
  generation, lastHello, lastSession,              \* session.rs statics
  helloOf,                                         \* history: session -> its hello
  activeSession, pendSession, sessRequest, sessAck, \* *_SESSION_HASH, SESSION_REPLACE_*
  activeTransport,                                 \* ACTIVE_TRANSPORT
  diagnostic,                                      \* DIAGNOSTIC_SESSION_HASH
  leaseId, leaseSession, leaseLive,                \* ACTIVE_LEASE_{HASH, SESSION_HASH}; EXPIRES_MS ahead
  pendLease, pendLeaseSession, authRequest, authAck, \* PENDING_LEASE_*, AUTHORITY_{REQUEST, ACK}
  authGeneration,                                  \* AUTHORITY_GENERATION
  serviceLease, serviceSession, serviceLive,       \* ACTIVE_SERVICE_*
  tpc, tSession, tLease,                           \* the transport lane
  rpc, rGeneration,                                \* the runtime lane
  mail, mailBeat,                                  \* the mailbox: a CmdVel, a HeartbeatStop
  queued, moving, moveDue, withdrawal, heartbeat,  \* the runtime's queue, drive and timers
  \* history: leases told to a client, leases seen to run out, the mail that was
  \* waiting when the runtime last stopped the body for a new owner, and whether
  \* the command under check came under a lease that had run out
  granted, mintedFor, lapsed, carried, late

sessionVars == <<generation, lastHello, lastSession, helloOf, diagnostic>>
replaceVars == <<activeSession, pendSession, sessRequest, sessAck, activeTransport>>
leaseVars == <<leaseId, leaseSession, leaseLive>>
transitionVars == <<pendLease, pendLeaseSession, authRequest, authAck, authGeneration>>
serviceVars == <<serviceLease, serviceSession, serviceLive>>
transportVars == <<tpc, tSession, tLease>>
runtimeVars == <<rpc, rGeneration>>
mailVars == <<mail, mailBeat>>
bodyVars == <<queued, moving, moveDue, withdrawal, heartbeat>>
historyVars == <<granted, mintedFor, lapsed, carried, late>>
vars == <<sessionVars, replaceVars, leaseVars, transitionVars, serviceVars,
          transportVars, runtimeVars, mailVars, bodyVars, historyVars>>

Sessions == 1..MaxSessions
Leases == 1..MaxLeases

Init ==
  /\ generation = 0 /\ lastHello = NoHello /\ lastSession = 0
  /\ helloOf = [s \in Sessions |-> NoHello]
  /\ activeSession = 0 /\ pendSession = 0 /\ sessRequest = 0 /\ sessAck = 0
  /\ activeTransport = "none"
  /\ diagnostic = [d \in 1..DiagnosticSlots |-> 0]
  /\ leaseId = 0 /\ leaseSession = 0 /\ leaseLive = FALSE
  /\ pendLease = 0 /\ pendLeaseSession = 0 /\ authRequest = 0 /\ authAck = 0
  /\ authGeneration = 0
  /\ serviceLease = 0 /\ serviceSession = 0 /\ serviceLive = FALSE
  /\ tpc = "idle" /\ tSession = 0 /\ tLease = 0
  /\ rpc = "session" /\ rGeneration = 0
  /\ mail = 0 /\ mailBeat = FALSE
  /\ queued = {} /\ moving = 0 /\ moveDue = FALSE
  /\ withdrawal = FALSE /\ heartbeat = FALSE
  /\ granted = {} /\ mintedFor = [l \in Leases |-> 0] /\ lapsed = {} /\ carried = 0 /\ late = FALSE

-----------------------------------------------------------------------------
(* The transport lane: handshakes.                                         *)

\* A handler that returns leaves nothing in its registers.
Answered == tpc' = "idle" /\ tSession' = 0 /\ tLease' = 0

Role(s) == RoleOf[helloOf[s]]
Diagnosed == {diagnostic[d] : d \in 1..DiagnosticSlots} \ {0}
\* session_identity: the primary session or a registered diagnostic one.
Known == (Diagnosed \cup {activeSession}) \ {0}
HasControlPurpose(s) == s = activeSession \/ helloOf[s] \in ControlHellos
SessionTransport(s) == IF s = activeSession THEN activeTransport ELSE TransportOf[helloOf[s]]

\* register_diagnostic_session: the session's own slot, else a free one, else
\* the one its hash falls on.
DiagnosticSlot(s) ==
  LET own == {d \in 1..DiagnosticSlots : diagnostic[d] = s}
      free == {d \in 1..DiagnosticSlots : diagnostic[d] = 0}
  IN  IF own # {} THEN own ELSE IF free # {} THEN {CHOOSE d \in free : \A e \in free : d <= e}
      ELSE 1..DiagnosticSlots

\* handle_handshake_json.  validate answers a repeat of the last hello from its
\* one-entry cache, and mints a session for any other.  A motherbrain control
\* hello over the network must come from the device that is already active.
Hello(h) ==
  LET s == IF lastHello = h /\ lastSession # 0 THEN lastSession ELSE generation + 1
      control == RoleOf[h] = "motherbrain" /\ h \in ControlHellos
      trusted == \/ TransportOf[h] \in {"usb", "uart"}
                 \/ activeSession # 0 /\ PeerOf[helloOf[activeSession]] = PeerOf[h]
  IN
  /\ tpc = "idle" /\ s \in Sessions
  /\ lastHello' = h /\ lastSession' = s
  /\ generation' = IF s > generation THEN s ELSE generation
  /\ helloOf' = [helloOf EXCEPT ![s] = h]
  /\ \/ /\ control /\ trusted
        /\ pendSession' = s
        /\ tpc' = "hello_publish" /\ tSession' = s
        /\ UNCHANGED diagnostic
     \/ /\ control /\ ~trusted
        /\ UNCHANGED <<pendSession, tpc, tSession, diagnostic>>
     \/ /\ ~control
        /\ \E d \in DiagnosticSlot(s) : diagnostic' = [diagnostic EXCEPT ![d] = s]
        /\ UNCHANGED <<pendSession, tpc, tSession>>
  /\ UNCHANGED <<activeSession, sessRequest, sessAck, activeTransport, leaseVars, transitionVars, serviceVars,
                 tLease, runtimeVars, mailVars, bodyVars, historyVars>>

HelloPublish ==
  /\ tpc = "hello_publish"
  /\ sessRequest' = tSession
  /\ tpc' = "hello_wait"
  /\ UNCHANGED <<sessionVars, activeSession, pendSession, sessAck, activeTransport, leaseVars, transitionVars,
                 serviceVars, tSession, tLease, runtimeVars, mailVars, bodyVars, historyVars>>

\* The wait ends with mark_transport_changed and WELCOME once acknowledged,
\* else without a reply; a late acknowledgement still installs the session.
HelloReply ==
  /\ tpc = "hello_wait" /\ sessAck = tSession
  /\ activeTransport' = TransportOf[helloOf[tSession]]
  /\ Answered
  /\ UNCHANGED <<sessionVars, activeSession, pendSession, sessRequest, sessAck, leaseVars,
                 transitionVars, serviceVars, runtimeVars, mailVars, bodyVars, historyVars>>

HelloTimeout ==
  /\ Timeouts /\ tpc = "hello_wait" /\ sessAck # tSession
  /\ Answered
  /\ UNCHANGED <<sessionVars, replaceVars, leaseVars, transitionVars, serviceVars,
                 runtimeVars, mailVars, bodyVars, historyVars>>

-----------------------------------------------------------------------------
(* The transport lane: leases and commands.                                *)

\* authority_policy_allows: the role fixes the authority it may ask for.
AuthorityPolicyAllows(s) ==
  /\ s \in Known /\ HasControlPurpose(s)
  /\ \/ Role(s) = "motherbrain"
     \/ Role(s) = "operator" /\ OperatorDebug
     \/ Role(s) = "forebrain" /\ ~leaseLive /\ PeerOf[helloOf[s]] = RecoveryPeer

ServicePolicyAllows(s) ==
  /\ ServiceMode /\ s \in Known
  /\ \/ /\ Role(s) = "motherbrain" /\ HasControlPurpose(s)
        /\ SessionTransport(s) \in {"usb", "http"}
     \/ Role(s) = "service_tool" /\ SessionTransport(s) = "usb"

\* request_authority_transition, up to the store of AUTHORITY_REQUEST.  The
\* new expiry lands in ACTIVE_LEASE_EXPIRES_MS at once.
RequestTransition(s, lease, live, pc) ==
  /\ tpc = "idle" /\ authGeneration < MaxLeases
  /\ authGeneration' = authGeneration + 1
  /\ pendLease' = lease /\ pendLeaseSession' = (IF lease = 0 THEN 0 ELSE s)
  /\ leaseLive' = live
  /\ tpc' = pc /\ tSession' = s /\ tLease' = authGeneration + 1

\* install_authority and install_service_authority.
AcquireControl(s) ==
  /\ AuthorityPolicyAllows(s)
  /\ RequestTransition(s, authGeneration + 1, TRUE, "lease_publish")
  /\ mintedFor' = [mintedFor EXCEPT ![authGeneration + 1] = s]
  /\ UNCHANGED <<sessionVars, replaceVars, leaseId, leaseSession, authRequest, authAck,
                 serviceVars, runtimeVars, mailVars, bodyVars, granted, lapsed, carried, late>>

AcquireService(s) ==
  /\ ServicePolicyAllows(s)
  /\ RequestTransition(s, 0, FALSE, "service_publish")
  /\ UNCHANGED <<sessionVars, replaceVars, leaseId, leaseSession, authRequest, authAck,
                 serviceVars,
                 runtimeVars, mailVars, bodyVars, historyVars>>

PublishTransition ==
  /\ tpc \in {"lease_publish", "service_publish"}
  /\ authRequest' = tLease
  /\ tpc' = IF tpc = "lease_publish" THEN "lease_wait" ELSE "service_wait"
  /\ UNCHANGED <<sessionVars, replaceVars, leaseVars, pendLease, pendLeaseSession, authAck,
                 authGeneration, serviceVars, tSession, tLease, runtimeVars, mailVars,
                 bodyVars, historyVars>>

LeaseGranted ==
  /\ tpc = "lease_wait" /\ authAck = tLease
  /\ granted' = granted \cup {tLease}
  /\ Answered
  /\ UNCHANGED <<sessionVars, replaceVars, leaseVars, transitionVars, serviceVars,
                 runtimeVars, mailVars, bodyVars, mintedFor, lapsed, carried, late>>

ServiceGranted ==
  /\ tpc = "service_wait" /\ authAck = tLease
  /\ serviceLease' = tLease /\ serviceSession' = tSession /\ serviceLive' = TRUE
  /\ Answered
  /\ UNCHANGED <<sessionVars, replaceVars, leaseVars, transitionVars,
                 runtimeVars, mailVars, bodyVars, historyVars>>

TransitionTimeout ==
  /\ Timeouts /\ tpc \in {"lease_wait", "service_wait"} /\ authAck # tLease
  /\ Answered
  /\ UNCHANGED <<sessionVars, replaceVars, leaseVars, transitionVars, serviceVars,
                 runtimeVars, mailVars, bodyVars, historyVars>>

\* A command that needs the control lease is checked on the session id and the
\* lease id it carries, load by load (active_session_matches, then
\* active_authority_matches), and stored afterwards: the runtime lane may revoke
\* the lease in between.
Command(l) ==
  /\ tpc = "idle" /\ l \in granted /\ mintedFor[l] \in Known
  /\ tpc' = "admit_expiry" /\ tSession' = mintedFor[l] /\ tLease' = l
  /\ late' = (l \in lapsed)
  /\ UNCHANGED <<sessionVars, replaceVars, leaseVars, transitionVars, serviceVars,
                 runtimeVars, mailVars, bodyVars, granted, mintedFor, lapsed, carried>>

\* The loads of active_authority_matches and what follows each.
AfterLoad ==
  [admit_expiry |-> "admit_id", admit_id |-> "admit_owner", admit_owner |-> "admit_store"]
\* MUTANT: the expiry is not looked at.
Passes_Expired ==
  CASE tpc = "admit_expiry" -> TRUE
    [] tpc = "admit_id" -> leaseId = tLease
    [] tpc = "admit_owner" -> leaseSession = tSession
Passes ==
  CASE tpc = "admit_expiry" -> leaseLive
    [] tpc = "admit_id" -> leaseId = tLease
    [] tpc = "admit_owner" -> leaseSession = tSession
Check ==
  /\ tpc \in DOMAIN AfterLoad
  /\ IF Passes
     THEN tpc' = AfterLoad[tpc] /\ UNCHANGED <<tSession, tLease, late>>
     ELSE Answered /\ late' = FALSE
  /\ UNCHANGED <<sessionVars, replaceVars, leaseVars, transitionVars, serviceVars,
                 runtimeVars, mailVars, bodyVars, granted, mintedFor, lapsed, carried>>

SubmitMotion ==
  /\ tpc = "admit_store" /\ Answered /\ late' = FALSE /\ mail' = tLease
  /\ UNCHANGED <<sessionVars, replaceVars, leaseVars, transitionVars, serviceVars,
                 runtimeVars, mailBeat, bodyVars, granted, mintedFor, lapsed, carried>>

SubmitHeartbeat ==
  /\ Heartbeats /\ tpc = "admit_store" /\ Answered /\ late' = FALSE /\ mailBeat' = TRUE
  /\ UNCHANGED <<sessionVars, replaceVars, leaseVars, transitionVars, serviceVars,
                 runtimeVars, mail, bodyVars, granted, mintedFor, lapsed, carried>>

-----------------------------------------------------------------------------
(* The runtime lane: the parts of one tick that decide ownership.          *)

\* MUTANT: the drive is stopped, the queue is not cleared.
StopBody_KeepsQueue ==
  /\ queued' = queued
  /\ moving' = (IF withdrawal THEN moving ELSE 0)
  /\ moveDue' = (IF withdrawal THEN moveDue ELSE FALSE)

\* interrupt, clear the queue, stop the drive, unless a reflex withdrawal owns
\* the body.
StopBody ==
  /\ queued' = (IF withdrawal THEN queued ELSE {})
  /\ moving' = (IF withdrawal THEN moving ELSE 0)
  /\ moveDue' = (IF withdrawal THEN moveDue ELSE FALSE)

KeepBody == UNCHANGED <<queued, moving, moveDue>>

\* poll_session_replace, up to the acknowledgement.
PollSessionReplace ==
  /\ rpc = "session"
  /\ IF sessRequest # 0 /\ sessRequest # sessAck
     THEN /\ rGeneration' = sessRequest /\ rpc' = "session_ack"
          /\ heartbeat' = FALSE
          /\ StopBody /\ carried' = mail
     ELSE /\ rpc' = "authority"
          /\ KeepBody /\ UNCHANGED <<rGeneration, heartbeat, carried>>
  /\ UNCHANGED <<sessionVars, replaceVars, leaseVars, transitionVars, serviceVars,
                 transportVars, mailVars, withdrawal, granted, mintedFor, lapsed, late>>

\* acknowledge_session_replace stores SESSION_REPLACE_ACK, which lets the
\* transport lane go on, before it zeroes the leases.
AcknowledgeSession ==
  /\ rpc = "session_ack"
  /\ activeSession' = pendSession /\ sessAck' = rGeneration
  /\ rpc' = "session_revoke" /\ rGeneration' = 0
  /\ UNCHANGED <<sessionVars, pendSession, sessRequest, activeTransport, leaseVars,
                 transitionVars, serviceVars, transportVars, mailVars, bodyVars, historyVars>>

RevokeForSession ==
  /\ rpc = "session_revoke"
  /\ leaseId' = 0 /\ leaseSession' = 0 /\ leaseLive' = FALSE
  /\ serviceLease' = 0 /\ serviceSession' = 0 /\ serviceLive' = FALSE
  /\ rpc' = "authority"
  /\ UNCHANGED <<sessionVars, replaceVars, transitionVars, transportVars, rGeneration,
                 mailVars, bodyVars, historyVars>>

\* MUTANT: any pending lease continues a live owner.
ContinuesOwner_AnyOwner == leaseLive /\ leaseSession # 0 /\ pendLeaseSession # 0

\* poll_authority_transition, up to the acknowledgement: an owner that renews
\* its unexpired lease keeps moving, any other transition stops the body.
ContinuesOwner == leaseLive /\ leaseSession # 0 /\ leaseSession = pendLeaseSession

PollAuthorityTransition ==
  /\ rpc = "authority"
  /\ IF authRequest # 0 /\ authRequest # authAck
     THEN /\ rGeneration' = authRequest /\ rpc' = "authority_ack"
          /\ IF ContinuesOwner
             THEN KeepBody /\ UNCHANGED <<heartbeat, carried>>
             ELSE StopBody /\ heartbeat' = FALSE /\ carried' = mail
     ELSE /\ rpc' = "take"
          /\ KeepBody /\ UNCHANGED <<rGeneration, heartbeat, carried>>
  /\ UNCHANGED <<sessionVars, replaceVars, leaseVars, transitionVars, serviceVars,
                 transportVars, mailVars, withdrawal, granted, mintedFor, lapsed, late>>

\* MUTANT: the service lease survives the transition.
AcknowledgeAuthority_KeepsService ==
  /\ rpc = "authority_ack"
  /\ leaseId' = pendLease /\ leaseSession' = pendLeaseSession
  /\ authAck' = rGeneration
  /\ rpc' = "take" /\ rGeneration' = 0
  /\ UNCHANGED <<sessionVars, replaceVars, leaseLive, pendLease, pendLeaseSession, authRequest,
                 authGeneration, serviceVars, transportVars, mailVars, bodyVars, historyVars>>

\* acknowledge_authority_transition.
AcknowledgeAuthority ==
  /\ rpc = "authority_ack"
  /\ serviceLease' = 0 /\ serviceSession' = 0 /\ serviceLive' = FALSE
  /\ leaseId' = pendLease /\ leaseSession' = pendLeaseSession
  /\ authAck' = rGeneration
  /\ rpc' = "take" /\ rGeneration' = 0
  /\ UNCHANGED <<sessionVars, replaceVars, leaseLive, pendLease, pendLeaseSession, authRequest,
                 authGeneration, transportVars, mailVars, bodyVars, historyVars>>

\* poll_control_command: the command slot before the velocity slot.  During a
\* withdrawal both are dropped.  A CmdVel repeating the running velocity
\* renews it, a different one interrupts it and is queued; either removes the
\* CmdVel that waits in the queue, if one does.  Other motion waits its turn.
\* A HeartbeatStop arms the heartbeat if it still does when the tick ends:
\* enter_idle, once the queue is empty, disarms it.
TakeCommand ==
  /\ rpc = "take" /\ rpc' = "safety"
  /\ \/ /\ mailBeat
        /\ mailBeat' = FALSE
        /\ IF withdrawal THEN UNCHANGED heartbeat ELSE heartbeat' \in {heartbeat, TRUE}
        /\ KeepBody /\ UNCHANGED mail
     \/ /\ ~mailBeat /\ mail # 0
        /\ mail' = 0
        /\ \/ /\ withdrawal /\ KeepBody
           \/ /\ ~withdrawal /\ moving # 0
              /\ moving' = mail /\ moveDue' = FALSE
              /\ queued' \in {queued, {}}
           \/ /\ ~withdrawal
              /\ queued' \in {queued \cup {mail}, {mail}} /\ moving' = 0 /\ moveDue' = FALSE
           \/ /\ ~withdrawal
              /\ queued' = queued \cup {mail} /\ UNCHANGED <<moving, moveDue>>
        /\ UNCHANGED <<mailBeat, heartbeat>>
     \/ /\ ~mailBeat /\ mail = 0
        /\ KeepBody /\ UNCHANGED <<mailVars, heartbeat>>
  /\ UNCHANGED <<sessionVars, replaceVars, leaseVars, transitionVars, serviceVars,
                 transportVars, rGeneration, withdrawal, historyVars>>

\* enforce_safety_policy as far as ownership goes: a trip clears queue and
\* drive and may start a withdrawal; a withdrawal ends by itself.
EnforceSafety ==
  /\ rpc = "safety" /\ rpc' = "heartbeat"
  /\ \/ KeepBody /\ UNCHANGED withdrawal
     \/ /\ queued' = {} /\ moving' = 0 /\ moveDue' = FALSE
        /\ withdrawal' \in {TRUE, FALSE}
  /\ UNCHANGED <<sessionVars, replaceVars, leaseVars, transitionVars, serviceVars,
                 transportVars, rGeneration, mailVars, heartbeat, historyVars>>

\* enforce_heartbeat_stop: an armed heartbeat may have run out.
EnforceHeartbeat ==
  /\ rpc = "heartbeat" /\ rpc' = "expiry"
  /\ \/ /\ heartbeat
        /\ heartbeat' = FALSE
        /\ leaseId' = 0 /\ leaseSession' = 0 /\ leaseLive' = FALSE
        /\ StopBody
     \/ KeepBody /\ UNCHANGED <<heartbeat, leaseVars>>
  /\ UNCHANGED <<sessionVars, replaceVars, transitionVars, serviceVars, transportVars,
                 rGeneration, mailVars, withdrawal, historyVars>>

\* MUTANT: expiry is left to the admission check.
CheckExpiry_Never ==
  /\ rpc = "expiry"
  /\ rpc' = "motion"
  /\ UNCHANGED <<sessionVars, replaceVars, leaseVars, transitionVars, serviceVars,
                 transportVars, rGeneration, mailVars, bodyVars, historyVars>>

\* take_expired_authority: the check, then the three stores that revoke.
CheckExpiry ==
  /\ rpc = "expiry"
  /\ rpc' = IF leaseId # 0 /\ ~leaseLive THEN "revoke" ELSE "motion"
  /\ UNCHANGED <<sessionVars, replaceVars, leaseVars, transitionVars, serviceVars,
                 transportVars, rGeneration, mailVars, bodyVars, historyVars>>

RevokeExpired ==
  /\ rpc = "revoke" /\ rpc' = "motion"
  /\ leaseId' = 0 /\ leaseSession' = 0 /\ leaseLive' = FALSE
  /\ heartbeat' = FALSE
  /\ StopBody
  /\ UNCHANGED <<sessionVars, replaceVars, transitionVars, serviceVars, transportVars,
                 rGeneration, mailVars, withdrawal, historyVars>>

\* The end of the tick: a drive past its deadline stops, a queued one starts.
RunMotion ==
  /\ rpc = "motion" /\ rpc' = "session"
  /\ LET still == IF moveDue THEN 0 ELSE moving
     IN  /\ IF still = 0 /\ queued # {}
            THEN \E l \in queued : moving' = l /\ queued' = queued \ {l}
            ELSE moving' = still /\ UNCHANGED queued
         /\ moveDue' = FALSE
  /\ UNCHANGED <<sessionVars, replaceVars, leaseVars, transitionVars, serviceVars,
                 transportVars, rGeneration, mailVars, withdrawal, heartbeat, historyVars>>

-----------------------------------------------------------------------------
(* Time passes.                                                            *)

Expire ==
  /\ leaseLive /\ leaseLive' = FALSE
  /\ lapsed' = lapsed \cup ({leaseId} \ {0})
  /\ UNCHANGED <<sessionVars, replaceVars, leaseId, leaseSession, transitionVars, serviceVars,
                 transportVars, runtimeVars, mailVars, bodyVars, granted, mintedFor, carried, late>>

ServiceExpire ==
  /\ serviceLive /\ serviceLive' = FALSE
  /\ UNCHANGED <<sessionVars, replaceVars, leaseVars, transitionVars, serviceLease,
                 serviceSession, transportVars, runtimeVars, mailVars, bodyVars, historyVars>>

MotionDue ==
  /\ moving # 0 /\ ~moveDue /\ moveDue' = TRUE
  /\ UNCHANGED <<sessionVars, replaceVars, leaseVars, transitionVars, serviceVars,
                 transportVars, runtimeVars, mailVars, queued, moving, withdrawal,
                 heartbeat, historyVars>>

-----------------------------------------------------------------------------
Request ==
  \/ \E h \in Hellos : Hello(h)
  \/ \E s \in Sessions : AcquireControl(s) \/ AcquireService(s)
  \/ \E l \in Leases : Command(l)

TransportStep ==
  HelloPublish \/ HelloReply \/ HelloTimeout \/ PublishTransition \/ LeaseGranted \/ ServiceGranted
    \/ TransitionTimeout \/ Check \/ SubmitMotion \/ SubmitHeartbeat

RuntimeStep ==
  \/ PollSessionReplace \/ AcknowledgeSession \/ RevokeForSession
  \/ PollAuthorityTransition \/ AcknowledgeAuthority \/ TakeCommand
  \/ EnforceSafety \/ EnforceHeartbeat \/ CheckExpiry \/ RevokeExpired \/ RunMotion

Clock == Expire \/ ServiceExpire \/ MotionDue

Next == Request \/ TransportStep \/ RuntimeStep \/ Clock

Spec == Init /\ [][Next]_vars

\* The runtime ticks for ever, deadlines pass, and a handler that can reply does.
FairSpec == Spec /\ WF_vars(RuntimeStep) /\ WF_vars(TransportStep) /\ WF_vars(MotionDue)

-----------------------------------------------------------------------------
(* Properties.                                                             *)

SessionOrNone == 0..MaxSessions
LeaseOrNone == 0..MaxLeases
TransportPcs == {"idle", "hello_publish", "hello_wait", "lease_publish", "lease_wait",
                 "service_publish", "service_wait", "admit_expiry", "admit_id", "admit_owner",
                 "admit_store"}
RuntimePcs == {"session", "session_ack", "session_revoke", "authority", "authority_ack",
               "take", "safety", "heartbeat", "expiry", "revoke", "motion"}

SessionTypes ==
  /\ generation \in SessionOrNone /\ lastSession \in SessionOrNone
  /\ lastHello \in Hellos \cup {NoHello}
  /\ helloOf \in [Sessions -> Hellos \cup {NoHello}]
  /\ diagnostic \in [1..DiagnosticSlots -> SessionOrNone]
ReplaceTypes ==
  /\ activeSession \in SessionOrNone /\ pendSession \in SessionOrNone
  /\ sessRequest \in SessionOrNone /\ sessAck \in SessionOrNone
  /\ activeTransport \in Transports \cup {"none"}
LeaseTypes ==
  leaseId \in LeaseOrNone /\ leaseSession \in SessionOrNone /\ leaseLive \in BOOLEAN
TransitionTypes ==
  /\ pendLease \in LeaseOrNone /\ pendLeaseSession \in SessionOrNone
  /\ authRequest \in LeaseOrNone /\ authAck \in LeaseOrNone
  /\ authGeneration \in LeaseOrNone
ServiceTypes ==
  serviceLease \in LeaseOrNone /\ serviceSession \in SessionOrNone /\ serviceLive \in BOOLEAN
LaneTypes ==
  /\ tpc \in TransportPcs /\ tSession \in SessionOrNone /\ tLease \in LeaseOrNone
  /\ rpc \in RuntimePcs /\ rGeneration \in Nat
BodyTypes ==
  /\ mail \in LeaseOrNone /\ mailBeat \in BOOLEAN
  /\ queued \subseteq Leases /\ moving \in LeaseOrNone /\ moveDue \in BOOLEAN
  /\ withdrawal \in BOOLEAN /\ heartbeat \in BOOLEAN
HistoryTypes ==
  /\ granted \subseteq Leases /\ mintedFor \in [Leases -> SessionOrNone]
  /\ lapsed \subseteq Leases /\ carried \in LeaseOrNone /\ late \in BOOLEAN

\* Sessions, leases, the lanes and the body's owner have their types.
TypeOK ==
  /\ SessionTypes /\ ReplaceTypes /\ LeaseTypes /\ TransitionTypes /\ ServiceTypes
  /\ LaneTypes /\ BodyTypes /\ HistoryTypes

\* "acquiring one first stops motion and revokes the control lease": a service
\* lease and a control lease are never installed together, whatever requests
\* time out and are acknowledged late.
ServiceExcludesControl == serviceLease # 0 => leaseId = 0

\* The lease changes hands only while the body is stopped and nothing is
\* queued (or a reflex withdrawal owns the body).
HandsOverStopped ==
  [][leaseSession' \notin {0, leaseSession} => withdrawal \/ (moving = 0 /\ queued = {})]_vars

\* A command is stored only if its lease had not run out when the command came,
\* although every request for a lease, its own renewal included, moves the
\* shared expiry first and the check loads expiry, id and session one by one.
\* The lease may still run out, or be revoked, between the check and the store.
LapsedNeverAdmitted == tpc = "admit_store" => ~late

\* Under a live lease the body moves for that lease's owner, or for the one
\* command that was waiting in the mailbox when the owner changed.
MovesForOwner ==
  leaseLive /\ leaseId # 0 /\ moving # 0
    => \/ mintedFor[moving] = leaseSession
       \/ moving = carried
       \/ rpc \in {"session_ack", "session_revoke", "authority_ack"}

\* A lease whose host is gone comes to its end with nobody left to ask for it:
\* once expired it is revoked by the runtime's next tick, or renewed, and motion
\* that is not the current lease's stops.
LapsedLeaseEnds ==
  \A l \in Leases :
    /\ (leaseId = l /\ ~leaseLive) ~> (leaseId # l \/ leaseLive)
    /\ (moving = l /\ leaseId # l) ~> (moving # l \/ leaseId = l)
=============================================================================
