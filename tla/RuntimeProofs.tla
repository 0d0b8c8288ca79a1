---------------------------- MODULE RuntimeProofs ----------------------------
(***************************************************************************)
(* Proofs about BrainstemRuntime, for any sensors, commands, ids, queue    *)
(* capacity and UART behaviour.                                            *)
(***************************************************************************)
EXTENDS BrainstemRuntime, TLAPS, SequenceTheorems, WellFoundedInduction

\* A command starts only when the last one has ended, and only a drive or a
\* settling step holds a command's id.
StartsIdle == phase = "start" => act = "none"
IdHeld == act \in {"none", "departure"} => actId = 0

RuntimeInv == DriveGated /\ StartsIdle /\ IdHeld

\* Where the tick is when it asks for its owner, and where it goes on.
Passes(f, t) == <<f, t>> \in {<<"barrier", "sense">>, <<"full", "expiry">>, <<"expiry", "advance">>}

\* The actions of a tick, for the proofs by cases below.
LEMMA NextCases ==
  ASSUME [Next]_vars
  PROVE  \/ \E f, t \in Phases : LoseOwner(f, t) /\ Passes(f, t)
         \/ \E f, t \in Phases : KeepOwner(f, t) /\ Passes(f, t)
         \/ Sense \/ TakeNothing
         \/ \E k \in Offered, i \in Ids : TakePreempting(k, i)
         \/ \E k \in Offered, i \in Ids : TakeVelocity(k, i)
         \/ \E k \in Offered, i \in Ids : TakeOrdinary(k, i)
         \/ CarefulTimeout \/ Safety \/ Heartbeat \/ FullRefresh \/ FullError
         \/ Advance \/ Start \/ ActionDue \/ CarefulDue \/ BeatDue
         \/ UNCHANGED vars
BY DEF Next, Tick, Clock, Barrier, Take, Expiry, FullSkip, Phases, Passes

LEMMA RuntimeInvInit == Init => RuntimeInv
BY DEF Init, RuntimeInv, DriveGated, StartsIdle, IdHeld

LEMMA RuntimeInvStep == RuntimeInv /\ [Next]_vars => RuntimeInv'
<1> SUFFICES ASSUME RuntimeInv, [Next]_vars PROVE RuntimeInv'
  OBVIOUS
<1> USE DEF RuntimeInv, DriveGated, StartsIdle, IdHeld, activeVars, gateVars
<1>1. ASSUME NEW f \in Phases, NEW t \in Phases, LoseOwner(f, t), Passes(f, t) PROVE RuntimeInv'
  BY <1>1 DEF LoseOwner, Passes, Halt, Release, NoAction
<1>2. ASSUME NEW f \in Phases, NEW t \in Phases, KeepOwner(f, t), Passes(f, t) PROVE RuntimeInv'
  BY <1>2 DEF KeepOwner, Passes
<1>3. CASE Sense
  BY <1>3 DEF Sense
<1>4. CASE TakeNothing
  BY <1>4 DEF TakeNothing
<1>5. ASSUME NEW k \in Offered, NEW i \in Ids, TakePreempting(k, i) PROVE RuntimeInv'
  BY <1>5 DEF TakePreempting, Release, NoAction
<1>6. ASSUME NEW k \in Offered, NEW i \in Ids, TakeVelocity(k, i) PROVE RuntimeInv'
  <2>1. gateVars' = gateVars /\ phase' = "careful"
    BY <1>6 DEF TakeVelocity
  <2>2. \/ act' = act /\ actId' = actId /\ rec' = rec
        \/ act' = "none" /\ actId' = 0
    BY <1>6 DEF TakeVelocity, NoAction
  <2> QED BY <2>1, <2>2
<1>7. ASSUME NEW k \in Offered, NEW i \in Ids, TakeOrdinary(k, i) PROVE RuntimeInv'
  BY <1>7 DEF TakeOrdinary
<1>8. CASE CarefulTimeout
  BY <1>8 DEF CarefulTimeout, Halt, InterruptError, EnterError, EnterErrorWith, Release, NoAction
<1>9. CASE Safety
  <2> USE <1>9 DEF Halt, InterruptError, EnterErrorWith, Release, NoAction
  <2>1. CASE SafetyEscape
    BY <2>1 DEF Safety, SafetyEscape, Trip
  <2>2. CASE SafetyCareful
    BY <2>2 DEF Safety, SafetyCareful
  <2>3. CASE SafetyDock
    BY <2>3 DEF Safety, SafetyDock, ClearMotion
  <2>4. CASE SafetyCharging
    BY <2>4 DEF Safety, SafetyCharging, ClearMotion
  <2>5. CASE SafetyNothing
    BY <2>5 DEF Safety, SafetyNothing
  <2>6. CASE SafetyStop
    BY <2>6 DEF Safety, SafetyStop, Trip
  <2>7. CASE SafetyContact
    BY <2>7 DEF Safety, SafetyContact
  <2> QED BY <1>9, <2>1, <2>2, <2>3, <2>4, <2>5, <2>6, <2>7 DEF Safety
<1>10. CASE Heartbeat
  BY <1>10 DEF Heartbeat, Halt, InterruptError, EnterErrorWith, Release, NoAction
<1>11. CASE FullRefresh
  BY <1>11 DEF FullRefresh
<1>12. CASE FullError
  BY <1>12 DEF FullError, EnterError, EnterErrorWith, Release, NoAction
<1>13. CASE Advance
  BY <1>13 DEF Advance, EndMotion, MotorActive, EnterError, EnterErrorWith, Release, NoAction
<1>14. CASE Start
  <2>0. act = "none" /\ actId = 0
    BY <1>14 DEF Start
  <2>1. CASE StartNothing
    BY <2>0, <2>1 DEF StartNothing, Complete
  <2>2. CASE StartDeparture
    BY <2>0, <2>2 DEF StartDeparture, EnterError, EnterErrorWith, Release, NoAction
  <2>3. ASSUME NEW q, NEW c, StartStop(q, c) PROVE RuntimeInv'
    BY <2>0, <2>3 DEF StartStop, Refuse
  <2>4. ASSUME NEW q, NEW c, StartDrive(q, c) PROVE RuntimeInv'
    BY <2>0, <2>4 DEF StartDrive, Refuse, MotionAllowed
  <2>5. ASSUME NEW q, NEW c, StartSettle(q, c) PROVE RuntimeInv'
    BY <2>0, <2>5 DEF StartSettle, Refuse
  <2>6. ASSUME NEW q, NEW c, StartImmediate(q, c) PROVE RuntimeInv'
    BY <2>0, <2>6 DEF StartImmediate, Complete, Refuse
  <2> QED BY <1>14, <2>1, <2>2, <2>3, <2>4, <2>5, <2>6 DEF Start
<1>15. CASE ActionDue
  BY <1>15 DEF ActionDue
<1>16. CASE CarefulDue
  BY <1>16 DEF CarefulDue
<1>17. CASE BeatDue
  BY <1>17 DEF BeatDue
<1>18. CASE UNCHANGED vars
  BY <1>18 DEF vars
<1> HIDE DEF RuntimeInv
<1> QED BY NextCases, <1>1, <1>2, <1>3, <1>4, <1>5, <1>6, <1>7, <1>8, <1>9, <1>10, <1>11,
           <1>12, <1>13, <1>14, <1>15, <1>16, <1>17, <1>18

\* No drive runs past a latch: see DriveGated.  Whatever the sensors report,
\* the host sends or the UART fails to write, in whatever order.
THEOREM DrivesAreGated == Spec => []DriveGated
<1>1. RuntimeInv => DriveGated
  BY DEF RuntimeInv
<1> QED BY RuntimeInvInit, RuntimeInvStep, <1>1, PTL DEF Spec

-----------------------------------------------------------------------------
(* Terminal events.                                                        *)

\* A command that was active and no longer is has been told so by that very
\* step: see RunningClosed.
THEOREM RunningCommandsClosed == Spec => RunningClosed
<1> DEFINE Told == actId # 0 /\ actId' # actId => actId \in told'
<1>1. ASSUME RuntimeInv, [Next]_vars PROVE Told
  <2> USE <1>1 DEF RuntimeInv, StartsIdle, IdHeld, activeVars, gateVars
  <2>1. ASSUME NEW f \in Phases, NEW t \in Phases, LoseOwner(f, t), Passes(f, t) PROVE Told
    BY <2>1 DEF LoseOwner, Halt, Release
  <2>2. ASSUME NEW f \in Phases, NEW t \in Phases, KeepOwner(f, t), Passes(f, t) PROVE Told
    BY <2>2 DEF KeepOwner
  <2>3. CASE Sense \/ TakeNothing \/ FullRefresh
    BY <2>3 DEF Sense, TakeNothing, FullRefresh
  <2>5. ASSUME NEW k \in Offered, NEW i \in Ids, TakePreempting(k, i) PROVE Told
    BY <2>5 DEF TakePreempting, Release
  <2>6. ASSUME NEW k \in Offered, NEW i \in Ids, TakeVelocity(k, i) PROVE Told
    BY <2>6 DEF TakeVelocity
  <2>7. ASSUME NEW k \in Offered, NEW i \in Ids, TakeOrdinary(k, i) PROVE Told
    BY <2>7 DEF TakeOrdinary
  <2>8. CASE CarefulTimeout
    BY <2>8 DEF CarefulTimeout, Halt, InterruptError, EnterError, EnterErrorWith, Release
  <2>9. CASE Safety
    BY <2>9 DEF Safety, SafetyEscape, SafetyCareful, SafetyDock, SafetyCharging, SafetyNothing,
       SafetyStop, SafetyContact, Trip, ClearMotion, Halt, InterruptError, EnterErrorWith, Release
  <2>10. CASE Heartbeat
    BY <2>10 DEF Heartbeat, Halt, InterruptError, EnterErrorWith, Release
  <2>11. CASE FullError
    BY <2>11 DEF FullError, EnterError, EnterErrorWith, Release
  <2>12. CASE Advance
    BY <2>12 DEF Advance, EndMotion, EnterError, EnterErrorWith, Release
  <2>13. CASE Start
    BY <2>13 DEF Start
  <2>14. CASE ActionDue \/ CarefulDue \/ BeatDue
    BY <2>14 DEF ActionDue, CarefulDue, BeatDue
  <2>15. CASE UNCHANGED vars
    BY <2>15 DEF vars
  <2> HIDE DEF Told
  <2> QED BY NextCases, <2>1, <2>2, <2>3, <2>5, <2>6, <2>7, <2>8, <2>9, <2>10, <2>11, <2>12,
             <2>13, <2>14, <2>15
<1>2. RuntimeInv /\ [Next]_vars => [Told]_vars
  BY <1>1
<1> QED BY RuntimeInvInit, RuntimeInvStep, <1>2, PTL DEF Spec, RunningClosed

-----------------------------------------------------------------------------
(* The contact reflex.                                                     *)

\* WithdrawalCarriedOut, with what the reflex needs in order to start: no
\* escape, no departure and an error in its way.
ReflexReady ==
  /\ act = "none" /\ queue = <<Recovery>> /\ ~Moving /\ esc = "none"
  /\ mode = "running" /\ ~departure
  /\ phase \in {"beat", "full", "expiry", "advance", "start"}
ReflexRuns == act = "driving" /\ rec /\ vel = "reverse" /\ esc = "none"
ReflexInv == withdrawal => ReflexRuns \/ ReflexReady

LEMMA ReflexInvStep ==
  ASSUME RuntimeInv, ReflexInv, careful # "due", [Next]_vars
  PROVE  ReflexInv'
<1> USE DEF ReflexInv, ReflexReady, ReflexRuns, Moving, activeVars, outputVars, gateVars
<1>1. CASE Barrier
  BY <1>1 DEF Barrier, LoseOwner, KeepOwner, Halt
<1>2. CASE Expiry
  BY <1>2 DEF Expiry, LoseOwner, KeepOwner, Halt
<1>3. CASE FullSkip
  BY <1>3 DEF FullSkip, KeepOwner
<1>4. CASE Sense \/ TakeNothing \/ FullRefresh \/ FullError
  BY <1>4 DEF Sense, TakeNothing, FullRefresh, FullError, EnterError, EnterErrorWith
<1>5. ASSUME NEW k \in Offered, NEW i \in Ids,
             TakePreempting(k, i) \/ TakeVelocity(k, i) \/ TakeOrdinary(k, i)
      PROVE  ReflexInv'
  <2>1. ~withdrawal'
    BY <1>5 DEF TakePreempting, TakeVelocity, TakeOrdinary
  <2> QED BY <2>1
<1>6. CASE CarefulTimeout
  BY <1>6 DEF CarefulTimeout, EnterError, EnterErrorWith
<1>7. CASE Safety
  <2>1. CASE SafetyEscape
    <3>1. esc # "none" /\ phase = "safety"
      BY <1>7, <2>1 DEF Safety, SafetyEscape, SafetyBranch
    <3>2. ~withdrawal
      BY <3>1
    <3>3. withdrawal' = withdrawal \/ ~withdrawal'
      BY <2>1 DEF SafetyEscape, Trip, InterruptError, EnterErrorWith
    <3> QED BY <3>2, <3>3
  <2>2. CASE SafetyCareful \/ SafetyNothing
    BY <1>7, <2>2 DEF Safety, SafetyCareful, SafetyNothing
  <2>3. CASE SafetyDock
    BY <1>7, <2>3 DEF Safety, SafetyDock, InterruptError, EnterErrorWith
  <2>4. CASE SafetyCharging
    BY <1>7, <2>4 DEF Safety, SafetyCharging, InterruptError, EnterErrorWith
  <2>5. CASE SafetyStop
    BY <1>7, <2>5 DEF Safety, SafetyStop, Trip, InterruptError, EnterErrorWith
  <2>6. CASE SafetyContact
    <3>1. ~Docked
      BY <2>6 DEF SafetyContact, SafetyBranch, Falling
    <3>2. CASE ~withdrawal'
      BY <3>2
    <3>3. CASE Halt(<<Recovery>>, TRUE) /\ mode' = "running" /\ phase' = "beat"
      BY <2>6, <3>1, <3>3 DEF SafetyContact, Halt, NoAction, DepartureKept, Recovery
    <3> QED BY <2>6, <3>2, <3>3 DEF SafetyContact, InterruptError, EnterErrorWith
  <2> QED BY <1>7, <2>1, <2>2, <2>3, <2>4, <2>5, <2>6 DEF Safety
<1>8. CASE Heartbeat
  BY <1>8 DEF Heartbeat, InterruptError, EnterErrorWith
<1>9. CASE Advance
  BY <1>9 DEF Advance, EndMotion, StopDrive, MotorActive, EnterError, EnterErrorWith
<1>10. CASE Start
  <2>1. CASE ~withdrawal
    <3>1. ~withdrawal'
      BY <1>10, <2>1 DEF Start, StartNothing, StartDeparture, StartStop, StartDrive, StartSettle,
         StartImmediate, Complete, Refuse, EnterError, EnterErrorWith
    <3> QED BY <3>1
  <2>2. CASE withdrawal
    <3>1. ReflexReady
      BY <1>10, <2>2 DEF Start, RuntimeInv, StartsIdle
    <3>2. Head(queue) = Recovery /\ queue # <<>>
      BY <3>1
    <3>3. ~DepartureDue
      BY <3>1 DEF DepartureDue
    <3>4. Recovery.kind = "reverse" /\ Recovery.rec
      BY DEF Recovery, Cmd
    <3>5. StartDrive(Tail(queue), Recovery)
      BY <1>10, <3>2, <3>3, <3>4 DEF Start, StartNothing, StartDeparture, StartStop, StartSettle,
         StartImmediate
    <3> QED BY <3>1, <3>4, <3>5 DEF StartDrive, Refuse, Escapes, Direction
  <2> QED BY <2>1, <2>2
<1>11. CASE ActionDue \/ CarefulDue \/ BeatDue
  BY <1>11 DEF ActionDue, CarefulDue, BeatDue
<1>12. CASE UNCHANGED vars
  BY <1>12 DEF vars
<1> HIDE DEF ReflexInv
<1> QED BY <1>1, <1>2, <1>3, <1>4, <1>5, <1>6, <1>7, <1>8, <1>9, <1>10, <1>11, <1>12
        DEF Next, Tick, Clock, Take

\* The contact reflex is never forgotten, and never pushed aside by another
\* owner, a second trip or the host, as long as no careful mode runs out
\* unnoticed: see WithdrawalCarriedOut.  The end of careful mode is the one
\* step that stops the body without ending the reflex.
THEOREM ReflexIsCarriedOut == Spec /\ [](careful # "due") => []WithdrawalCarriedOut
<1>1. Init => ReflexInv
  BY DEF Init, ReflexInv
<1>2. RuntimeInv /\ ReflexInv /\ careful # "due" /\ [Next]_vars => ReflexInv'
  BY ReflexInvStep
<1>3. ReflexInv => WithdrawalCarriedOut
  BY DEF ReflexInv, ReflexReady, ReflexRuns, WithdrawalCarriedOut
<1> QED BY RuntimeInvInit, RuntimeInvStep, <1>1, <1>2, <1>3, PTL DEF Spec
-----------------------------------------------------------------------------
(* The queue.  Without is a recursive function: what it computes is shown   *)
(* by induction over the prefixes of the queue.                             *)

\* f is what is kept of each prefix of q up to n.
KeptUpTo(q, kinds, n, f) ==
  f = [i \in 0..n |-> IF i = 0 THEN <<>>
                      ELSE IF q[i].kind \in kinds THEN f[i - 1] ELSE Append(f[i - 1], q[i])]

\* A set of numbers has a least one: the form of induction used below.
LEMMA LeastOf ==
  ASSUME NEW S \in SUBSET Nat, S # {}
  PROVE  \E x \in S : \A y \in S : x <= y
<1> DEFINE R == OpToRel(<, Nat)
<1>1. IsWellFoundedOn(R, Nat)
  BY NatLessThanWellFounded
<1> HIDE DEF R
<1>2. PICK x \in S : \A y \in S : ~(<<y, x>> \in R)
  BY <1>1, WFMin
<1>3. \A y \in S : x <= y
  <2> SUFFICES ASSUME NEW y \in S PROVE x <= y
    OBVIOUS
  <2>1. ~(<<y, x>> \in R)
    BY <1>2
  <2> QED BY <2>1 DEF R, OpToRel
<1> QED BY <1>3

\* There is such a function for every prefix, by induction over its length.
LEMMA KeptExists ==
  ASSUME NEW q, NEW kinds, NEW m \in Nat
  PROVE  \E f : KeptUpTo(q, kinds, m, f)
<1> DEFINE Bad == {n \in Nat : ~\E f : KeptUpTo(q, kinds, n, f)}
<1>1. SUFFICES ASSUME Bad # {} PROVE FALSE
  OBVIOUS
<1>2. PICK x \in Bad : \A y \in Bad : x <= y
  BY <1>1, LeastOf
<1>3. x # 0
  <2>1. KeptUpTo(q, kinds, 0, [i \in 0..0 |-> <<>>])
    BY DEF KeptUpTo
  <2> QED BY <1>2, <2>1
<1>4. x - 1 \in Nat /\ x - 1 < x
  BY <1>2, <1>3
<1>5. PICK f : KeptUpTo(q, kinds, x - 1, f)
  BY <1>2, <1>4
<1> DEFINE g == [i \in 0..x |-> IF i = x THEN IF q[i].kind \in kinds THEN f[i - 1] ELSE Append(f[i - 1], q[i]) ELSE f[i]]
<1>6. ASSUME NEW i \in 0..x PROVE g[i] = IF i = 0 THEN <<>> 
                       ELSE IF q[i].kind \in kinds THEN g[i - 1] ELSE Append(g[i - 1], q[i])
  <2>1. CASE i = x
    <3>1. i - 1 \in 0..x /\ i - 1 # x /\ i # 0
      BY <2>1, <1>2, <1>3, <1>4
    <3>2. g[i - 1] = f[i - 1]
      BY <3>1
    <3> QED BY <3>1, <3>2, <2>1
  <2>2. CASE i = 0
    BY <2>2, <1>3, <1>4, <1>5 DEF KeptUpTo
  <2>3. CASE i # x /\ i # 0
    <3>1. i - 1 \in 0..x /\ i - 1 # x /\ i \in 0..(x - 1)
      BY <2>3, <1>2, <1>3, <1>4
    <3>2. g[i - 1] = f[i - 1] /\ g[i] = f[i]
      BY <3>1, <2>3
    <3>3. f[i] = IF i = 0 THEN <<>> ELSE IF q[i].kind \in kinds THEN f[i - 1] ELSE Append(f[i - 1], q[i])
      BY ONLY <3>1, <1>5 DEF KeptUpTo
    <3> QED BY <3>2, <3>3
  <2> QED BY <2>1, <2>2, <2>3
<1>7. KeptUpTo(q, kinds, x, g)
  <2>1. g = [i \in 0..x |-> g[i]]
    OBVIOUS
  <2> HIDE DEF g
  <2> QED BY <1>6, <2>1 DEF KeptUpTo
<1> QED BY <1>7, <1>2

\* Without is the last of what is kept of the prefixes.
LEMMA WithoutKept ==
  ASSUME NEW q, NEW kinds, Len(q) \in Nat
  PROVE  \E f : KeptUpTo(q, kinds, Len(q), f) /\ Without(q, kinds) = f[Len(q)]
<1> DEFINE K[n \in 0..Len(q)] ==
        IF n = 0 THEN <<>>
        ELSE IF q[n].kind \in kinds THEN K[n - 1] ELSE Append(K[n - 1], q[n])
<1>1. Without(q, kinds) = K[Len(q)]
  BY DEF Without
<1>2. \E f : f = [n \in 0..Len(q) |->
        IF n = 0 THEN <<>>
        ELSE IF q[n].kind \in kinds THEN f[n - 1] ELSE Append(f[n - 1], q[n])]
  <2>1. PICK f : KeptUpTo(q, kinds, Len(q), f)
    BY KeptExists
  <2> QED BY <2>1 DEF KeptUpTo
<1>3. K = [n \in 0..Len(q) |->
        IF n = 0 THEN <<>>
        ELSE IF q[n].kind \in kinds THEN K[n - 1] ELSE Append(K[n - 1], q[n])]
  BY <1>2, Zenon
<1> HIDE DEF K
<1>4. KeptUpTo(q, kinds, Len(q), K)
  BY <1>3 DEF KeptUpTo
<1> QED BY <1>1, <1>4

\* Without returns commands of the queue, none further back than it was.
LEMMA WithoutFrom ==
  ASSUME NEW S, NEW q \in Seq(S), NEW kinds
  PROVE  /\ Without(q, kinds) \in Seq(S) /\ Len(Without(q, kinds)) <= Len(q)
         /\ \A i \in 1..Len(Without(q, kinds)) : \E j \in i..Len(q) : Without(q, kinds)[i] = q[j]
<1>1. PICK f : KeptUpTo(q, kinds, Len(q), f) /\ Without(q, kinds) = f[Len(q)]
  BY WithoutKept
<1> DEFINE Good(n) == /\ f[n] \in Seq(S) /\ Len(f[n]) <= n
                      /\ \A i \in 1..Len(f[n]) : \E j \in i..n : f[n][i] = q[j]
           Bad == {n \in 0..Len(q) : ~Good(n)}
<1>2. SUFFICES Bad = {}
  BY <1>1
<1>3. SUFFICES ASSUME Bad # {} PROVE FALSE
  OBVIOUS
<1>4. PICK x \in Bad : \A y \in Bad : x <= y
  <2>1. Bad \in SUBSET Nat
    OBVIOUS
  <2> HIDE DEF Bad
  <2> QED BY <2>1, <1>3, LeastOf
<1>5. x # 0
  <2>1. f[0] = <<>>
    BY <1>1 DEF KeptUpTo
  <2>2. Good(0)
    BY <2>1
  <2> QED BY <2>2, <1>4
<1>6. x \in Nat /\ x - 1 \in 0..Len(q) /\ x - 1 < x
  BY <1>4, <1>5
<1>7. Good(x - 1)
  BY <1>4, <1>6
<1>8. f[x] = IF q[x].kind \in kinds THEN f[x - 1] ELSE Append(f[x - 1], q[x])
  BY <1>1, <1>4, <1>5 DEF KeptUpTo
<1>9. q[x] \in S
  BY <1>4, <1>5
<1>10. CASE q[x].kind \in kinds
  <2>1. f[x] = f[x - 1]
    BY <1>10, <1>8
  <2>2. f[x] \in Seq(S) /\ Len(f[x]) <= x
    BY <2>1, <1>7, <1>6
  <2>3. ASSUME NEW i \in 1..Len(f[x]) PROVE \E j \in i..x : f[x][i] = q[j]
    <3>1. PICK j \in i..(x - 1) : f[x - 1][i] = q[j]
      BY <1>7, <2>1
    <3> QED BY <3>1, <2>1, <1>6
  <2>4. Good(x)
    BY <2>2, <2>3
  <2> HIDE DEF Good
  <2> QED BY <2>4, <1>4
<1>11. CASE q[x].kind \notin kinds
  <2> DEFINE r == f[x - 1]
  <2>1. f[x] = Append(r, q[x]) /\ r \in Seq(S) /\ Len(r) <= x - 1
    BY <1>11, <1>8, <1>7
  <2> HIDE DEF r
  <2>2. f[x] \in Seq(S) /\ Len(f[x]) = Len(r) + 1
    BY <2>1, <1>9
  <2>3. ASSUME NEW i \in 1..Len(f[x]) PROVE \E j \in i..x : f[x][i] = q[j]
    <3>1. CASE i <= Len(r)
      <4>1. f[x][i] = r[i]
        BY <2>1, <1>9, <3>1
      <4>2. PICK j \in i..(x - 1) : r[i] = q[j]
        BY <1>7, <3>1, <2>1 DEF r
      <4> QED BY <4>1, <4>2, <1>6
    <3>2. CASE i = Len(r) + 1
      <4>1. f[x][i] = q[x]
        BY <2>1, <1>9, <3>2
      <4> QED BY <4>1, <2>1, <3>2, <1>6
    <3> QED BY <3>1, <3>2, <2>2, <2>1
  <2>4. Len(f[x]) <= x
    BY <2>1, <2>2, <1>6
  <2>5. Good(x)
    BY <2>2, <2>3, <2>4
  <2> HIDE DEF Good
  <2> QED BY <2>5, <1>4
<1> QED BY <1>10, <1>11

\* The commands after the first are of S.
AfterFirst(q, S) == \A i \in 2..Len(q) : q[i] \in S

\* Dropping commands of a queue adds none and moves none back.
LEMMA WithoutAfter ==
  ASSUME NEW T, NEW S, NEW q \in Seq(T), NEW kinds, AfterFirst(q, S)
  PROVE  AfterFirst(Without(q, kinds), S)
<1> SUFFICES ASSUME NEW i \in 2..Len(Without(q, kinds)) PROVE Without(q, kinds)[i] \in S
  BY DEF AfterFirst
<1>1. Len(Without(q, kinds)) \in Nat
  BY WithoutFrom, LenProperties
<1>2. i \in 1..Len(Without(q, kinds))
  BY <1>1
<1>3. PICK j \in i..Len(q) : Without(q, kinds)[i] = q[j]
  BY <1>2, WithoutFrom
<1>4. j \in 2..Len(q)
  BY <1>3
<1> QED BY <1>3, <1>4 DEF AfterFirst

\* A command pushed to the back is the last one, or is dropped.
LEMMA PushBackIn ==
  ASSUME NEW S, NEW q \in Seq(S), NEW c \in S, NEW T
  PROVE  /\ PushBack(q, c) \in Seq(S)
         /\ Len(q) <= QueueCap => Len(PushBack(q, c)) <= QueueCap
         /\ AfterFirst(q, T) /\ c \in T => AfterFirst(PushBack(q, c), T)
<1> USE CapAssumption
<1>1. Append(q, c) \in Seq(S) /\ Len(Append(q, c)) = Len(q) + 1 /\ Len(q) \in Nat
  OBVIOUS
<1>2. \A i \in 1..Len(q) : Append(q, c)[i] = q[i]
  OBVIOUS
<1>3. Append(q, c)[Len(q) + 1] = c
  OBVIOUS
<1>4. AfterFirst(q, T) /\ c \in T => AfterFirst(Append(q, c), T)
  <2> SUFFICES ASSUME AfterFirst(q, T), c \in T, NEW i \in 2..Len(Append(q, c))
               PROVE  Append(q, c)[i] \in T
    BY DEF AfterFirst
  <2>1. CASE i \in 2..Len(q)
    <3>1. i \in 1..Len(q)
      BY <2>1, <1>1
    <3> QED BY <2>1, <3>1, <1>2 DEF AfterFirst
  <2>2. CASE i = Len(q) + 1
    BY <2>2, <1>3
  <2> QED BY <1>1, <2>1, <2>2
<1> QED BY <1>1, <1>4 DEF PushBack

\* A command pushed to the front has the queue behind it, or is dropped.
LEMMA PushFrontIn ==
  ASSUME NEW S, NEW q \in Seq(S), NEW c \in S
  PROVE  /\ PushFront(q, c) \in Seq(S)
         /\ Len(q) <= QueueCap => Len(PushFront(q, c)) <= QueueCap
<1> USE CapAssumption
<1>1. <<c>> \in Seq(S) /\ Len(<<c>>) = 1
  OBVIOUS
<1>2. <<c>> \o q \in Seq(S) /\ Len(<<c>> \o q) = Len(q) + 1
  BY <1>1, ConcatProperties
<1> QED BY <1>2 DEF PushFront

\* Starting the first command leaves the ones after it.
LEMMA TailIn ==
  ASSUME NEW S, NEW q \in Seq(S), q # <<>>, NEW T
  PROVE  /\ Head(q) \in S /\ Tail(q) \in Seq(S) /\ Len(Tail(q)) <= Len(q)
         /\ AfterFirst(q, T) => Tail(q) \in Seq(T)
<1>1. Head(q) \in S /\ Tail(q) \in Seq(S) /\ Len(Tail(q)) = Len(q) - 1 /\ Len(q) \in Nat \ {0}
  BY HeadTailProperties, EmptySeq, LenProperties
<1>2. ASSUME AfterFirst(q, T) PROVE Tail(q) \in Seq(T)
  <2>1. Tail(q) = SubSeq(q, 2, Len(q))
    BY TailIsSubSeq
  <2>2. SubSeq(q, 2, Len(q)) \in Seq(T)
    BY <1>1, <1>2, SubSeqProperties DEF AfterFirst
  <2> QED BY <2>1, <2>2
<1> QED BY <1>1, <1>2

LEMMA AllAfter ==
  ASSUME NEW S, NEW q \in Seq(S)
  PROVE  AfterFirst(q, S)
BY DEF AfterFirst

-----------------------------------------------------------------------------
(* Types.                                                                  *)

\* The ids that are told are ids of the host.
LEMMA IdsTyped ==
  ASSUME NEW q \in Seq(Commands)
  PROVE  IdsOf(q) \subseteq Ids
<1>1. ToSet(q) \subseteq Commands
  BY DEF ToSet
<1> QED BY <1>1 DEF IdsOf, Commands

LEMMA SupersededTyped ==
  ASSUME QueueTypes, NEW i \in Ids
  PROVE  Superseded(i) \subseteq Ids
<1>1. ToSet(queue) \subseteq Commands
  BY DEF QueueTypes, ToSet
<1> QED BY <1>1 DEF Superseded, Commands

LEMMA CmdTyped ==
  ASSUME NEW k \in Kinds, NEW i \in Ids \cup {0}, NEW r \in BOOLEAN
  PROVE  Cmd(k, i, r) \in Commands
BY DEF Cmd, Commands

\* A queue of one or two commands.
LEMMA ShortIn ==
  ASSUME NEW S, NEW c \in S, NEW d \in S
  PROVE  <<>> \in Seq(S) /\ <<c>> \in Seq(S) /\ <<c, d>> \in Seq(S)
OBVIOUS

LEMMA ShortQueues ==
  /\ <<>> \in Seq(Commands) /\ Len(<<>>) <= QueueCap
  /\ \A c \in Commands : <<c>> \in Seq(Commands) /\ Len(<<c>>) <= QueueCap
  /\ \A c, d \in Commands : <<c, d>> \in Seq(Commands) /\ Len(<<c, d>>) <= QueueCap
BY CapAssumption

LEMMA RecoveryTyped == Recovery \in Commands
BY CmdTyped DEF Recovery, Kinds, Velocities

LEMMA ScriptTyped ==
  ASSUME NEW k \in {"stop", "estop", "disarm", "restart"}, NEW i \in Ids
  PROVE  Script(k, i) \in Seq(Commands) /\ Len(Script(k, i)) <= QueueCap
<1>1. {"stop", "estop", "settle"} \subseteq Kinds
  BY DEF Kinds
<1>2. Cmd("stop", i, FALSE) \in Commands /\ Cmd("estop", i, FALSE) \in Commands
      /\ Cmd("settle", i, FALSE) \in Commands
  BY <1>1, CmdTyped
<1> QED BY <1>2, ShortQueues DEF Script

\* What stopping the drive, interrupting the active command and failing leave.
BodyTypes == QueueTypes /\ Len(queue) <= QueueCap /\ ActiveTypes /\ OutputTypes
             /\ beat \in {"off", "armed", "due"} /\ told \subseteq Ids

LEMMA StopDriveTyped ==
  ASSUME TypeOK, NEW ok, NEW v \in {"none", "forward", "reverse"}, NEW e \in {"none", "bump", "cliff"},
         NEW b \in {"off", "armed", "due"}, StopDrive(ok, v, e, b)
  PROVE  OutputTypes' /\ beat' \in {"off", "armed", "due"}
BY DEF StopDrive, TypeOK, OutputTypes, TimerTypes

LEMMA ReleaseTyped ==
  ASSUME TypeOK, Release
  PROVE  actId' \in Ids \cup {0} /\ rec' \in BOOLEAN /\ told' \subseteq Ids
BY DEF TypeOK, ActiveTypes, Release

LEMMA HaltTyped ==
  ASSUME TypeOK, NEW q \in Seq(Commands), Len(q) <= QueueCap, NEW ok, Halt(q, ok)
  PROVE  BodyTypes'
BY ReleaseTyped DEF TypeOK, Halt, NoAction, BodyTypes, QueueTypes, ActiveTypes, OutputTypes

LEMMA ErrorTyped ==
  ASSUME TypeOK, NEW q \in Seq(Commands), Len(q) <= QueueCap,
         NEW v \in {"none", "forward", "reverse"}, NEW e \in {"none", "bump", "cliff"},
         NEW b \in {"off", "armed", "due"}, EnterErrorWith(q, v, e, b)
  PROVE  BodyTypes' /\ TickTypes' /\ withdrawal' \in BOOLEAN
<1>1. PICK ok \in Outcomes : StopDrive(ok, v, e, b)
  BY DEF EnterErrorWith
<1>2. OutputTypes' /\ beat' \in {"off", "armed", "due"}
  BY <1>1, StopDriveTyped DEF TypeOK, TimerTypes
<1>3. TickTypes' /\ withdrawal' \in BOOLEAN
  BY DEF EnterErrorWith, TickTypes, Phases
<1>4. QueueTypes' /\ Len(queue') <= QueueCap /\ ActiveTypes' /\ told' \subseteq Ids
  BY ReleaseTyped DEF EnterErrorWith, NoAction, QueueTypes, ActiveTypes
<1> QED BY <1>2, <1>3, <1>4 DEF BodyTypes

\* The queue as it is, and without some kinds.
LEMMA QueueTyped ==
  ASSUME TypeOK
  PROVE  /\ queue \in Seq(Commands) /\ Len(queue) <= QueueCap
         /\ \A kinds : Without(queue, kinds) \in Seq(Commands) /\ Len(Without(queue, kinds)) <= QueueCap
<1>1. queue \in Seq(Commands) /\ Len(queue) <= QueueCap /\ Len(queue) \in Nat /\ QueueCap \in Nat
  BY CapAssumption DEF TypeOK, QueueTypes
<1>2. ASSUME NEW kinds PROVE Without(queue, kinds) \in Seq(Commands) /\ Len(Without(queue, kinds)) <= QueueCap
  <2>1. Without(queue, kinds) \in Seq(Commands) /\ Len(Without(queue, kinds)) <= Len(queue)
    BY <1>1, WithoutFrom
  <2>2. Len(Without(queue, kinds)) \in Nat
    BY <2>1, LenProperties
  <2> QED BY <1>1, <2>1, <2>2
<1> QED BY <1>1, <1>2

LEMMA EnterErrorTyped ==
  ASSUME TypeOK, EnterError(queue)
  PROVE  BodyTypes' /\ TickTypes' /\ withdrawal' \in BOOLEAN
BY ErrorTyped, QueueTyped DEF EnterError, TypeOK, OutputTypes, TimerTypes

LEMMA InterruptErrorTyped ==
  ASSUME TypeOK, NEW q \in Seq(Commands), Len(q) <= QueueCap, InterruptError(q)
  PROVE  BodyTypes' /\ TickTypes' /\ withdrawal' \in BOOLEAN
BY ErrorTyped DEF InterruptError, TypeOK, TimerTypes

LEMMA TypeInit == Init => TypeOK
<1> SUFFICES ASSUME Init PROVE TypeOK
  OBVIOUS
<1>1. Cmd("settle", 0, FALSE) \in Commands
  BY CmdTyped DEF Kinds
<1>2. QueueTypes /\ Len(queue) <= QueueCap
  BY <1>1, ShortQueues DEF Init, QueueTypes
<1>3. TickTypes /\ ActiveTypes /\ SenseTypes /\ GateTypes /\ TimerTypes
  BY DEF Init, TickTypes, ActiveTypes, SenseTypes, GateTypes, TimerTypes, Phases
<1>4. OutputTypes
  BY InputAssumption DEF Init, OutputTypes
<1> QED BY <1>2, <1>3, <1>4 DEF TypeOK

\* The steps before the safety policy keep the types.
LEMMA TakeTyped ==
  ASSUME TypeOK, NEW k \in Offered, NEW i \in Ids,
         TakePreempting(k, i) \/ TakeVelocity(k, i) \/ TakeOrdinary(k, i)
  PROVE  TypeOK'
<1>1. k \in Kinds
  BY InputAssumption
<1>2. SenseTypes' /\ GateTypes' /\ TickTypes'
  BY DEF TypeOK, TakePreempting, TakeVelocity, TakeOrdinary, SenseTypes, GateTypes, TickTypes, Phases,
     senseVars, gateVars
<1>3. CASE TakePreempting(k, i)
  <2>1. queue' \in Seq(Commands) /\ Len(queue') <= QueueCap
    BY <1>3, ScriptTyped DEF TakePreempting
  <2>2. actId' \in Ids \cup {0} /\ rec' \in BOOLEAN /\ told' \subseteq Ids
    BY <1>3, ReleaseTyped DEF TakePreempting
  <2>3. OutputTypes' /\ withdrawal' \in BOOLEAN /\ beat' = "off" /\ careful' \in {"off", careful}
        /\ act' = "none" /\ due' = FALSE
    BY <1>3 DEF TakePreempting, NoAction, TypeOK, OutputTypes
  <2> QED BY <1>2, <2>1, <2>2, <2>3 DEF TypeOK, QueueTypes, ActiveTypes, TimerTypes
<1>4. CASE TakeVelocity(k, i)
  <2> DEFINE q == Without(queue, Velocities)
             c == Cmd(k, i, FALSE)
  <2>1. q \in Seq(Commands) /\ Len(q) <= QueueCap /\ c \in Commands
    BY <1>1, QueueTyped, CmdTyped
  <2>2. Superseded(i) \subseteq Ids
    BY SupersededTyped DEF TypeOK
  <2> HIDE DEF q, c
  <2>3. queue' \in {q, PushFront(q, c), PushBack(q, c)}
    BY <1>4 DEF TakeVelocity, q, c
  <2>4. queue' \in Seq(Commands) /\ Len(queue') <= QueueCap
    <3>1. PushBack(q, c) \in Seq(Commands) /\ Len(PushBack(q, c)) <= QueueCap
      BY <2>1, PushBackIn
    <3>2. PushFront(q, c) \in Seq(Commands) /\ Len(PushFront(q, c)) <= QueueCap
      BY <2>1, PushFrontIn
    <3> QED BY <2>1, <2>3, <3>1, <3>2
  <2>5. ActiveTypes' /\ told' \subseteq Ids
    BY <1>4, <2>2 DEF TakeVelocity, TypeOK, ActiveTypes, NoAction, activeVars
  <2>6. OutputTypes' /\ withdrawal' = withdrawal /\ beat' = beat /\ careful' = careful
    BY <1>4 DEF TakeVelocity, TypeOK, OutputTypes
  <2> QED BY <1>2, <2>4, <2>5, <2>6 DEF TypeOK, QueueTypes, TimerTypes
<1>5. CASE TakeOrdinary(k, i)
  <2> DEFINE q == IF k \in Escapes THEN Without(queue, Escapes) ELSE queue
             c == Cmd(k, i, k \in Escapes)
  <2>1. q \in Seq(Commands) /\ Len(q) <= QueueCap
    BY QueueTyped
  <2>0. c \in Commands
    <3>1. (k \in Escapes) \in BOOLEAN
      OBVIOUS
    <3> QED BY <1>1, <3>1, CmdTyped
  <2>2. IdsOf(queue) \subseteq Ids
    BY QueueTyped, IdsTyped
  <2>3. queue' = PushBack(q, c) /\ told' \subseteq IdsOf(queue)
    BY <1>5 DEF TakeOrdinary
  <2> HIDE DEF q, c
  <2>4. queue' \in Seq(Commands) /\ Len(queue') <= QueueCap
    BY <2>0, <2>1, <2>3, PushBackIn
  <2>5. ActiveTypes' /\ OutputTypes' /\ withdrawal' = withdrawal /\ beat' = beat /\ careful' = careful
    BY <1>5 DEF TakeOrdinary, TypeOK, ActiveTypes, OutputTypes, activeVars, outputVars
  <2> QED BY <1>2, <2>2, <2>3, <2>4, <2>5 DEF TypeOK, QueueTypes, TimerTypes
<1> QED BY <1>3, <1>4, <1>5

LEMMA OwnerTyped ==
  ASSUME TypeOK, NEW f \in Phases, NEW t \in Phases, LoseOwner(f, t) \/ KeepOwner(f, t)
  PROVE  TypeOK'
<1>1. SenseTypes' /\ GateTypes' /\ TickTypes' /\ withdrawal' = withdrawal /\ careful' \in {"off", careful}
  BY DEF TypeOK, LoseOwner, KeepOwner, SenseTypes, GateTypes, TickTypes, senseVars, gateVars
<1>2. CASE \E ok \in Outcomes : Halt(<<>>, ok)
  <2>1. BodyTypes'
    BY <1>2, HaltTyped, ShortQueues
  <2> QED BY <1>1, <2>1 DEF BodyTypes, TypeOK, TimerTypes
<1>3. CASE UNCHANGED <<queue, activeVars, outputVars>> /\ beat' \in {"off", beat} /\ told' = {}
  BY <1>1, <1>3 DEF TypeOK, QueueTypes, ActiveTypes, OutputTypes, TimerTypes, activeVars, outputVars
<1> QED BY <1>2, <1>3 DEF LoseOwner, KeepOwner

LEMMA CarefulTyped == TypeOK /\ CarefulTimeout => TypeOK'
<1> SUFFICES ASSUME TypeOK, CarefulTimeout PROVE TypeOK'
  OBVIOUS
<1>1. SenseTypes' /\ careful' \in {"off", careful}
  BY DEF TypeOK, CarefulTimeout, SenseTypes, senseVars
<1>2. GateTypes'
  <2>1. Relatched \in LatchKinds \cup {"none"}
    BY DEF Relatched, LatchKinds
  <2>2. (interlock \/ (Relatched = "none" /\ Senses("charging"))) \in BOOLEAN
    OBVIOUS
  <2>3. latch' \in {latch, Relatched} /\ estop' = estop /\ departure' = departure
    BY DEF CarefulTimeout, gateVars
  <2>4. interlock' = interlock \/ interlock' = (interlock \/ (Relatched = "none" /\ Senses("charging")))
    BY DEF CarefulTimeout, gateVars
  <2> QED BY <2>1, <2>2, <2>3, <2>4 DEF TypeOK, GateTypes
<1>3. CASE InterruptError(<<>>) \/ EnterError(queue)
  <2>1. BodyTypes' /\ TickTypes' /\ withdrawal' \in BOOLEAN
    BY <1>3, InterruptErrorTyped, EnterErrorTyped, ShortQueues
  <2> QED BY <1>1, <1>2, <2>1 DEF TypeOK, BodyTypes, TimerTypes
<1>4. CASE Halt(<<>>, TRUE) /\ phase' = "safety" /\ UNCHANGED <<mode, withdrawal>>
  <2>1. BodyTypes'
    BY <1>4, HaltTyped, ShortQueues
  <2>2. TickTypes'
    BY <1>4 DEF TypeOK, TickTypes, Phases
  <2> QED BY <1>1, <1>2, <1>4, <2>1, <2>2 DEF TypeOK, BodyTypes, TimerTypes
<1>5. CASE /\ phase' = "safety" /\ told' = {}
           /\ UNCHANGED <<mode, queue, activeVars, outputVars, gateVars, withdrawal, careful, beat>>
  BY <1>1, <1>2, <1>5 DEF TypeOK, TickTypes, QueueTypes, ActiveTypes, OutputTypes, TimerTypes, Phases,
     activeVars, outputVars
<1> QED BY <1>3, <1>4, <1>5 DEF CarefulTimeout

\* The safety policy: what it latches, and what it does to the body.
LEMMA SafetyGatesTyped == TypeOK /\ Safety => GateTypes' /\ SenseTypes' /\ careful' = careful
<1> SUFFICES ASSUME TypeOK, Safety PROVE GateTypes' /\ SenseTypes' /\ careful' = careful
  OBVIOUS
<1>1. Dominating \in LatchKinds \cup {"none"}
  BY DEF Dominating, LatchKinds
<1>2. SafetyBranch \in {"wheel_drop", "tilt", "cliff", "bump"} => SafetyBranch \in LatchKinds
  BY DEF LatchKinds
<1>3. DepartureKept \in BOOLEAN
  BY DEF DepartureKept
<1>4. Baseline \in {"unset", "up", "down"} /\ Bump \in {"unset", "up", "down"}
  BY DEF TypeOK, SenseTypes, Baseline, Bump
<1>5. sensed' = sensed /\ lastBump' \in {Bump, Baseline}
  BY DEF Safety, SafetyEscape, SafetyCareful, SafetyDock, SafetyCharging, SafetyNothing, SafetyStop, SafetyContact
<1>6. estop' = estop /\ careful' = careful /\ departure' \in {DepartureKept, TRUE, FALSE}
  BY DEF Safety, SafetyEscape, SafetyCareful, SafetyDock, SafetyCharging, SafetyNothing, SafetyStop, SafetyContact
<1>7. interlock' \in {interlock, TRUE, FALSE}
  BY DEF Safety, SafetyEscape, SafetyCareful, SafetyDock, SafetyCharging, SafetyNothing, SafetyStop, SafetyContact
<1>8. latch' \in {latch, "none", "bump", Dominating} \/ (latch' = SafetyBranch /\ SafetyStop)
  BY DEF Safety, SafetyEscape, SafetyCareful, SafetyDock, SafetyCharging, SafetyNothing, SafetyStop, SafetyContact, Trip
<1>9. SafetyStop => SafetyBranch \in {"wheel_drop", "tilt", "cliff", "bump"}
  BY DEF SafetyStop
<1>10. latch' \in LatchKinds \cup {"none"}
  BY <1>1, <1>2, <1>8, <1>9 DEF TypeOK, GateTypes, LatchKinds
<1>11. GateTypes'
  BY <1>3, <1>6, <1>7, <1>10 DEF TypeOK, GateTypes
<1> QED BY <1>4, <1>5, <1>6, <1>11 DEF TypeOK, SenseTypes

\* What a call of the tick may do to the body, up to a stop or an error.
Untouched == UNCHANGED <<mode, queue, activeVars, outputVars, withdrawal, beat>> /\ told' = {}
Withdraws == Halt(<<Recovery>>, TRUE) /\ withdrawal' = TRUE /\ mode' = "running" /\ departure' = FALSE
             /\ careful # "on"
Halts == Halt(<<>>, TRUE) /\ withdrawal' \in BOOLEAN /\ (withdrawal' => withdrawal) /\ mode' = mode
Clears == ClearMotion /\ withdrawal' = FALSE /\ mode' = mode
Errs == \/ EnterError(queue) \/ EnterErrorWith(<<>>, "none", "none", "off")
        \/ \E q \in {<<>>, Without(queue, MotionKinds)} : InterruptError(q)

LEMMA SafetyMoves ==
  ASSUME TypeOK, Safety
  PROVE  (UartFaults /\ Errs) \/ (phase' = "beat" /\ (Untouched \/ Halts \/ Withdraws \/ Clears))
<1> USE DEF Safety
<1>0. withdrawal \in BOOLEAN
  BY DEF TypeOK, TimerTypes
<1>1. ASSUME NEW kind, Trip(kind) PROVE (UartFaults /\ Errs) \/ (phase' = "beat" /\ Halts)
  BY <1>1 DEF Trip, Errs, Halts
<1>2. CASE SafetyEscape
  BY <1>0, <1>1, <1>2 DEF SafetyEscape, Errs, Halts, Untouched
<1>3. CASE SafetyCareful
  BY <1>3 DEF SafetyCareful, Untouched
<1>4. CASE SafetyDock
  BY <1>4 DEF SafetyDock, Untouched, Clears, Errs
<1>5. CASE SafetyCharging
  BY <1>5 DEF SafetyCharging, Untouched, Clears, Errs
<1>6. CASE SafetyNothing
  BY <1>6 DEF SafetyNothing, Untouched
<1>7. CASE SafetyStop
  BY <1>1, <1>7 DEF SafetyStop
<1>8. CASE SafetyContact
  <2>1. ~Docked /\ careful # "on"
    BY <1>8 DEF SafetyContact, SafetyBranch, Falling
  <2> QED BY <1>8, <2>1 DEF SafetyContact, DepartureKept, Withdraws, Errs
<1> QED BY <1>2, <1>3, <1>4, <1>5, <1>6, <1>7, <1>8

LEMMA MovesTyped ==
  ASSUME TypeOK, Untouched \/ Halts \/ Withdraws \/ Clears \/ Errs
  PROVE  /\ BodyTypes' /\ withdrawal' \in BOOLEAN /\ mode' \in {"running", "idle", "error"}
         /\ Errs => TickTypes'
<1>0. withdrawal \in BOOLEAN /\ mode \in {"running", "idle", "error"}
  BY DEF TypeOK, TimerTypes, TickTypes
<1>1. CASE Errs
  <2>1. BodyTypes' /\ TickTypes' /\ withdrawal' \in BOOLEAN
    BY <1>1, InterruptErrorTyped, EnterErrorTyped, ErrorTyped, ShortQueues, QueueTyped DEF Errs
  <2> QED BY <2>1 DEF TickTypes
<1>2. CASE Untouched /\ ~Errs
  BY <1>0, <1>2 DEF Untouched, TypeOK, BodyTypes, QueueTypes, ActiveTypes, OutputTypes, TimerTypes,
     activeVars, outputVars
<1>3. CASE Halts /\ ~Errs
  BY <1>0, <1>3, HaltTyped, ShortQueues DEF Halts
<1>5. CASE Withdraws /\ ~Errs
  BY <1>0, <1>5, HaltTyped, ShortQueues, RecoveryTyped DEF Withdraws
<1>4. CASE Clears /\ ~Errs
  <2>1. queue' \in Seq(Commands) /\ Len(queue') <= QueueCap
    BY <1>4, QueueTyped DEF Clears, ClearMotion
  <2>2. OutputTypes' /\ beat' \in {"off", "armed", "due"}
    BY <1>4, StopDriveTyped DEF Clears, ClearMotion, TypeOK, OutputTypes, TimerTypes
  <2>3. ActiveTypes' /\ told' \subseteq Ids
    BY <1>4, ReleaseTyped DEF Clears, ClearMotion, NoAction, TypeOK, ActiveTypes, activeVars
  <2> QED BY <1>0, <1>4, <2>1, <2>2, <2>3 DEF Clears, BodyTypes, QueueTypes
<1> QED BY <1>1, <1>2, <1>3, <1>4, <1>5

LEMMA SafetyTyped == TypeOK /\ Safety => TypeOK'
<1> SUFFICES ASSUME TypeOK, Safety PROVE TypeOK'
  OBVIOUS
<1>1. GateTypes' /\ SenseTypes' /\ careful' = careful
  BY SafetyGatesTyped
<1>2. BodyTypes' /\ withdrawal' \in BOOLEAN /\ TickTypes'
  BY SafetyMoves, MovesTyped DEF TickTypes, Phases
<1> QED BY <1>1, <1>2 DEF TypeOK, BodyTypes, TimerTypes

\* The heartbeat, the Full mode refresh and the deadlines.
LEMMA LateTyped ==
  TypeOK /\ (Heartbeat \/ FullRefresh \/ FullError \/ Advance) => TypeOK'
<1> SUFFICES ASSUME TypeOK, Heartbeat \/ FullRefresh \/ FullError \/ Advance PROVE TypeOK'
  OBVIOUS
<1>1. GateTypes' /\ SenseTypes' /\ careful' \in {"off", careful}
  BY DEF TypeOK, GateTypes, SenseTypes, Heartbeat, FullRefresh, FullError, Advance, gateVars, senseVars
<1>0. withdrawal \in BOOLEAN
  BY DEF TypeOK, TimerTypes
<1>2. CASE Errs
  BY <1>1, <1>2, MovesTyped DEF TypeOK, BodyTypes, TimerTypes
<1>3. CASE phase' \in Phases /\ (Untouched \/ Halts)
  BY <1>1, <1>3, MovesTyped DEF TypeOK, BodyTypes, TimerTypes, TickTypes
<1>4. CASE Heartbeat
  <2>1. CASE withdrawal /\ beat = "due"
    BY <1>1, <1>4, <2>1 DEF Heartbeat, TypeOK, TickTypes, QueueTypes, ActiveTypes, OutputTypes, TimerTypes,
       Phases, activeVars, outputVars
  <2>2. CASE ~(withdrawal /\ beat = "due")
    <3>1. Errs \/ (phase' = "full" /\ (Untouched \/ Halts))
      BY <1>0, <1>4, <2>2 DEF Heartbeat, Untouched, Halts, Errs
    <3> QED BY <1>2, <1>3, <3>1 DEF Phases
  <2> QED BY <2>1, <2>2
<1>5. CASE FullRefresh
  BY <1>1, <1>5 DEF FullRefresh, TypeOK, TickTypes, QueueTypes, ActiveTypes, OutputTypes, TimerTypes,
     Phases, activeVars
<1>6. CASE FullError
  BY <1>2, <1>6 DEF FullError, Errs
<1>7. CASE Advance
  <2>1. CASE EndMotion
    <3>1. OutputTypes' /\ beat' \in {"off", "armed", "due"}
      BY <2>1, StopDriveTyped DEF EndMotion, TypeOK, OutputTypes, TimerTypes
    <3>2. ActiveTypes' /\ told' \subseteq Ids /\ withdrawal' \in BOOLEAN
      BY <1>0, <2>1, ReleaseTyped DEF EndMotion, NoAction, TypeOK, ActiveTypes
    <3> QED BY <1>1, <2>1, <3>1, <3>2 DEF EndMotion, TypeOK, TickTypes, QueueTypes, TimerTypes, Phases
  <2>2. CASE Release /\ NoAction /\ phase' = "start" /\ UNCHANGED <<mode, queue, outputVars, withdrawal, beat>>
    <3>1. actId' \in Ids \cup {0} /\ rec' \in BOOLEAN /\ told' \subseteq Ids
      BY <2>2, ReleaseTyped
    <3>2. ActiveTypes'
      BY <2>2, <3>1 DEF NoAction, ActiveTypes
    <3>3. TickTypes' /\ QueueTypes' /\ OutputTypes' /\ Len(queue') <= QueueCap
      BY <2>2 DEF TypeOK, TickTypes, QueueTypes, OutputTypes, Phases, outputVars
    <3> QED BY <1>1, <2>2, <3>1, <3>2, <3>3 DEF TypeOK, TimerTypes
  <2> QED BY <1>2, <1>3, <1>7, <2>1, <2>2 DEF Advance, Untouched, Errs, Phases
<1> QED BY <1>4, <1>5, <1>6, <1>7

\* A command is started: at once, for a while, or not at all.
LEMMA CompleteTyped ==
  ASSUME TypeOK, NEW q \in Seq(Commands), Len(q) <= QueueCap, NEW ids \in SUBSET (Ids \cup {0}),
         NEW b \in {"off", "armed", "due"}, Complete(q, ids, b)
  PROVE  BodyTypes' /\ TickTypes'
<1>1. PICK ok \in Outcomes : StopDrive(q = <<>> /\ ok, vel, esc, b)
  BY DEF Complete
<1>2. OutputTypes' /\ beat' \in {"off", "armed", "due"}
  BY <1>1, StopDriveTyped DEF TypeOK, OutputTypes
<1>3. QueueTypes' /\ Len(queue') <= QueueCap /\ told' \subseteq Ids
  BY DEF Complete, QueueTypes
<1>4. ActiveTypes' /\ TickTypes'
  BY DEF Complete, TypeOK, ActiveTypes, TickTypes, Phases, activeVars
<1> QED BY <1>2, <1>3, <1>4 DEF BodyTypes

LEMMA RefuseTyped ==
  ASSUME TypeOK, NEW q \in Seq(Commands), Len(q) <= QueueCap, NEW c \in Commands,
         NEW e \in {"none", "bump", "cliff"}, Refuse(q, c, e)
  PROVE  BodyTypes' /\ TickTypes' /\ withdrawal' \in BOOLEAN
<1>1. PICK ok \in Outcomes : StopDrive(ok, vel, e, beat)
  BY DEF Refuse
<1>2. OutputTypes' /\ beat' \in {"off", "armed", "due"}
  BY <1>1, StopDriveTyped DEF TypeOK, OutputTypes, TimerTypes
<1>3. QueueTypes' /\ Len(queue') <= QueueCap /\ told' \subseteq Ids
  BY DEF Refuse, QueueTypes, Commands
<1>4. ActiveTypes' /\ TickTypes' /\ withdrawal' \in BOOLEAN
  BY DEF Refuse, TypeOK, ActiveTypes, TickTypes, Phases, activeVars
<1> QED BY <1>2, <1>3, <1>4 DEF BodyTypes

LEMMA StartTyped == TypeOK /\ Start => TypeOK'
<1> SUFFICES ASSUME TypeOK, Start PROVE TypeOK'
  OBVIOUS
<1>0. /\ withdrawal \in BOOLEAN /\ careful \in {"off", "on", "due"} /\ beat \in {"off", "armed", "due"}
      /\ esc \in {"none", "bump", "cliff"}
  BY DEF TypeOK, TimerTypes, OutputTypes
<1>1. SenseTypes'
  BY DEF TypeOK, Start, SenseTypes, senseVars
<1>2. SUFFICES GateTypes' /\ BodyTypes' /\ TickTypes' /\ withdrawal' \in BOOLEAN /\ careful' \in {"off", "on", "due"}
  BY <1>1 DEF TypeOK, BodyTypes, TimerTypes
<1>3. CASE StartNothing
  <2>1. BodyTypes' /\ TickTypes'
    BY <1>0, <1>3, CompleteTyped, ShortQueues DEF StartNothing
  <2> QED BY <1>0, <1>3, <2>1 DEF StartNothing, gateVars, TypeOK, GateTypes
<1>4. CASE StartDeparture
  <2>1. GateTypes' /\ careful' = careful
    BY <1>4 DEF StartDeparture, TypeOK, GateTypes
  <2>2. CASE EnterError(queue) \/ EnterErrorWith(queue, "none", esc, "off")
    BY <1>0, <2>1, <2>2, EnterErrorTyped, ErrorTyped, QueueTyped
  <2>3. CASE Untouched /\ phase' = "barrier"
    BY <1>0, <2>1, <2>3, MovesTyped DEF TickTypes, Phases
  <2>4. CASE /\ ~EnterError(queue) /\ ~EnterErrorWith(queue, "none", esc, "off")
             /\ ~(Untouched /\ phase' = "barrier")
    <3>1. /\ act' = "departure" /\ due' = FALSE /\ wheels' = "reverse" /\ vel' = "none" /\ beat' = "off"
          /\ phase' = "barrier" /\ told' = {} /\ UNCHANGED <<mode, queue, actId, rec, esc, withdrawal>>
      BY <1>4, <2>4 DEF StartDeparture, Untouched
    <3>2. TickTypes' /\ QueueTypes' /\ Len(queue') <= QueueCap /\ ActiveTypes' /\ OutputTypes'
      BY <3>1 DEF TypeOK, TickTypes, QueueTypes, ActiveTypes, OutputTypes, Phases
    <3> QED BY <1>0, <2>1, <3>1, <3>2 DEF BodyTypes
  <2> QED BY <2>2, <2>3, <2>4
<1>5. CASE queue # <<>>
  <2> DEFINE c == Head(queue)
             q == Tail(queue)
  <2>1. c \in Commands /\ q \in Seq(Commands) /\ Len(q) <= QueueCap
    <3>1. c \in Commands /\ q \in Seq(Commands) /\ Len(q) <= Len(queue)
      BY <1>5, QueueTyped, TailIn
    <3>2. Len(q) \in Nat /\ Len(queue) \in Nat
      BY <3>1, QueueTyped, LenProperties
    <3> QED BY <3>1, <3>2, QueueTyped, CapAssumption
  <2> HIDE DEF c, q
  <2>2. c.id \in Ids \cup {0} /\ c.rec \in BOOLEAN /\ {c.id} \in SUBSET (Ids \cup {0})
    BY <2>1 DEF Commands
  <2>3. CASE StartStop(q, c)
    <3>1. GateTypes' /\ careful' = careful
      BY <2>3 DEF StartStop, Refuse, TypeOK, GateTypes
    <3>2. CASE Refuse(q, c, esc)
      BY <1>0, <2>1, <3>1, <3>2, RefuseTyped
    <3>3. CASE ~Refuse(q, c, esc)
      <4>1. /\ StopDrive(TRUE, vel, esc, beat) /\ queue' = q /\ told' = {c.id} \ {0}
            /\ mode' \in {"idle", mode} /\ phase' = "barrier" /\ UNCHANGED <<activeVars, withdrawal>>
        BY <2>3, <3>3 DEF StartStop
      <4>2. OutputTypes' /\ beat' \in {"off", "armed", "due"}
        BY <1>0, <4>1, StopDriveTyped DEF TypeOK, OutputTypes
      <4>3. QueueTypes' /\ Len(queue') <= QueueCap /\ told' \subseteq Ids
        BY <2>1, <2>2, <4>1 DEF QueueTypes
      <4>4. TickTypes' /\ ActiveTypes'
        BY <4>1 DEF TypeOK, TickTypes, ActiveTypes, Phases, activeVars
      <4> QED BY <1>0, <3>1, <4>1, <4>2, <4>3, <4>4 DEF BodyTypes
    <3> QED BY <3>2, <3>3
  <2>4. CASE StartDrive(q, c)
    <3> DEFINE e == IF c.kind \in Escapes /\ EscapeValid(c) THEN EscapeOf(c) ELSE esc
    <3>0. e \in {"none", "bump", "cliff"}
      BY <1>0 DEF EscapeOf
    <3>1. GateTypes' /\ careful' = careful
      BY <2>4 DEF StartDrive, Refuse, TypeOK, GateTypes, gateVars
    <3>2. CASE Refuse(q, c, e)
      <4> HIDE DEF e
      <4> QED BY <1>0, <2>1, <3>0, <3>1, <3>2, RefuseTyped
    <3>3. CASE ~Refuse(q, c, e)
      <4>1. /\ queue' = q /\ act' = "driving" /\ due' = FALSE /\ actId' = c.id /\ rec' = c.rec
            /\ vel' \in {"none", Direction(c)} /\ esc' = e /\ wheels' = Direction(c)
            /\ phase' = "barrier" /\ told' = {} /\ UNCHANGED <<mode, withdrawal, beat>>
        BY <2>4, <3>3 DEF StartDrive
      <4>2. Direction(c) \in {"forward", "reverse"}
        BY DEF Direction
      <4> HIDE DEF e
      <4>3. OutputTypes' /\ ActiveTypes'
        BY <2>2, <3>0, <4>1, <4>2 DEF OutputTypes, ActiveTypes
      <4>4. TickTypes' /\ QueueTypes' /\ Len(queue') <= QueueCap
        BY <2>1, <4>1 DEF TypeOK, TickTypes, QueueTypes, Phases
      <4> QED BY <1>0, <3>1, <4>1, <4>3, <4>4 DEF BodyTypes
    <3> QED BY <3>2, <3>3
  <2>5. CASE StartSettle(q, c)
    <3>1. GateTypes' /\ careful' = careful
      BY <2>5 DEF StartSettle, Refuse, TypeOK, GateTypes, gateVars
    <3>2. CASE Refuse(q, c, esc)
      BY <1>0, <2>1, <3>1, <3>2, RefuseTyped
    <3>3. CASE ~Refuse(q, c, esc)
      <4>1. /\ queue' = q /\ act' = "busy" /\ due' = FALSE /\ actId' = c.id /\ rec' = c.rec
            /\ phase' = "barrier" /\ told' = {} /\ UNCHANGED <<mode, outputVars, withdrawal, beat>>
        BY <2>5, <3>3 DEF StartSettle
      <4>2. ActiveTypes' /\ OutputTypes'
        BY <2>2, <4>1 DEF TypeOK, ActiveTypes, OutputTypes, outputVars
      <4>3. TickTypes' /\ QueueTypes' /\ Len(queue') <= QueueCap
        BY <2>1, <4>1 DEF TypeOK, TickTypes, QueueTypes, Phases
      <4> QED BY <1>0, <3>1, <4>1, <4>2, <4>3 DEF BodyTypes
    <3> QED BY <3>2, <3>3
  <2>6. CASE StartImmediate(q, c)
    <3>1. GateTypes' /\ careful' \in {"on", careful}
      <4>1. ASSUME NEW kind \in LatchKinds, ClearLatch(kind) PROVE latch' \in {latch, "none"} /\ interlock' \in {interlock, FALSE}
        BY <4>1 DEF ClearLatch
      <4>2. latch' \in {latch, "none"} /\ interlock' \in {interlock, FALSE}
        BY <2>6, <4>1 DEF StartImmediate, gateVars
      <4>3. estop' \in {estop, FALSE} /\ departure' \in {departure, FALSE} /\ careful' \in {"on", careful}
        BY <2>6 DEF StartImmediate, gateVars
      <4> QED BY <4>2, <4>3 DEF TypeOK, GateTypes
    <3>2. CASE Refuse(q, c, esc)
      BY <1>0, <2>1, <3>1, <3>2, RefuseTyped
    <3>3. CASE ~Refuse(q, c, esc)
      <4>1. /\ \E r \in {q, Without(q, MotionKinds)}, b \in {beat, "armed"} : Complete(r, {c.id}, b)
            /\ withdrawal' = withdrawal
        BY <2>6, <3>3 DEF StartImmediate
      <4>2. Without(q, MotionKinds) \in Seq(Commands) /\ Len(Without(q, MotionKinds)) <= QueueCap
        <5>1. Without(q, MotionKinds) \in Seq(Commands) /\ Len(Without(q, MotionKinds)) <= Len(q)
          BY <2>1, WithoutFrom
        <5>2. Len(q) \in Nat /\ Len(Without(q, MotionKinds)) \in Nat
          BY <2>1, <5>1, LenProperties
        <5> QED BY <2>1, <5>1, <5>2, CapAssumption
      <4>3. BodyTypes' /\ TickTypes'
        BY <1>0, <2>1, <2>2, <4>1, <4>2, CompleteTyped
      <4> QED BY <1>0, <3>1, <4>1, <4>3
    <3> QED BY <3>2, <3>3
  <2> QED BY <1>3, <1>4, <2>3, <2>4, <2>5, <2>6 DEF Start, c, q
<1> QED BY <1>3, <1>4, <1>5 DEF Start

LEMMA TypeStep == TypeOK /\ [Next]_vars => TypeOK'
<1> SUFFICES ASSUME TypeOK, [Next]_vars PROVE TypeOK'
  OBVIOUS
<1>1. CASE Sense \/ TakeNothing
  <2> USE DEF TypeOK, TickTypes, QueueTypes, ActiveTypes, OutputTypes, SenseTypes, GateTypes, TimerTypes,
              Phases, activeVars, outputVars, senseVars, gateVars
  <2>1. CASE Sense
    BY <2>1 DEF Sense
  <2>2. CASE TakeNothing
    BY <2>2 DEF TakeNothing
  <2> QED BY <1>1, <2>1, <2>2
<1>2. CASE ActionDue \/ CarefulDue \/ BeatDue
  BY <1>2 DEF ActionDue, CarefulDue, BeatDue, TypeOK, TickTypes, QueueTypes, ActiveTypes, OutputTypes,
     SenseTypes, GateTypes, TimerTypes, activeVars, outputVars, senseVars, gateVars
<1>3. CASE UNCHANGED vars
  BY <1>3 DEF vars, TypeOK, TickTypes, QueueTypes, ActiveTypes, OutputTypes,
     SenseTypes, GateTypes, TimerTypes, activeVars, outputVars, senseVars, gateVars
<1> QED BY NextCases, OwnerTyped, TakeTyped, CarefulTyped, SafetyTyped, LateTyped, StartTyped, <1>1, <1>2, <1>3

\* The fields of the runtime keep their types and the queue its capacity, for
\* any commands, sensors and faults: see TypeOK.
THEOREM RuntimeTypeCorrect == Spec => []TypeOK
BY TypeInit, TypeStep, PTL DEF Spec

-----------------------------------------------------------------------------
(* Careful mode.  It is excluded by an E-stop that has run; the proof needs *)
(* one that still waits: it is the first of the queue, as long as it does   *)
(* nothing else is started, careful mode included, and taking it has ended  *)
(* careful mode.                                                            *)

Others(kind) == {c \in Commands : c.kind # kind}

EStopFirst ==
  /\ AfterFirst(queue, Others("estop"))
  /\ queue \in Seq(Others("estop")) \/ (act = "none" /\ careful # "on")

\* While the reflex is active there is at most its own reverse in the queue.
ReflexAlone == withdrawal => queue \in {<<>>, <<Recovery>>}

CarefulInv == TypeOK /\ StartsIdle /\ EStopFirst /\ ReflexAlone /\ CarefulExcluded

LEMMA OthersCommands ==
  ASSUME NEW kind, NEW q \in Seq(Others(kind))
  PROVE  q \in Seq(Commands)
BY SeqMonotonic DEF Others

\* A first command of another kind, and no other of that kind after it.
LEMMA HeadDecides ==
  ASSUME NEW q \in Seq(Commands), NEW kind, AfterFirst(q, Others(kind)), q # <<>>, Head(q).kind # kind
  PROVE  q \in Seq(Others(kind))
<1> DEFINE S == Others(kind)
<1>1. Head(q) \in S /\ Tail(q) \in Seq(S)
  BY TailIn DEF Others
<1>2. q = <<Head(q)>> \o Tail(q) /\ <<Head(q)>> \in Seq(S)
  BY <1>1, HeadTailProperties
<1> HIDE DEF S
<1> QED BY <1>1, <1>2, ConcatProperties DEF S

\* The head of a queue without a kind is of another kind.
LEMMA HeadOther ==
  ASSUME NEW kind, NEW q \in Seq(Others(kind)), q # <<>>
  PROVE  Head(q).kind # kind
<1>1. Head(q) \in Others(kind)
  BY HeadTailProperties
<1> QED BY <1>1 DEF Others

LEMMA RecoveryOther ==
  ASSUME NEW kind, kind # "reverse"
  PROVE  Recovery \in Others(kind) /\ <<Recovery>> \in Seq(Others(kind)) /\ <<>> \in Seq(Others(kind))
<1>1. Recovery \in Others(kind)
  BY RecoveryTyped DEF Recovery, Cmd, Others
<1> QED BY <1>1

LEMMA CmdOther ==
  ASSUME NEW kind, NEW k \in Kinds, NEW i \in Ids, NEW r \in BOOLEAN, k # kind
  PROVE  Cmd(k, i, r) \in Others(kind)
BY CmdTyped DEF Others, Cmd

\* A queue that is kept, emptied, or has commands taken out.
LEMMA QueueKept ==
  ASSUME TypeOK, NEW kind, kind # "reverse", AfterFirst(queue, Others(kind)), NEW q,
         q \in {queue, <<>>, <<Recovery>>} \/ \E kinds : q = Without(queue, kinds)
  PROVE  /\ AfterFirst(q, Others(kind))
         /\ queue \in Seq(Others(kind)) => q \in Seq(Others(kind))
<1>1. queue \in Seq(Commands)
  BY DEF TypeOK, QueueTypes
<1>2. CASE \E kinds : q = Without(queue, kinds)
  <2>1. PICK kinds : q = Without(queue, kinds)
    BY <1>2
  <2>2. AfterFirst(q, Others(kind))
    BY <1>1, <2>1, WithoutAfter
  <2>3. queue \in Seq(Others(kind)) => q \in Seq(Others(kind))
    BY <2>1, WithoutFrom
  <2> QED BY <2>2, <2>3
<1>3. CASE q \in {<<>>, <<Recovery>>}
  <2>1. q \in Seq(Others(kind))
    BY <1>3, RecoveryOther
  <2> QED BY <2>1, AllAfter
<1> QED BY <1>2, <1>3

\* A command of another kind that is taken waits behind the first, unless it
\* interrupts the drive that runs.
LEMMA QueueTaken ==
  ASSUME TypeOK, NEW kind, kind \notin Velocities, AfterFirst(queue, Others(kind)),
         queue \in Seq(Others(kind)) \/ act = "none",
         NEW k \in Offered, NEW i \in Ids, k # kind, TakeVelocity(k, i) \/ TakeOrdinary(k, i)
  PROVE  /\ AfterFirst(queue', Others(kind))
         /\ queue \in Seq(Others(kind)) => queue' \in Seq(Others(kind))
<1>1. k \in Kinds
  BY InputAssumption
<1>2. queue \in Seq(Commands)
  BY DEF TypeOK, QueueTypes
<1>3. ASSUME NEW q, q = queue \/ \E kinds : q = Without(queue, kinds)
      PROVE  /\ q \in Seq(Commands) /\ AfterFirst(q, Others(kind))
             /\ queue \in Seq(Others(kind)) => q \in Seq(Others(kind))
  <2>1. kind # "reverse"
    BY DEF Velocities
  <2>2. q \in Seq(Commands)
    BY <1>2, <1>3, WithoutFrom
  <2> QED BY <1>3, <2>1, <2>2, QueueKept
<1>4. CASE TakeVelocity(k, i)
  <2> DEFINE q == Without(queue, Velocities)
             c == Cmd(k, i, FALSE)
  <2>1. c \in Others(kind) /\ c \in Commands
    BY <1>1, CmdOther, CmdTyped
  <2>2. /\ queue' \in {q, PushFront(q, c), PushBack(q, c)}
        /\ queue' = PushFront(q, c) => queue' = PushBack(q, c) \/ act = "driving"
    BY <1>4 DEF TakeVelocity
  <2>3. q \in Seq(Commands) /\ AfterFirst(q, Others(kind)) /\ (queue \in Seq(Others(kind)) => q \in Seq(Others(kind)))
    BY <1>3
  <2> HIDE DEF q, c
  <2>4. AfterFirst(PushBack(q, c), Others(kind))
    BY <2>1, <2>3, PushBackIn
  <2>5. ASSUME queue \in Seq(Others(kind))
        PROVE  PushBack(q, c) \in Seq(Others(kind)) /\ PushFront(q, c) \in Seq(Others(kind))
    BY <2>1, <2>3, <2>5, PushBackIn, PushFrontIn
  <2>6. CASE queue \in Seq(Others(kind))
    <3>1. queue' \in Seq(Others(kind))
      BY <2>2, <2>3, <2>5, <2>6
    <3> QED BY <3>1, AllAfter
  <2>7. CASE queue \notin Seq(Others(kind))
    <3>1. queue' \in {q, PushBack(q, c)}
      BY <2>2, <2>7
    <3> QED BY <2>3, <2>4, <2>7, <3>1
  <2> QED BY <2>6, <2>7
<1>5. CASE TakeOrdinary(k, i)
  <2> DEFINE q == IF k \in Escapes THEN Without(queue, Escapes) ELSE queue
             c == Cmd(k, i, k \in Escapes)
  <2>1. c \in Others(kind) /\ c \in Commands
    <3>1. (k \in Escapes) \in BOOLEAN
      OBVIOUS
    <3> QED BY <1>1, <3>1, CmdOther, CmdTyped
  <2>2. queue' = PushBack(q, c)
    BY <1>5 DEF TakeOrdinary
  <2>3. q \in Seq(Commands) /\ AfterFirst(q, Others(kind)) /\ (queue \in Seq(Others(kind)) => q \in Seq(Others(kind)))
    BY <1>3
  <2> HIDE DEF q, c
  <2>4. AfterFirst(PushBack(q, c), Others(kind))
    BY <2>1, <2>3, PushBackIn
  <2>5. ASSUME queue \in Seq(Others(kind)) PROVE PushBack(q, c) \in Seq(Others(kind))
    BY <2>1, <2>3, <2>5, PushBackIn
  <2> QED BY <2>2, <2>4, <2>5
<1> QED BY <1>4, <1>5

\* The head of the queue is started: what stays is of the other kinds.
LEMMA QueueStarted ==
  ASSUME TypeOK, NEW kind, AfterFirst(queue, Others(kind)), queue # <<>>,
         queue' = Tail(queue) \/ queue' = Without(Tail(queue), MotionKinds)
  PROVE  queue' \in Seq(Others(kind)) /\ AfterFirst(queue', Others(kind))
<1>1. Tail(queue) \in Seq(Others(kind))
  BY TailIn DEF TypeOK, QueueTypes
<1>2. Without(Tail(queue), MotionKinds) \in Seq(Others(kind))
  BY <1>1, WithoutFrom
<1>3. queue' \in Seq(Others(kind))
  BY <1>1, <1>2
<1> QED BY <1>3, AllAfter

\* What a start takes from the queue, and what it may raise.
LEMMA StartTakesHead ==
  ASSUME NEW q, NEW c, StartStop(q, c) \/ StartDrive(q, c) \/ StartSettle(q, c) \/ StartImmediate(q, c)
  PROVE  /\ queue' = q \/ (queue' = Without(q, MotionKinds) /\ c.kind = "clear_queue")
         /\ withdrawal' => withdrawal
         /\ estop' => estop \/ c.kind = "estop"
         /\ careful' = careful \/ (careful' = "on" /\ c.kind = "careful" /\ ~estop)
<1>1. CASE StartStop(q, c)
  <2>1. queue' = q /\ careful' = careful
    BY <1>1 DEF StartStop, Refuse
  <2>2. withdrawal' => withdrawal
    BY <1>1 DEF StartStop, Refuse
  <2>3. estop' => estop \/ c.kind = "estop"
    BY <1>1 DEF StartStop
  <2> QED BY <2>1, <2>2, <2>3
<1>2. CASE StartDrive(q, c)
  BY <1>2 DEF StartDrive, Refuse, gateVars
<1>3. CASE StartSettle(q, c)
  BY <1>3 DEF StartSettle, Refuse, gateVars
<1>4. CASE StartImmediate(q, c)
  <2>1. queue' = q \/ (queue' = Without(q, MotionKinds) /\ c.kind = "clear_queue")
    BY <1>4 DEF StartImmediate, Refuse, Complete
  <2>2. withdrawal' => withdrawal
    BY <1>4 DEF StartImmediate, Refuse
  <2>3. estop' => estop \/ c.kind = "estop"
    BY <1>4 DEF StartImmediate, gateVars
  <2>4. careful' = careful \/ (careful' = "on" /\ c.kind = "careful" /\ ~estop)
    BY <1>4 DEF StartImmediate
  <2> QED BY <2>1, <2>2, <2>3, <2>4
<1> QED BY <1>1, <1>2, <1>3, <1>4

\* Steps that start nothing and take nothing.
LEMMA CarefulKept ==
  ASSUME CarefulInv, TypeOK', StartsIdle',
         queue' \in {queue, <<>>, <<Recovery>>} \/ queue' = Without(queue, MotionKinds),
         act' \in {act, "none"}, estop' = estop, careful' = "on" => careful = "on",
         withdrawal' => \/ withdrawal /\ queue' \in {queue, <<>>}
                        \/ queue' = <<Recovery>> /\ careful # "on"
  PROVE  CarefulInv'
<1>1. AfterFirst(queue', Others("estop")) /\ (queue \in Seq(Others("estop")) => queue' \in Seq(Others("estop")))
  BY QueueKept DEF CarefulInv, EStopFirst
<1>2. EStopFirst'
  BY <1>1 DEF CarefulInv, EStopFirst, Others
<1>3. ReflexAlone'
  BY DEF CarefulInv, ReflexAlone, Recovery
<1>4. CarefulExcluded'
  BY DEF CarefulInv, CarefulExcluded
<1> QED BY <1>2, <1>3, <1>4 DEF CarefulInv

LEMMA CarefulInvInit == Init => CarefulInv
<1> SUFFICES ASSUME Init PROVE CarefulInv
  OBVIOUS
<1>1. TypeOK
  BY TypeInit
<1>2. Cmd("settle", 0, FALSE) \in Others("estop")
  BY CmdTyped DEF Others, Cmd, Kinds
<1>3. queue \in Seq(Others("estop"))
  BY <1>2, ShortIn DEF Init
<1>4. EStopFirst
  BY <1>3, AllAfter DEF EStopFirst
<1>5. StartsIdle /\ ReflexAlone /\ CarefulExcluded
  BY DEF Init, StartsIdle, ReflexAlone, CarefulExcluded
<1> QED BY <1>1, <1>4, <1>5 DEF CarefulInv

\* Taking a command, an E-stop included.
LEMMA CarefulTaken ==
  ASSUME CarefulInv, TypeOK', NEW k \in Offered, NEW i \in Ids,
         TakePreempting(k, i) \/ TakeVelocity(k, i) \/ TakeOrdinary(k, i)
  PROVE  CarefulInv'
<1>0. phase' = "careful" /\ estop' = estop /\ careful' \in {"off", careful}
  BY DEF TakePreempting, TakeVelocity, TakeOrdinary, gateVars
<1>1. StartsIdle' /\ ~withdrawal' /\ estop' = estop /\ careful' \in {"off", careful}
  <2>1. ~withdrawal'
    BY DEF TakePreempting, TakeVelocity, TakeOrdinary
  <2> QED BY <1>0, <2>1 DEF StartsIdle
<1>2. ReflexAlone' /\ CarefulExcluded'
  BY <1>1 DEF CarefulInv, ReflexAlone, CarefulExcluded
<1>3. EStopFirst'
  <2>1. CASE TakePreempting(k, i) /\ k = "estop"
    <3>1. queue' = <<Cmd("estop", i, FALSE)>> /\ act' = "none" /\ careful' = "off"
      BY <2>1 DEF TakePreempting, Script, NoAction
    <3>2. AfterFirst(queue', Others("estop"))
      BY <3>1 DEF AfterFirst
    <3> QED BY <3>1, <3>2 DEF EStopFirst
  <2>2. CASE TakePreempting(k, i) /\ k # "estop"
    <3>1. Cmd("stop", i, FALSE) \in Others("estop") /\ Cmd("settle", i, FALSE) \in Others("estop")
      BY CmdOther DEF Kinds
    <3>2. queue' \in {<<Cmd("stop", i, FALSE)>>, <<Cmd("stop", i, FALSE), Cmd("settle", i, FALSE)>>}
      BY <2>2 DEF TakePreempting, Script
    <3>3. queue' \in Seq(Others("estop"))
      BY <3>1, <3>2, ShortIn
    <3> QED BY <3>3, AllAfter DEF EStopFirst
  <2>3. CASE TakeVelocity(k, i) \/ TakeOrdinary(k, i)
    <3>1. k # "estop"
      BY <2>3 DEF TakeVelocity, TakeOrdinary, Velocities
    <3>2. /\ AfterFirst(queue', Others("estop"))
          /\ queue \in Seq(Others("estop")) => queue' \in Seq(Others("estop"))
      BY <2>3, <3>1, QueueTaken DEF CarefulInv, EStopFirst, Velocities
    <3>3. act' \in {act, "none"}
      BY <2>3 DEF TakeVelocity, TakeOrdinary, NoAction, activeVars
    <3> QED BY <1>1, <3>2, <3>3 DEF CarefulInv, EStopFirst
  <2> QED BY <2>1, <2>2, <2>3
<1> QED BY <1>1, <1>2, <1>3 DEF CarefulInv

\* What the halts, clearings and errors of the tick have in common.
LEMMA MovesKeep ==
  ASSUME Untouched \/ Halts \/ Withdraws \/ Clears \/ Errs
  PROVE  /\ queue' \in {queue, <<>>, <<Recovery>>} \/ queue' = Without(queue, MotionKinds)
         /\ act' \in {act, "none"}
         /\ withdrawal' => \/ withdrawal /\ queue' \in {queue, <<>>}
                           \/ queue' = <<Recovery>> /\ careful # "on"
<1>1. CASE Errs
  BY <1>1 DEF Errs, EnterError, InterruptError, EnterErrorWith, NoAction
<1>2. CASE Untouched
  BY <1>2 DEF Untouched, activeVars
<1>3. CASE Halts
  BY <1>3 DEF Halts, Halt, NoAction
<1>4. CASE Withdraws
  BY <1>4 DEF Withdraws, Halt, NoAction
<1>5. CASE Clears
  BY <1>5 DEF Clears, ClearMotion, NoAction, activeVars
<1> QED BY <1>1, <1>2, <1>3, <1>4, <1>5

LEMMA CarefulStarted ==
  ASSUME CarefulInv, TypeOK', StartsIdle', Start
  PROVE  CarefulInv'
<1>0. queue \in Seq(Commands) /\ AfterFirst(queue, Others("estop")) /\ act = "none"
  BY DEF CarefulInv, TypeOK, QueueTypes, EStopFirst, StartsIdle, Start
<1>1. CASE StartNothing
  <2>1. queue' = <<>> /\ act' = act /\ estop' = estop /\ careful' = careful /\ withdrawal' = withdrawal
    BY <1>1 DEF StartNothing, Complete, gateVars, activeVars
  <2> QED BY <2>1, CarefulKept
<1>2. CASE StartDeparture
  <2>1. queue' = queue /\ estop' = estop /\ careful' = careful /\ (withdrawal' => withdrawal)
    BY <1>2 DEF StartDeparture, EnterError, EnterErrorWith
  <2>2. queue # <<>> /\ Head(queue).kind # "estop"
    BY <1>2 DEF StartDeparture, DepartureDue, RequiresDeparture, MotionKinds, Velocities, Escapes
  <2>3. queue \in Seq(Others("estop"))
    BY <1>0, <2>2, HeadDecides
  <2>4. EStopFirst'
    BY <1>0, <2>1, <2>3 DEF EStopFirst
  <2>5. ReflexAlone'
    BY <2>1 DEF CarefulInv, ReflexAlone, Recovery
  <2>6. CarefulExcluded'
    BY <2>1 DEF CarefulInv, CarefulExcluded
  <2> QED BY <2>4, <2>5, <2>6 DEF CarefulInv
<1>3. CASE queue # <<>> /\ ~StartNothing /\ ~StartDeparture
  <2> DEFINE c == Head(queue)
             q == Tail(queue)
  <2>1. StartStop(q, c) \/ StartDrive(q, c) \/ StartSettle(q, c) \/ StartImmediate(q, c)
    BY <1>3 DEF Start
  <2>2. /\ queue' = q \/ (queue' = Without(q, MotionKinds) /\ c.kind = "clear_queue")
        /\ withdrawal' => withdrawal
        /\ estop' => estop \/ c.kind = "estop"
        /\ careful' = careful \/ (careful' = "on" /\ c.kind = "careful" /\ ~estop)
    BY <2>1, StartTakesHead
  <2>3. queue' \in Seq(Others("estop")) /\ AfterFirst(queue', Others("estop"))
    BY <1>0, <1>3, <2>2, QueueStarted DEF CarefulInv
  <2>4. withdrawal => c.kind = "reverse" /\ q = <<>>
    <3> SUFFICES ASSUME withdrawal PROVE c.kind = "reverse" /\ q = <<>>
      OBVIOUS
    <3>1. queue = <<Recovery>>
      BY <1>3 DEF CarefulInv, ReflexAlone
    <3>2. c = Recovery /\ q = <<>>
      BY <3>1
    <3> QED BY <3>2 DEF Recovery, Cmd
  <2>5. ReflexAlone'
    BY <2>2, <2>4 DEF ReflexAlone
  <2>6. c.kind = "estop" => careful # "on"
    BY <1>3, HeadOther DEF CarefulInv, EStopFirst
  <2>7. CarefulExcluded'
    BY <2>2, <2>4, <2>6 DEF CarefulInv, CarefulExcluded
  <2> QED BY <2>3, <2>5, <2>7 DEF CarefulInv, EStopFirst
<1> QED BY <1>1, <1>2, <1>3 DEF Start, StartNothing, StartDeparture

LEMMA CarefulInvStep == CarefulInv /\ RuntimeInv /\ [Next]_vars => CarefulInv'
<1> SUFFICES ASSUME CarefulInv, RuntimeInv, [Next]_vars PROVE CarefulInv'
  OBVIOUS
<1>0. withdrawal \in BOOLEAN
  BY DEF CarefulInv, TypeOK, TimerTypes
<1>1. TypeOK' /\ StartsIdle'
  BY TypeStep, RuntimeInvStep DEF CarefulInv, RuntimeInv
<1>2. ASSUME NEW f \in Phases, NEW t \in Phases, LoseOwner(f, t) PROVE CarefulInv'
  <2>1. /\ queue' \in {queue, <<>>} /\ act' \in {act, "none"} /\ estop' = estop /\ careful' = "off"
        /\ withdrawal' = withdrawal
    BY <1>2 DEF LoseOwner, Halt, NoAction, gateVars, activeVars
  <2> QED BY <1>1, <2>1, CarefulKept
<1>3. ASSUME NEW f \in Phases, NEW t \in Phases, KeepOwner(f, t) PROVE CarefulInv'
  BY <1>1, <1>3, CarefulKept DEF KeepOwner, gateVars, activeVars
<1>4. CASE Sense \/ TakeNothing \/ FullRefresh \/ ActionDue \/ CarefulDue \/ BeatDue
  <2>1. /\ queue' = queue /\ act' = act /\ estop' = estop /\ careful' \in {"off", "due", careful}
        /\ withdrawal' = withdrawal
    BY <1>4 DEF Sense, TakeNothing, FullRefresh, ActionDue, CarefulDue, BeatDue, gateVars, activeVars
  <2> QED BY <1>1, <2>1, CarefulKept
<1>5. CASE CarefulTimeout
  <2>1. estop' = estop /\ careful' \in {"off", careful}
    BY <1>5 DEF CarefulTimeout, gateVars
  <2>2. Untouched \/ Halts \/ Errs
    BY <1>0, <1>5 DEF CarefulTimeout, Untouched, Halts, Errs
  <2> QED BY <1>1, <2>1, <2>2, MovesKeep, CarefulKept
<1>6. CASE Safety
  <2>1. estop' = estop /\ careful' = careful
    BY <1>6 DEF Safety, SafetyEscape, SafetyCareful, SafetyDock, SafetyCharging, SafetyNothing, SafetyStop,
       SafetyContact
  <2>2. Untouched \/ Halts \/ Withdraws \/ Clears \/ Errs
    BY <1>6, SafetyMoves DEF CarefulInv
  <2> QED BY <1>1, <2>1, <2>2, MovesKeep, CarefulKept
<1>7. CASE Heartbeat
  <2>1. estop' = estop /\ careful' \in {"off", careful}
    BY <1>7 DEF Heartbeat, gateVars
  <2>2. (UNCHANGED <<queue, act, withdrawal>>) \/ Halts \/ Errs
    BY <1>0, <1>7 DEF Heartbeat, Halts, Errs, activeVars
  <2> QED BY <1>1, <2>1, <2>2, MovesKeep, CarefulKept
<1>8. CASE FullError
  BY <1>1, <1>8, MovesKeep, CarefulKept DEF FullError, Errs, gateVars
<1>9. CASE Advance
  <2>1. estop' = estop /\ careful' = careful
    BY <1>9 DEF Advance, gateVars
  <2>2. Errs \/ (queue' = queue /\ act' \in {act, "none"} /\ (withdrawal' => withdrawal))
    BY <1>9 DEF Advance, EndMotion, NoAction, Errs, activeVars
  <2> QED BY <1>1, <2>1, <2>2, MovesKeep, CarefulKept
<1>10. CASE UNCHANGED vars
  BY <1>1, <1>10, CarefulKept DEF vars, gateVars, activeVars
<1> QED BY NextCases, CarefulTaken, CarefulStarted, <1>1, <1>2, <1>3, <1>4, <1>5, <1>6, <1>7, <1>8, <1>9, <1>10

\* Careful mode neither bypasses an E-stop nor preempts the contact reflex, for
\* any commands, sensors, queue capacity and UART faults: see CarefulExcluded.
THEOREM CarefulAlwaysExcluded == Spec => []CarefulExcluded
<1>1. CarefulInv => CarefulExcluded
  BY DEF CarefulInv
<1> QED BY RuntimeInvInit, RuntimeInvStep, CarefulInvInit, CarefulInvStep, <1>1, PTL DEF Spec

-----------------------------------------------------------------------------
(* A UART that never fails.  Then a Stop that was taken runs in the same    *)
(* tick: it is the first of the queue, nothing is active and nothing leaves *)
(* the tick before it has started.                                          *)

Late == {"careful", "safety", "beat", "full", "expiry", "advance", "start"}

StopFirst ==
  /\ AfterFirst(queue, Others("stop"))
  /\ queue \in Seq(Others("stop")) \/ (act = "none" /\ mode = "running" /\ phase \in Late)

\* Steps that start nothing and take nothing, later in the tick.
LEMMA StopKept ==
  ASSUME TypeOK, StopFirst,
         queue' \in {queue, <<>>, <<Recovery>>} \/ queue' = Without(queue, MotionKinds),
         \/ queue \in Seq(Others("stop"))
         \/ act' \in {act, "none"} /\ mode' \in {mode, "running"} /\ phase' \in Late
  PROVE  StopFirst'
<1>1. AfterFirst(queue', Others("stop")) /\ (queue \in Seq(Others("stop")) => queue' \in Seq(Others("stop")))
  BY QueueKept DEF StopFirst
<1> QED BY <1>1 DEF StopFirst

LEMMA WaitsNot ==
  ASSUME NEW kind, queue \in Seq(Others(kind))
  PROVE  ~Waits(kind)
<1>1. ToSet(queue) \subseteq Others(kind)
  BY DEF ToSet
<1> QED BY <1>1 DEF Waits, Others

\* The steps of the tick without a fault, as halts, clearings and errors.
LEMMA SureOutcome ==
  ASSUME ~UartFaults, NEW ok \in Outcomes
  PROVE  ok = TRUE
BY DEF Outcomes

LEMMA SureMoves ==
  ASSUME ~UartFaults, TypeOK, CarefulTimeout \/ Safety \/ Heartbeat
  PROVE  /\ phase' \in Late /\ phase' \in {"safety", "beat", "full"}
         /\ phase' = "safety" => phase = "careful"
         /\ phase' = "beat" => phase = "safety"
         /\ phase' = "full" => phase = "beat"
         /\ \/ UNCHANGED <<mode, queue, activeVars, outputVars, withdrawal>>
               /\ (phase' = "beat" \/ departure' = departure)
            \/ Halts \/ Withdraws \/ Clears
<1>0. withdrawal \in BOOLEAN
  BY DEF TypeOK, TimerTypes
<1>1. CASE CarefulTimeout
  <2>1. phase = "careful" /\ phase' = "safety"
    BY <1>1 DEF CarefulTimeout
  <2>2. Halts \/ UNCHANGED <<mode, queue, activeVars, outputVars, withdrawal>>
    BY <1>0, <1>1 DEF CarefulTimeout, Halts
  <2>3. departure' = departure
    BY <1>1 DEF CarefulTimeout, gateVars
  <2> QED BY <2>1, <2>2, <2>3 DEF Late
<1>2. CASE Safety
  <2>1. phase = "safety"
    BY <1>2 DEF Safety
  <2>2. phase' = "beat" /\ (Untouched \/ Halts \/ Withdraws \/ Clears)
    BY <1>2, SafetyMoves
  <2> QED BY <2>1, <2>2 DEF Untouched, Late
<1>3. CASE Heartbeat
  BY <1>0, <1>3 DEF Heartbeat, Halts, gateVars, Late
<1> QED BY <1>1, <1>2, <1>3

LEMMA StopFirstInit == Init => StopFirst
<1> SUFFICES ASSUME Init PROVE StopFirst
  OBVIOUS
<1>1. Cmd("settle", 0, FALSE) \in Others("stop")
  BY CmdTyped DEF Others, Cmd, Kinds
<1>2. queue \in Seq(Others("stop"))
  BY <1>1, ShortIn DEF Init
<1> QED BY <1>2, AllAfter DEF StopFirst

LEMMA ShortAfter ==
  ASSUME NEW c, NEW d, NEW S
  PROVE  AfterFirst(<<c>>, S) /\ (d \in S => AfterFirst(<<c, d>>, S))
<1>1. Len(<<c>>) = 1 /\ Len(<<c, d>>) = 2 /\ <<c, d>>[2] = d
  OBVIOUS
<1>2. 2..1 = {} /\ 2..2 = {2}
  OBVIOUS
<1> QED BY <1>1, <1>2 DEF AfterFirst

LEMMA StopTaken ==
  ASSUME TypeOK, StopFirst, NEW k \in Offered, NEW i \in Ids,
         TakePreempting(k, i) \/ TakeVelocity(k, i) \/ TakeOrdinary(k, i)
  PROVE  StopFirst' /\ ~Waits("stop")
<1>0. phase = "take" /\ phase' = "careful"
  BY DEF TakePreempting, TakeVelocity, TakeOrdinary
<1>1. queue \in Seq(Others("stop"))
  BY <1>0 DEF StopFirst, Late
<1>2. ~Waits("stop")
  BY <1>1, WaitsNot
<1>3. CASE TakePreempting(k, i)
  <2>1. act' = "none" /\ mode' = "running" /\ phase' \in Late /\ queue' = Script(k, i)
        /\ k \in {"stop", "estop", "disarm", "restart"}
    BY <1>3 DEF TakePreempting, NoAction, Late
  <2>2. Cmd("estop", i, FALSE) \in Others("stop") /\ Cmd("settle", i, FALSE) \in Others("stop")
    BY CmdOther DEF Kinds
  <2>3. AfterFirst(queue', Others("stop"))
    <3>1. CASE k \in {"stop", "disarm", "estop"}
      <4>1. queue' = <<Cmd("stop", i, FALSE)>> \/ queue' = <<Cmd("estop", i, FALSE)>>
        BY <2>1, <3>1 DEF Script
      <4> QED BY <4>1, ShortAfter
    <3>2. CASE k = "restart"
      <4>1. queue' = <<Cmd("stop", i, FALSE), Cmd("settle", i, FALSE)>>
        BY <2>1, <3>2 DEF Script
      <4> QED BY <2>2, <4>1, ShortAfter
    <3> QED BY <2>1, <3>1, <3>2
  <2> QED BY <1>2, <2>1, <2>3 DEF StopFirst
<1>4. CASE TakeVelocity(k, i) \/ TakeOrdinary(k, i)
  <2>1. k # "stop"
    BY <1>4 DEF TakeVelocity, TakeOrdinary, Velocities
  <2>2. AfterFirst(queue', Others("stop")) /\ queue' \in Seq(Others("stop"))
    BY <1>1, <1>4, <2>1, QueueTaken DEF StopFirst, Velocities
  <2> QED BY <1>2, <2>2 DEF StopFirst
<1> QED BY <1>3, <1>4

\* The Stop at the head of the queue is run, or there is none.
LEMMA StopStarted ==
  ASSUME ~UartFaults, TypeOK, StopFirst, Start
  PROVE  StopFirst' /\ (Waits("stop") => queue' = queue \/ wheels' = "still")
<1>0. queue \in Seq(Commands) /\ AfterFirst(queue, Others("stop"))
  BY DEF TypeOK, QueueTypes, StopFirst
<1>1. CASE StartNothing
  <2>1. queue' = <<>> /\ queue = <<>>
    BY <1>1 DEF StartNothing, Complete
  <2>2. queue \in Seq(Others("stop"))
    BY <2>1, RecoveryOther
  <2> QED BY <2>1, <2>2, StopKept
<1>2. CASE StartDeparture
  <2>1. queue' = queue
    BY <1>2 DEF StartDeparture, EnterError, EnterErrorWith
  <2>2. queue # <<>> /\ Head(queue).kind # "stop"
    BY <1>2 DEF StartDeparture, DepartureDue, RequiresDeparture, MotionKinds, Velocities, Escapes
  <2>3. queue \in Seq(Others("stop"))
    BY <1>0, <2>2, HeadDecides
  <2> QED BY <2>1, <2>3, StopKept
<1>3. CASE queue # <<>> /\ ~StartNothing /\ ~StartDeparture
  <2> DEFINE c == Head(queue)
             q == Tail(queue)
  <2>1. StartStop(q, c) \/ StartDrive(q, c) \/ StartSettle(q, c) \/ StartImmediate(q, c)
    BY <1>3 DEF Start
  <2>2. queue' = q \/ queue' = Without(q, MotionKinds)
    BY <2>1, StartTakesHead
  <2>3. StopFirst'
    BY <1>0, <1>3, <2>2, QueueStarted DEF StopFirst
  <2>4. CASE c.kind # "stop"
    <3>1. ~Waits("stop")
      BY <1>0, <1>3, <2>4, HeadDecides, WaitsNot
    <3> QED BY <2>3, <3>1
  <2>5. CASE c.kind = "stop"
    <3>1. StartStop(q, c)
      BY <2>1, <2>5 DEF StartDrive, StartSettle, StartImmediate, MotionKinds, Velocities, Escapes
    <3>2. wheels' = "still"
      BY <3>1 DEF StartStop, StopDrive
    <3> QED BY <2>3, <3>2
  <2> QED BY <2>4, <2>5
<1> QED BY <1>1, <1>2, <1>3 DEF Start, StartNothing, StartDeparture

\* Every step of a faultless tick keeps the invariant and honours a Stop.
LEMMA StopStep ==
  ASSUME ~UartFaults, TypeOK, StopFirst, [Next]_vars
  PROVE  StopFirst' /\ (Waits("stop") /\ ~Waits("stop")' => wheels' = "still")
<1>0. queue' = queue => Waits("stop")' = Waits("stop")
  BY DEF Waits
<1>1. phase \notin Late => queue \in Seq(Others("stop")) /\ ~Waits("stop")
  BY WaitsNot DEF StopFirst
<1>2. ASSUME NEW f \in Phases, NEW t \in Phases, LoseOwner(f, t), Passes(f, t)
      PROVE  StopFirst' /\ (queue' = queue \/ wheels' = "still")
  <2>1. phase = f /\ phase' = t /\ mode' = mode /\ act' \in {act, "none"} /\ queue' \in {queue, <<>>}
    BY <1>2 DEF LoseOwner, Halt, NoAction, activeVars
  <2>2. queue' = queue \/ wheels' = "still"
    BY <1>2, SureOutcome DEF LoseOwner, Halt
  <2>3. phase \in Late => phase' \in Late
    BY <1>2, <2>1 DEF Passes, Late
  <2> QED BY <1>1, <2>1, <2>2, <2>3, StopKept
<1>3. ASSUME NEW f \in Phases, NEW t \in Phases, KeepOwner(f, t), Passes(f, t)
      PROVE  StopFirst' /\ queue' = queue
  <2>1. phase = f /\ phase' = t /\ mode' = mode /\ act' = act /\ queue' = queue
    BY <1>3 DEF KeepOwner, activeVars
  <2>2. phase \in Late => phase' \in Late
    BY <1>3, <2>1 DEF Passes, Late
  <2> QED BY <1>1, <2>1, <2>2, StopKept
<1>4. CASE Sense \/ TakeNothing \/ FullRefresh \/ ActionDue \/ CarefulDue \/ BeatDue
  <2>1. mode' = mode /\ act' = act /\ queue' = queue
    BY <1>4 DEF Sense, TakeNothing, FullRefresh, ActionDue, CarefulDue, BeatDue, activeVars
  <2>2. phase \in Late => phase' \in Late
    BY <1>4 DEF Sense, TakeNothing, FullRefresh, ActionDue, CarefulDue, BeatDue, Late
  <2> QED BY <1>0, <1>1, <2>1, <2>2, StopKept
<1>5. CASE CarefulTimeout \/ Safety \/ Heartbeat
  <2>1. /\ phase' \in Late
        /\ UNCHANGED <<mode, queue, activeVars>> \/ Halts \/ Withdraws \/ Clears
    BY <1>5, SureMoves
  <2>2. CASE UNCHANGED <<mode, queue, activeVars>>
    BY <1>0, <2>1, <2>2, StopKept DEF activeVars
  <2>3. CASE Halts \/ Withdraws \/ Clears
    <3>1. mode' \in {mode, "running"} /\ wheels' = "still"
      BY <2>3 DEF Halts, Withdraws, Clears, Halt, ClearMotion, StopDrive
    <3> QED BY <2>1, <2>3, <3>1, MovesKeep, StopKept
  <2> QED BY <2>1, <2>2, <2>3
<1>6. CASE FullError
  <2>1. act # "none" /\ queue' = queue
    BY <1>6 DEF FullError, MotorActive, EnterError, EnterErrorWith
  <2> QED BY <1>0, <2>1, StopKept DEF StopFirst
<1>7. CASE Advance
  <2>1. queue' = queue
    BY <1>7 DEF Advance, EndMotion, EnterError, EnterErrorWith
  <2>2. CASE mode # "running" \/ act # "none"
    BY <1>0, <2>1, <2>2, StopKept DEF StopFirst
  <2>3. CASE mode = "running" /\ act = "none"
    <3>1. phase' \in Late /\ act' = act /\ mode' = mode
      BY <1>7, <2>3 DEF Advance, MotorActive, activeVars, Late
    <3> QED BY <1>0, <2>1, <3>1, StopKept
  <2> QED BY <2>2, <2>3
<1>8. CASE UNCHANGED vars
  <2>1. queue' = queue /\ act' = act /\ mode' = mode /\ phase' = phase
    BY <1>8 DEF vars, activeVars
  <2> QED BY <1>0, <1>1, <2>1, StopKept
<1> QED BY NextCases, StopTaken, StopStarted, <1>0, <1>2, <1>3, <1>4, <1>5, <1>6, <1>7, <1>8

\* A Stop that was taken is not lost: when it leaves the queue, run or thrown
\* out, the wheels stand still.  For any commands, sensors and queue capacity, on
\* a UART that does not fail: see StopHonoured.
THEOREM StopsAreHonoured ==
  ASSUME ~UartFaults
  PROVE  Spec => StopHonoured
<1> DEFINE Honours == Waits("stop") /\ ~Waits("stop")' => wheels' = "still"
<1>1. TypeOK /\ StopFirst /\ [Next]_vars => StopFirst' /\ [Honours]_vars
  BY StopStep
<1> QED BY TypeInit, TypeStep, StopFirstInit, <1>1, PTL DEF Spec, StopHonoured

-----------------------------------------------------------------------------
(* The reverse without a lease, on a UART that never fails.  A recovery     *)
(* motion that is no escape waits in the queue only for an active reflex;   *)
(* and a reflex that waits is started by this tick: nothing is active,      *)
(* nothing is in its way and the safety policy has passed, so that nothing  *)
(* ends the reflex and leaves its reverse in the queue.                     *)

Bare == {c \in Commands : c.rec => c.kind \in Escapes}
AfterSafety == {"beat", "full", "expiry", "advance", "start"}

ReflexWaits == withdrawal /\ queue # <<>>
RecoveryOwned == withdrawal \/ queue \in Seq(Bare)
ReflexNext ==
  ReflexWaits => act = "none" /\ mode = "running" /\ ~departure /\ phase \in AfterSafety

OnlyInv == RecoveryOwned /\ ReflexNext /\ ReflexOnly

LEMMA CmdBare ==
  ASSUME NEW k \in Kinds, NEW i \in Ids \cup {0}, NEW r \in BOOLEAN, r => k \in Escapes
  PROVE  Cmd(k, i, r) \in Bare
BY CmdTyped DEF Bare, Cmd

LEMMA EmptyBare == <<>> \in Seq(Bare)
OBVIOUS

LEMMA OnlyInvInit == Init => OnlyInv
<1> SUFFICES ASSUME Init PROVE OnlyInv
  OBVIOUS
<1>1. Cmd("settle", 0, FALSE) \in Bare
  BY CmdBare DEF Kinds
<1>2. queue \in Seq(Bare)
  BY <1>1, ShortIn DEF Init
<1> QED BY <1>2 DEF Init, OnlyInv, RecoveryOwned, ReflexNext, ReflexWaits, ReflexOnly

\* Steps that leave the reflex and the queue alone.
LEMMA OnlyKept ==
  ASSUME OnlyInv, UNCHANGED <<queue, act, rec, esc, withdrawal>>,
         ReflexWaits => mode' = mode /\ departure' = departure /\ phase' \in AfterSafety
  PROVE  OnlyInv'
<1>1. RecoveryOwned'
  BY DEF OnlyInv, RecoveryOwned
<1>2. ReflexNext'
  BY DEF OnlyInv, ReflexNext, ReflexWaits
<1>3. ReflexOnly'
  BY DEF OnlyInv, ReflexOnly
<1> QED BY <1>1, <1>2, <1>3 DEF OnlyInv

\* Steps that empty the queue and end the drive.
LEMMA OnlyHalted ==
  ASSUME queue' = <<>>, act' # "driving"
  PROVE  OnlyInv'
BY EmptyBare DEF OnlyInv, RecoveryOwned, ReflexNext, ReflexWaits, ReflexOnly

\* Steps that end the drive, and the reflex unless its reverse waits.
LEMMA OnlyEnded ==
  ASSUME OnlyInv, ~ReflexWaits, act' # "driving", ~withdrawal',
         queue' = queue \/ \E kinds : queue' = Without(queue, kinds)
  PROVE  OnlyInv'
<1>1. queue \in Seq(Bare)
  BY EmptyBare DEF OnlyInv, RecoveryOwned, ReflexWaits
<1>2. queue' \in Seq(Bare)
  BY <1>1, WithoutFrom
<1> QED BY <1>2 DEF OnlyInv, RecoveryOwned, ReflexNext, ReflexWaits, ReflexOnly

LEMMA OnlyTaken ==
  ASSUME TypeOK, OnlyInv, NEW k \in Offered, NEW i \in Ids,
         TakePreempting(k, i) \/ TakeVelocity(k, i) \/ TakeOrdinary(k, i)
  PROVE  OnlyInv'
<1>0. k \in Kinds
  BY InputAssumption
<1>1. ~withdrawal'
  BY DEF TakePreempting, TakeVelocity, TakeOrdinary
<1>2. ReflexNext'
  BY <1>1 DEF ReflexNext, ReflexWaits
<1>3. CASE TakePreempting(k, i)
  <2>1. act' = "none" /\ queue' = Script(k, i) /\ k \in {"stop", "estop", "disarm", "restart"}
    BY <1>3 DEF TakePreempting, NoAction
  <2>2. {"stop", "estop", "settle"} \subseteq Kinds
    BY DEF Kinds
  <2>3. Cmd("stop", i, FALSE) \in Bare /\ Cmd("estop", i, FALSE) \in Bare /\ Cmd("settle", i, FALSE) \in Bare
    BY <2>2, CmdBare
  <2>4. queue' \in {<<Cmd("stop", i, FALSE)>>, <<Cmd("estop", i, FALSE)>>,
                    <<Cmd("stop", i, FALSE), Cmd("settle", i, FALSE)>>}
    BY <2>1 DEF Script
  <2>5. queue' \in Seq(Bare)
    BY <2>3, <2>4, ShortIn
  <2> QED BY <1>2, <2>1, <2>5 DEF OnlyInv, RecoveryOwned, ReflexOnly
<1>4. ASSUME ~withdrawal PROVE queue \in Seq(Bare) /\ \A kinds : Without(queue, kinds) \in Seq(Bare)
  <2>1. queue \in Seq(Bare)
    BY <1>4 DEF OnlyInv, RecoveryOwned
  <2> QED BY <2>1, WithoutFrom
<1>5. CASE TakeVelocity(k, i)
  <2> DEFINE q == Without(queue, Velocities)
             c == Cmd(k, i, FALSE)
  <2>1. c \in Bare
    BY <1>0, CmdBare
  <2>2. q \in Seq(Bare)
    BY <1>4, <1>5 DEF TakeVelocity
  <2>3. queue' \in {q, PushFront(q, c), PushBack(q, c)}
    BY <1>5 DEF TakeVelocity
  <2> HIDE DEF q, c
  <2>4. PushBack(q, c) \in Seq(Bare) /\ PushFront(q, c) \in Seq(Bare)
    BY <2>1, <2>2, PushBackIn, PushFrontIn
  <2>5. queue' \in Seq(Bare)
    BY <2>2, <2>3, <2>4
  <2>6. act' = "none" \/ (act' = act /\ rec' = rec /\ esc' = esc)
    BY <1>5 DEF TakeVelocity, NoAction, activeVars
  <2>7. ~withdrawal
    BY <1>5 DEF TakeVelocity
  <2>8. ReflexOnly'
    BY <2>6, <2>7 DEF OnlyInv, ReflexOnly
  <2> QED BY <1>2, <2>5, <2>8 DEF OnlyInv, RecoveryOwned
<1>6. CASE TakeOrdinary(k, i)
  <2> DEFINE q == IF k \in Escapes THEN Without(queue, Escapes) ELSE queue
             c == Cmd(k, i, k \in Escapes)
  <2>1. c \in Bare
    <3>1. (k \in Escapes) \in BOOLEAN
      OBVIOUS
    <3> QED BY <1>0, <3>1, CmdBare
  <2>2. ~withdrawal
    BY <1>6 DEF TakeOrdinary
  <2>3. q \in Seq(Bare)
    BY <1>4, <2>2
  <2>4. queue' = PushBack(q, c)
    BY <1>6 DEF TakeOrdinary
  <2> HIDE DEF q, c
  <2>5. queue' \in Seq(Bare)
    BY <2>1, <2>3, <2>4, PushBackIn
  <2>6. act' = act /\ rec' = rec /\ esc' = esc
    BY <1>6 DEF TakeOrdinary, activeVars, outputVars
  <2>7. ReflexOnly'
    BY <2>2, <2>6 DEF OnlyInv, ReflexOnly
  <2> QED BY <1>2, <2>5, <2>7 DEF OnlyInv, RecoveryOwned
<1> QED BY <1>3, <1>5, <1>6

\* A drive that starts is an escape, or a recovery only for the reflex.
LEMMA OnlyStarted ==
  ASSUME ~UartFaults, TypeOK, ReflexAlone, StartsIdle, OnlyInv, Start
  PROVE  OnlyInv'
<1>0. act = "none" /\ queue \in Seq(Commands)
  BY DEF TypeOK, QueueTypes, StartsIdle, Start
<1>1. CASE StartNothing
  <2>1. queue' = <<>> /\ act' = act
    BY <1>1 DEF StartNothing, Complete, activeVars
  <2> QED BY <1>0, <2>1, OnlyHalted
<1>2. CASE StartDeparture
  <2>1. queue # <<>> /\ departure
    BY <1>2 DEF StartDeparture, DepartureDue
  <2>2. ~withdrawal
    BY <2>1 DEF OnlyInv, ReflexNext, ReflexWaits
  <2>3. queue' = queue /\ act' # "driving" /\ (withdrawal' => withdrawal)
    BY <1>0, <1>2 DEF StartDeparture, EnterError, EnterErrorWith, NoAction, activeVars
  <2> QED BY <2>2, <2>3, OnlyEnded DEF ReflexWaits
<1>3. CASE queue # <<>> /\ ~StartNothing /\ ~StartDeparture
  <2> DEFINE c == Head(queue)
             q == Tail(queue)
  <2>1. StartStop(q, c) \/ StartDrive(q, c) \/ StartSettle(q, c) \/ StartImmediate(q, c)
    BY <1>3 DEF Start
  <2>2. /\ queue' = q \/ (queue' = Without(q, MotionKinds) /\ c.kind = "clear_queue")
        /\ withdrawal' => withdrawal
    BY <2>1, StartTakesHead
  <2>3. withdrawal => c.kind = "reverse" /\ q = <<>>
    <3> SUFFICES ASSUME withdrawal PROVE c.kind = "reverse" /\ q = <<>>
      OBVIOUS
    <3>1. queue = <<Recovery>>
      BY <1>3 DEF ReflexAlone
    <3>2. c = Recovery /\ q = <<>>
      BY <3>1
    <3> QED BY <3>2 DEF Recovery, Cmd
  <2>4. ~withdrawal => c \in Bare /\ q \in Seq(Bare)
    <3> SUFFICES ASSUME ~withdrawal PROVE c \in Bare /\ q \in Seq(Bare)
      OBVIOUS
    <3>1. queue \in Seq(Bare)
      BY DEF OnlyInv, RecoveryOwned
    <3> QED BY <1>3, <3>1, HeadTailProperties
  <2>5. q \in Seq(Bare)
    BY <2>3, <2>4, EmptyBare
  <2>6. Without(q, MotionKinds) \in Seq(Bare)
    BY <2>5, WithoutFrom
  <2>7. RecoveryOwned'
    BY <2>2, <2>5, <2>6 DEF RecoveryOwned
  <2>8. ReflexNext'
    BY <2>2, <2>3 DEF ReflexNext, ReflexWaits
  <2>9. ReflexOnly'
    <3>1. CASE StartDrive(q, c)
      <4>1. CASE act' = "driving" /\ rec' = c.rec /\ withdrawal' = withdrawal
                 /\ (c.kind \in Escapes => esc' = EscapeOf(c))
        <5>1. EscapeOf(c) # "none"
          BY DEF EscapeOf
        <5>2. ~withdrawal /\ c.rec => c.kind \in Escapes
          BY <2>4 DEF Bare
        <5> QED BY <4>1, <5>1, <5>2 DEF ReflexOnly
      <4>2. CASE act' = act
        BY <1>0, <4>2 DEF ReflexOnly
      <4> QED BY <3>1, <4>1, <4>2 DEF StartDrive, Refuse, activeVars
    <3>2. CASE StartStop(q, c) \/ StartSettle(q, c) \/ StartImmediate(q, c)
      <4>1. act' # "driving"
        BY <1>0, <3>2 DEF StartStop, StartSettle, StartImmediate, Refuse, Complete, activeVars
      <4> QED BY <4>1 DEF ReflexOnly
    <3> QED BY <2>1, <3>1, <3>2
  <2> QED BY <2>7, <2>8, <2>9 DEF OnlyInv
<1> QED BY <1>1, <1>2, <1>3 DEF Start, StartNothing, StartDeparture

LEMMA OnlyInvStep ==
  ASSUME ~UartFaults, CarefulInv, OnlyInv, [Next]_vars
  PROVE  OnlyInv'
<1>0. TypeOK /\ ReflexAlone /\ StartsIdle
  BY DEF CarefulInv
<1>1. ReflexWaits => phase \in AfterSafety /\ act = "none" /\ mode = "running"
  BY DEF OnlyInv, ReflexNext
<1>2. ASSUME NEW f \in Phases, NEW t \in Phases, LoseOwner(f, t), Passes(f, t) PROVE OnlyInv'
  <2>1. CASE withdrawal
    <3>1. UNCHANGED <<queue, act, rec, esc, withdrawal, mode, departure>> /\ phase = f /\ phase' = t
      BY <1>2, <2>1 DEF LoseOwner, activeVars, outputVars, gateVars
    <3>2. phase \in AfterSafety => phase' \in AfterSafety
      BY <1>2, <3>1 DEF Passes, AfterSafety
    <3> QED BY <1>1, <3>1, <3>2, OnlyKept
  <2>2. CASE ~withdrawal
    <3>1. queue' = <<>> /\ act' = "none"
      BY <1>2, <2>2 DEF LoseOwner, Halt, NoAction
    <3> QED BY <3>1, OnlyHalted
  <2> QED BY <2>1, <2>2
<1>3. ASSUME NEW f \in Phases, NEW t \in Phases, KeepOwner(f, t), Passes(f, t) PROVE OnlyInv'
  <2>1. UNCHANGED <<queue, act, rec, esc, withdrawal, mode, departure>> /\ phase = f /\ phase' = t
    BY <1>3 DEF KeepOwner, activeVars, outputVars, gateVars
  <2>2. phase \in AfterSafety => phase' \in AfterSafety
    BY <1>3, <2>1 DEF Passes, AfterSafety
  <2> QED BY <1>1, <2>1, <2>2, OnlyKept
<1>4. CASE Sense \/ TakeNothing \/ FullRefresh \/ ActionDue \/ CarefulDue \/ BeatDue \/ UNCHANGED vars
  <2>1. UNCHANGED <<queue, act, rec, esc, withdrawal, mode, departure>>
    BY <1>4 DEF Sense, TakeNothing, FullRefresh, ActionDue, CarefulDue, BeatDue, vars, activeVars, outputVars,
       gateVars
  <2>2. phase \in AfterSafety => phase' \in AfterSafety
    BY <1>4 DEF Sense, TakeNothing, FullRefresh, ActionDue, CarefulDue, BeatDue, vars, AfterSafety
  <2> QED BY <1>1, <2>1, <2>2, OnlyKept
<1>5. CASE CarefulTimeout \/ Heartbeat
  <2>1. UNCHANGED <<mode, queue, activeVars, outputVars, withdrawal, departure>> \/ Halt(<<>>, TRUE)
    BY <1>5 DEF CarefulTimeout, Heartbeat, gateVars
  <2>2. CASE UNCHANGED <<mode, queue, activeVars, outputVars, withdrawal, departure>>
    <3>1. ReflexWaits => phase' \in AfterSafety
      BY <1>1, <1>5 DEF CarefulTimeout, Heartbeat, AfterSafety
    <3> QED BY <2>2, <3>1, OnlyKept DEF activeVars, outputVars
  <2>3. CASE Halt(<<>>, TRUE)
    BY <2>3, OnlyHalted DEF Halt, NoAction
  <2> QED BY <2>1, <2>2, <2>3
<1>8. CASE Safety
  <2>1. ~ReflexWaits
    BY <1>1, <1>8 DEF Safety, AfterSafety
  <2>2. phase' = "beat" /\ (Untouched \/ Halts \/ Withdraws \/ Clears)
    BY <1>0, <1>8, SafetyMoves
  <2>3. CASE Untouched
    BY <2>1, <2>3, OnlyKept DEF Untouched, activeVars, outputVars
  <2>4. CASE Halts
    BY <2>4, OnlyHalted DEF Halts, Halt, NoAction
  <2>5. CASE Withdraws
    <3>1. act' = "none" /\ mode' = "running" /\ ~departure' /\ withdrawal'
      BY <2>5 DEF Withdraws, Halt, NoAction
    <3> QED BY <2>2, <3>1 DEF OnlyInv, RecoveryOwned, ReflexNext, ReflexOnly, AfterSafety
  <2>6. CASE Clears
    <3>1. act' # "driving" /\ ~withdrawal' /\ queue' = Without(queue, MotionKinds)
      BY <2>6 DEF Clears, ClearMotion, NoAction, activeVars
    <3> QED BY <2>1, <3>1, OnlyEnded
  <2> QED BY <2>2, <2>3, <2>4, <2>5, <2>6
<1>6. CASE FullError
  <2>1. act # "none" /\ queue' = queue /\ act' = "none" /\ ~withdrawal'
    BY <1>6 DEF FullError, MotorActive, EnterError, EnterErrorWith, NoAction
  <2> QED BY <1>1, <2>1, OnlyEnded
<1>7. CASE Advance
  <2>1. CASE /\ UNCHANGED <<mode, queue, activeVars, outputVars, withdrawal>>
             /\ (mode # "running" \/ act # "none") \/ phase' = "start"
    <3>1. ReflexWaits => phase' \in AfterSafety
      BY <1>1, <2>1 DEF AfterSafety
    <3> QED BY <1>7, <2>1, <3>1, OnlyKept DEF Advance, activeVars, outputVars, gateVars
  <2>2. CASE act # "none" /\ queue' = queue /\ act' = "none" /\ (withdrawal' => withdrawal)
    <3>1. ~ReflexWaits
      BY <1>1, <2>2
    <3>2. CASE withdrawal'
      BY <2>2, <3>1, <3>2, OnlyHalted DEF ReflexWaits
    <3>3. CASE ~withdrawal'
      BY <2>2, <3>1, <3>3, OnlyEnded
    <3> QED BY <3>2, <3>3
  <2>3. CASE EndMotion /\ MotorActive
    BY <2>2, <2>3 DEF EndMotion, MotorActive, NoAction
  <2>4. CASE act = "busy" /\ NoAction /\ UNCHANGED <<queue, withdrawal>>
    BY <2>2, <2>4 DEF NoAction
  <2> QED BY <1>7, <2>1, <2>3, <2>4 DEF Advance
<1> QED BY NextCases, OnlyTaken, OnlyStarted, <1>0, <1>2, <1>3, <1>4, <1>5, <1>6, <1>7, <1>8

\* The reverse that needs no lease moves the body only for an active reflex, for
\* any commands, sensors and queue capacity, on a UART that does not fail: see
\* ReflexOnly.
THEOREM ReflexDrivesOnly ==
  ASSUME ~UartFaults
  PROVE  Spec => []ReflexOnly
<1>1. CarefulInv /\ OnlyInv /\ [Next]_vars => OnlyInv'
  BY OnlyInvStep
<1>2. OnlyInv => ReflexOnly
  BY DEF OnlyInv
<1> QED BY RuntimeInvInit, RuntimeInvStep, CarefulInvInit, CarefulInvStep, OnlyInvInit, <1>1, <1>2, PTL DEF Spec
=============================================================================
