---------------------------- MODULE CandidateProofs ----------------------------
(***************************************************************************)
(* Proofs about CandidateStore, for any candidates and any order of        *)
(* commands, deaths and disk damage: its types, that it implements         *)
(* ActiveModel, that an activation keeps the way back, and that the        *)
(* records agree with the links.                                           *)
(***************************************************************************)
EXTENDS CandidateStore, TLAPS

\* The steps of a command that still have a link to make of sTarget.
LinkPcs == {"keep_previous", "switch", "restore"}

\* What the links and the command under way hold was approved.
LinksApproved ==
  /\ {current, previous, sOld} \subseteq approved \cup {NoCandidate}
  /\ spc \in LinkPcs => sTarget \in approved

\* How far the links are at each step of an activation or a rollback.
LinksFollow ==
  /\ current = NoCandidate => previous = NoCandidate
  /\ spc = "keep_previous" => sOld = current /\ sOld # NoCandidate
  /\ spc = "switch" => sOld = current /\ (current # NoCandidate => previous = current)
  /\ spc = "record_superseded" => current = sTarget /\ previous = sOld /\ sOld # NoCandidate
  /\ spc = "restore" => sOld = current /\ sTarget = previous /\ sOld # NoCandidate
  /\ spc = "retain" => current = sTarget /\ previous = sTarget /\ sOld # NoCandidate
  /\ spc = "record_rolled_back" => current = sTarget /\ previous = sOld /\ sOld # NoCandidate
  /\ spc = "record_activated" => current = sTarget /\ previous \in {NoCandidate, sOld}

\* Which candidate the records call activated at each step, if no command died.
OnlyActivated(link) == \A c \in Candidates : life[c].role = "activated" <=> c = link
Retired(c) == life[c].role \in {"superseded", "rolled_back"}
RecordsFollow ==
  ~stopped =>
    /\ spc \in {"idle", "record_received", "stage", "record_staged", "keep_previous", "switch", "restore"} =>
         OnlyActivated(current) /\ (previous \notin {NoCandidate, current} => Retired(previous))
    /\ spc \in {"record_superseded", "retain", "record_rolled_back"} => OnlyActivated(sOld)
    /\ spc = "record_activated" => OnlyActivated(NoCandidate) /\ (sOld # NoCandidate => Retired(sOld))

StoreInv == StoreTypeOK /\ LinksApproved /\ LinksFollow /\ RecordsFollow

\* The steps of the store, for the proofs by cases.
LEMMA StoreCases ==
  ASSUME [StoreNext]_storeVars
  PROVE  \/ \E c \in Candidates : Receive(c)
         \/ \E c \in Candidates : Validate(c)
         \/ \E c \in Candidates, given \in BOOLEAN : Activate(c, given)
         \/ \E c \in Candidates : Damage(c)
         \/ RecordReceived \/ Stage \/ RecordStaged \/ KeepPrevious \/ Switch \/ RecordSuperseded
         \/ RecordActivated \/ Restore \/ Retain \/ RecordRolledBack \/ Rollback \/ Stop
         \/ UNCHANGED storeVars
BY DEF StoreNext, StoreStep

LEMMA StoreInvInit == StoreInit => StoreInv
<1> SUFFICES ASSUME StoreInit PROVE StoreInv
  OBVIOUS
<1> USE CandidateAssumption DEF StoreInit, Copies, Stages, Roles, Links, StorePcs
<1>1. StoreTypeOK
  BY DEF StoreTypeOK
<1>2. LinksApproved /\ LinksFollow
  BY DEF LinksApproved, LinksFollow, LinkPcs
<1>3. RecordsFollow
  BY DEF RecordsFollow, OnlyActivated
<1> QED BY <1>1, <1>2, <1>3 DEF StoreInv

\* The types hold from step to step.
LEMMA StoreTypeStep == StoreTypeOK /\ [StoreNext]_storeVars => StoreTypeOK'
<1> SUFFICES ASSUME StoreTypeOK, [StoreNext]_storeVars PROVE StoreTypeOK'
  OBVIOUS
<1> USE CandidateAssumption DEF StoreTypeOK, Copies, Stages, Roles, Links, StorePcs, fileVars, linkVars,
        commandVars, storeHistory, Finish, Goto, RecordStage, RecordRole, CopyTree, Admissible, Valid
<1>1. ASSUME NEW c \in Candidates, Receive(c) PROVE StoreTypeOK'
  BY <1>1 DEF Receive
<1>2. ASSUME NEW c \in Candidates, Validate(c) PROVE StoreTypeOK'
  BY <1>2 DEF Validate
<1>3. ASSUME NEW c \in Candidates, NEW given \in BOOLEAN, Activate(c, given) PROVE StoreTypeOK'
  BY <1>3 DEF Activate
<1>4. ASSUME NEW c \in Candidates, Damage(c) PROVE StoreTypeOK'
  BY <1>4 DEF Damage
<1>5. CASE RecordReceived
  BY <1>5 DEF RecordReceived
<1>6. CASE Stage
  BY <1>6 DEF Stage
<1>7. CASE RecordStaged
  BY <1>7 DEF RecordStaged
<1>8. CASE KeepPrevious
  BY <1>8 DEF KeepPrevious
<1>9. CASE Switch
  BY <1>9 DEF Switch
<1>10. CASE RecordSuperseded
  BY <1>10 DEF RecordSuperseded
<1>11. CASE RecordActivated
  BY <1>11 DEF RecordActivated
<1>12. CASE Restore
  BY <1>12 DEF Restore
<1>13. CASE Retain
  BY <1>13 DEF Retain
<1>14. CASE RecordRolledBack
  BY <1>14 DEF RecordRolledBack
<1>15. CASE Rollback
  BY <1>15 DEF Rollback
<1>16. CASE Stop
  BY <1>16 DEF Stop
<1>17. CASE UNCHANGED storeVars
  BY <1>17 DEF storeVars
<1> QED BY StoreCases, <1>1, <1>2, <1>3, <1>4, <1>5, <1>6, <1>7, <1>8, <1>9, <1>10, <1>11, <1>12, <1>13,
           <1>14, <1>15, <1>16, <1>17

\* An approval is never taken back.
LEMMA ApprovedKept == [StoreNext]_storeVars => approved \subseteq approved'
<1> SUFFICES ASSUME [StoreNext]_storeVars PROVE approved \subseteq approved'
  OBVIOUS
<1>1. ASSUME NEW c \in Candidates, NEW given \in BOOLEAN, Activate(c, given) PROVE approved \subseteq approved'
  BY <1>1 DEF Activate
<1>2. CASE UNCHANGED approved
  BY <1>2
<1> QED BY StoreCases, <1>1, <1>2 DEF Receive, Validate, Damage, RecordReceived, Stage, RecordStaged,
           KeepPrevious, Switch, RecordSuperseded, RecordActivated, Restore, Retain, RecordRolledBack,
           Rollback, Stop, storeVars, storeHistory

\* The links, and how far a command has got with them.
LEMMA LinksStep ==
  StoreTypeOK /\ LinksApproved /\ LinksFollow /\ [StoreNext]_storeVars => LinksApproved' /\ LinksFollow'
<1> SUFFICES ASSUME StoreTypeOK, LinksApproved, LinksFollow, [StoreNext]_storeVars
             PROVE LinksApproved' /\ LinksFollow'
  OBVIOUS
<1>k. approved \subseteq approved'
  BY ApprovedKept
<1>t. /\ current \in Links /\ previous \in Links /\ sOld \in Links /\ sTarget \in Links
      /\ spc # "idle" => sTarget \in Candidates
  BY DEF StoreTypeOK, Links
<1> USE CandidateAssumption, <1>k, <1>t DEF LinksApproved, LinksFollow, LinkPcs, Links, fileVars, linkVars,
        commandVars, storeHistory, Finish, Goto
<1>1. ASSUME NEW c \in Candidates, Receive(c) PROVE LinksApproved' /\ LinksFollow'
  BY <1>1 DEF Receive
<1>2. ASSUME NEW c \in Candidates, Validate(c) PROVE LinksApproved' /\ LinksFollow'
  BY <1>2 DEF Validate
<1>3. ASSUME NEW c \in Candidates, NEW given \in BOOLEAN, Activate(c, given) PROVE LinksApproved' /\ LinksFollow'
  <2>1. CASE given /\ Admissible(library, c)
    BY <1>3, <2>1 DEF Activate
  <2>2. CASE ~(given /\ Admissible(library, c))
    BY <1>3, <2>2 DEF Activate
  <2> QED BY <2>1, <2>2
<1>4. ASSUME NEW c \in Candidates, Damage(c) PROVE LinksApproved' /\ LinksFollow'
  BY <1>4 DEF Damage
<1>5. CASE RecordReceived
  BY <1>5 DEF RecordReceived
<1>6. CASE Stage
  BY <1>6 DEF Stage
<1>7. CASE RecordStaged
  BY <1>7 DEF RecordStaged
<1>8. CASE KeepPrevious
  BY <1>8 DEF KeepPrevious
<1>9. CASE Switch
  BY <1>9 DEF Switch
<1>10. CASE RecordSuperseded
  BY <1>10 DEF RecordSuperseded
<1>11. CASE RecordActivated
  BY <1>11 DEF RecordActivated
<1>12. CASE Restore
  BY <1>12 DEF Restore
<1>13. CASE Retain
  BY <1>13 DEF Retain
<1>14. CASE RecordRolledBack
  BY <1>14 DEF RecordRolledBack
<1>15. CASE Rollback
  BY <1>15 DEF Rollback, Admissible, Valid
<1>16. CASE Stop
  BY <1>16 DEF Stop
<1>17. CASE UNCHANGED storeVars
  BY <1>17 DEF storeVars
<1> QED BY StoreCases, <1>1, <1>2, <1>3, <1>4, <1>5, <1>6, <1>7, <1>8, <1>9, <1>10, <1>11, <1>12, <1>13,
           <1>14, <1>15, <1>16, <1>17

\* A stage record leaves every role alone; a role record sets one.
LEMMA StageKeepsRole ==
  ASSUME StoreTypeOK, NEW d \in Links, NEW stage \in Stages, RecordStage(d, stage), NEW c \in Candidates
  PROVE  life'[c].role = life[c].role
<1>1. life'[c] = IF c = d THEN [life[c] EXCEPT !.stage = stage] ELSE life[c]
  BY DEF RecordStage, StoreTypeOK
<1>2. life[c] \in [stage : Stages, role : Roles]
  BY DEF StoreTypeOK
<1> QED BY <1>1, <1>2

LEMMA RoleRecorded ==
  ASSUME StoreTypeOK, NEW d \in Links, NEW role \in Roles, RecordRole(d, role), NEW c \in Candidates
  PROVE  life'[c].role = IF c = d THEN role ELSE life[c].role
<1>1. life'[c] = IF c = d THEN [life[c] EXCEPT !.role = role] ELSE life[c]
  BY DEF RecordRole, StoreTypeOK
<1>2. life[c] \in [stage : Stages, role : Roles]
  BY DEF StoreTypeOK
<1> QED BY <1>1, <1>2

\* The records, and the links they are about.
LEMMA RecordsStep == StoreInv /\ [StoreNext]_storeVars => RecordsFollow'
<1> SUFFICES ASSUME StoreInv, [StoreNext]_storeVars, ~stopped' PROVE RecordsFollow'
  BY DEF RecordsFollow
<1>n. ~stopped
  <2>1. CASE UNCHANGED stopped
    BY <2>1
  <2>2. CASE Stop
    BY <2>2 DEF Stop
  <2> QED BY StoreCases, <2>1, <2>2 DEF Receive, Validate, Activate, Damage, RecordReceived, Stage,
             RecordStaged, KeepPrevious, Switch, RecordSuperseded, RecordActivated, Restore, Retain,
             RecordRolledBack, Rollback, storeVars, storeHistory
<1>t. /\ current \in Links /\ previous \in Links /\ sOld \in Links /\ sTarget \in Links
      /\ spc # "idle" => sTarget \in Candidates
  BY DEF StoreInv, StoreTypeOK, Links
<1>r. {"superseded", "rolled_back", "activated"} \subseteq Roles
      /\ {"received", "validated", "rejected", "staged"} \subseteq Stages
  BY DEF Roles, Stages
<1> USE CandidateAssumption, <1>n, <1>t, <1>r DEF StoreInv, RecordsFollow, LinksFollow, OnlyActivated, Retired, Links,
        fileVars, linkVars, commandVars, storeHistory, Finish, Goto
<1>1. ASSUME NEW c \in Candidates, Receive(c) PROVE RecordsFollow'
  BY <1>1 DEF Receive
<1>2. ASSUME NEW c \in Candidates, Validate(c) PROVE RecordsFollow'
  <2>1. \A d \in Candidates : life'[d].role = life[d].role
    BY <1>2, StageKeepsRole DEF Validate
  <2> QED BY <1>2, <2>1 DEF Validate
<1>3. ASSUME NEW c \in Candidates, NEW given \in BOOLEAN, Activate(c, given) PROVE RecordsFollow'
  BY <1>3 DEF Activate
<1>4. ASSUME NEW c \in Candidates, Damage(c) PROVE RecordsFollow'
  BY <1>4 DEF Damage
<1>5. CASE RecordReceived
  <2>1. \A d \in Candidates : life'[d].role = life[d].role
    BY <1>5, StageKeepsRole DEF RecordReceived
  <2> QED BY <1>5, <2>1 DEF RecordReceived
<1>6. CASE Stage
  BY <1>6 DEF Stage
<1>7. CASE RecordStaged
  <2>1. \A d \in Candidates : life'[d].role = life[d].role
    BY <1>7, StageKeepsRole DEF RecordStaged
  <2> QED BY <1>7, <2>1 DEF RecordStaged
<1>8. CASE KeepPrevious
  BY <1>8 DEF KeepPrevious
<1>9. CASE Switch
  BY <1>9 DEF Switch
<1>10. CASE RecordSuperseded
  <2>1. \A d \in Candidates : life'[d].role = IF d = sOld THEN "superseded" ELSE life[d].role
    BY <1>10, RoleRecorded DEF RecordSuperseded
  <2> QED BY <1>10, <2>1 DEF RecordSuperseded
<1>11. CASE RecordActivated
  <2>1. \A d \in Candidates : life'[d].role = IF d = sTarget THEN "activated" ELSE life[d].role
    BY <1>11, RoleRecorded DEF RecordActivated
  <2> QED BY <1>11, <2>1 DEF RecordActivated
<1>12. CASE Restore
  BY <1>12 DEF Restore
<1>13. CASE Retain
  BY <1>13 DEF Retain
<1>14. CASE RecordRolledBack
  <2>1. \A d \in Candidates : life'[d].role = IF d = sOld THEN "rolled_back" ELSE life[d].role
    BY <1>14, RoleRecorded DEF RecordRolledBack
  <2> QED BY <1>14, <2>1 DEF RecordRolledBack
<1>15. CASE Rollback
  BY <1>15 DEF Rollback, Admissible, Valid
<1>16. CASE Stop
  BY <1>16 DEF Stop
<1>17. CASE UNCHANGED storeVars
  BY <1>17 DEF storeVars
<1> QED BY StoreCases, <1>1, <1>2, <1>3, <1>4, <1>5, <1>6, <1>7, <1>8, <1>9, <1>10, <1>11, <1>12, <1>13,
           <1>14, <1>15, <1>16, <1>17

LEMMA StoreInvStep == StoreInv /\ [StoreNext]_storeVars => StoreInv'
BY StoreTypeStep, LinksStep, RecordsStep DEF StoreInv

LEMMA StoreInvariant == StoreSpec => []StoreInv
BY StoreInvInit, StoreInvStep, PTL DEF StoreSpec

\* The store's variables keep their types, and a command names a candidate from
\* its first step to its last.
THEOREM StoreTypeCorrect == StoreSpec => []StoreTypeOK
BY StoreInvariant, PTL DEF StoreInv

\* As long as no command died half way, the lifecycle records of any set of
\* candidates name the model the links select.
THEOREM RecordsAgreeAlways == StoreSpec => []RecordsAgree
<1>1. StoreInv => RecordsAgree
  BY DEF StoreInv, RecordsFollow, RecordsAgree, OnlyActivated, Retired
<1> QED BY <1>1, StoreInvariant, PTL

\* No activation leaves the model that was serving out of both links, wherever
\* the process may die.
THEOREM SwitchAlwaysKeepsOld == StoreSpec => SwitchKeepsOld
<1>1. StoreInv /\ [StoreNext]_storeVars =>
        [(spc = "switch" /\ current' # current /\ current # NoCandidate) => previous' = current]_storeVars
  <2> SUFFICES ASSUME StoreInv, [StoreNext]_storeVars, spc = "switch", current' # current,
                      current # NoCandidate, storeVars' # storeVars
               PROVE previous' = current
    OBVIOUS
  <2>1. CASE Switch
    BY <2>1 DEF Switch, StoreInv, LinksFollow
  <2>2. CASE Stop
    BY <2>2 DEF Stop, linkVars
  <2> QED BY StoreCases, <2>1, <2>2 DEF Receive, Validate, Activate, Damage, RecordReceived, Stage,
             RecordStaged, KeepPrevious, RecordSuperseded, RecordActivated, Restore, Retain,
             RecordRolledBack, Rollback, linkVars
<1> QED BY <1>1, StoreInvariant, PTL DEF StoreSpec, SwitchKeepsOld

\* Every step of the store is a step of ActiveModel on the current link and the
\* candidate chosen, or leaves what ActiveModel sees alone.
LEMMA StoreStepRefines ==
  ASSUME StoreInv, [StoreNext]_storeVars
  PROVE  [Model!ModelNext]_<<current, Chosen, {c \in Candidates : library[c] = "whole"}, approved>>
<1> DEFINE whole == {c \in Candidates : library[c] = "whole"}
           Stutter == UNCHANGED <<current, Chosen, whole, approved>>
<1>t. /\ library \in [Candidates -> Copies] /\ NoCandidate \notin Candidates
      /\ spc # "idle" => sTarget \in Candidates
      /\ spc \in LinkPcs => Chosen = sTarget
      /\ spc \notin LinkPcs => Chosen = NoCandidate
  BY CandidateAssumption DEF StoreInv, StoreTypeOK, Links, Chosen, LinkPcs
<1>u. UNCHANGED library => UNCHANGED whole
  OBVIOUS
<1>1. ASSUME NEW c \in Candidates, NEW given \in BOOLEAN, Activate(c, given) PROVE Model!ModelNext \/ Stutter
  <2>1. spc = "idle" /\ UNCHANGED <<current, library>> /\ Chosen = NoCandidate
    BY <1>1, <1>t DEF Activate, fileVars, linkVars, LinkPcs
  <2>2. CASE given /\ Admissible(library, c)
    <3>1. c \in whole /\ approved' = approved \cup {c} /\ Chosen' = c
      BY <1>1, <2>2 DEF Activate, Admissible, Valid, Chosen
    <3> QED BY <3>1, <2>1, <1>u DEF Model!ModelNext, Model!Choose
  <2>3. CASE ~(given /\ Admissible(library, c))
    <3>1. UNCHANGED Chosen
      BY <1>1, <2>3 DEF Activate, commandVars, Chosen
    <3>2. CASE given
      BY <1>1, <3>1, <3>2, <2>1, <1>u DEF Activate, Model!ModelNext, Model!Approve
    <3>3. CASE ~given
      BY <1>1, <3>1, <3>3, <2>1, <1>u DEF Activate
    <3> QED BY <3>2, <3>3
  <2> QED BY <2>2, <2>3
<1>2. CASE Stage
  <2>1. sTarget \in Candidates /\ library' = [library EXCEPT ![sTarget] = "whole"]
    BY <1>2, <1>t DEF Stage, CopyTree
  <2>2. whole' = whole \cup {sTarget}
    BY <2>1, <1>t
  <2>3. UNCHANGED <<current, Chosen, approved>>
    BY <1>2 DEF Stage, Goto, Chosen, linkVars, storeHistory
  <2> QED BY <2>1, <2>2, <2>3 DEF Model!ModelNext, Model!Install
<1>3. ASSUME Switch \/ Restore PROVE Model!ModelNext
  <2>1. spc \in LinkPcs /\ current' = sTarget /\ UNCHANGED <<library, approved>>
    BY <1>3 DEF Switch, Restore, LinkPcs, fileVars, storeHistory
  <2>2. Chosen # NoCandidate /\ current' = Chosen
    BY <2>1, <1>t DEF LinkPcs
  <2>3. Chosen' = NoCandidate
    BY <1>3 DEF Switch, Restore, Goto, Chosen
  <2> QED BY <2>1, <2>2, <2>3, <1>u DEF Model!ModelNext, Model!Select
<1>4. CASE Rollback
  <2>1. previous \in whole /\ Chosen' = previous /\ UNCHANGED <<current, library, approved>>
    BY <1>4 DEF Rollback, Admissible, Valid, Chosen, fileVars, linkVars
  <2>2. previous \in approved
    BY <2>1, <1>t DEF StoreInv, LinksApproved
  <2> QED BY <2>1, <2>2, <1>u DEF Model!ModelNext, Model!Choose
<1>5. ASSUME NEW c \in Candidates, Damage(c) PROVE Model!ModelNext \/ Stutter
  <2>1. UNCHANGED <<current, Chosen, approved>>
    BY <1>5 DEF Damage, linkVars, commandVars, storeHistory, Chosen
  <2>2. CASE library' = [library EXCEPT ![c] = "damaged"]
    <3>1. whole' = whole \ {c}
      BY <2>2, <1>t
    <3> QED BY <3>1, <2>1 DEF Model!ModelNext, Model!Lose
  <2>3. CASE UNCHANGED library
    BY <2>1, <2>3
  <2> QED BY <1>5, <2>2, <2>3 DEF Damage
<1>6. CASE Stop
  BY <1>6, <1>u DEF Stop, Finish, Chosen, fileVars, linkVars, Model!ModelNext, Model!Abandon
<1>7. CASE KeepPrevious
  BY <1>7, <1>u DEF KeepPrevious, Goto, Chosen, fileVars, storeHistory
<1>8. CASE \/ RecordReceived \/ RecordStaged \/ RecordSuperseded \/ RecordActivated \/ Retain \/ RecordRolledBack
           \/ \E c \in Candidates : Receive(c) \/ Validate(c)
  <2>1. UNCHANGED <<current, library, approved>>
    BY <1>8 DEF RecordReceived, RecordStaged, RecordSuperseded, RecordActivated, Retain, RecordRolledBack, Receive,
       Validate, fileVars, linkVars, storeHistory
  <2>2. Chosen = NoCandidate /\ Chosen' = NoCandidate
    BY <1>8 DEF RecordReceived, RecordStaged, RecordSuperseded, RecordActivated, Retain, RecordRolledBack, Receive,
       Validate, Goto, Finish, commandVars, Chosen
  <2> QED BY <2>1, <2>2, <1>u
<1>9. CASE UNCHANGED storeVars
  BY <1>9, <1>u DEF storeVars, fileVars, linkVars, commandVars, storeHistory, Chosen
<1> QED BY StoreCases, <1>1, <1>2, <1>3, <1>4, <1>5, <1>6, <1>7, <1>8, <1>9

\* The store implements ActiveModel: whatever runs, fails or dies, the current
\* model changes in one step, to one chosen when its copy in the library was whole
\* and that the operator approved.
THEOREM StoreImplementsModel == StoreSpec => SelectsApprovedModel
<1>1. StoreInit => Model!ModelInit
  BY DEF StoreInit, Chosen, Model!ModelInit
<1>2. StoreInv /\ [StoreNext]_storeVars =>
        [Model!ModelNext]_<<current, Chosen, {c \in Candidates : library[c] = "whole"}, approved>>
  BY StoreStepRefines
<1> QED BY <1>1, <1>2, StoreInvariant, PTL DEF StoreSpec, SelectsApprovedModel, Model!ModelSpec
================================================================================
