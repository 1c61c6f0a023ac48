------------------------ MODULE OverlayRecoveryProofs ------------------------
(***************************************************************************)
(* What OverlayTargetRecovery promises, for any files, any change and any  *)
(* number of failures and foreign writes: the journal names every target   *)
(* before it is altered, claims no end that did not come, the originals    *)
(* are kept while they may be needed, and the whole keeps the promise of   *)
(* RecoverableChange.  Its rollback spares what foreign programs wrote     *)
(* before its last look, and gives up only when one of its own steps fails *)
(* or a foreign program interferes.  And for the changes that mount an     *)
(* archive for the first time: a mount list that names it finds it whole.  *)
(*                                                                         *)
(* A target in nobody's foreign hands holds what the steps so far leave    *)
(* there (FollowsPlan); whatever a step is about to leave is among the     *)
(* contents the journal on disk already lists (EvidenceInPlace); and what  *)
(* rollback has still to do covers every target that is not as it was      *)
(* (UndoCovers).  Plans that mount for the first time are of one shape     *)
(* (Mounts): the mount list is their last write, and rollback restores it  *)
(* before it unlinks the archive, which it never holds to be an original.  *)
(***************************************************************************)
EXTENDS OverlayPlans, TLAPS

Forward == {"check", "prepare", "recheck", "announce", "operate", "verify", "record",
            "commit", "committed"}
Undoing == {"survey", "resurvey", "restore", "remove", "unlink", "gone", "settle"}

\* current[p] is what the first n steps leave at p.
Reflects(p, n) ==
    \/ /\ \A i \in 1 .. n : p \notin DOMAIN plan.steps[i].after
       /\ current[p] = plan.before[p]
    \/ \E i \in 1 .. n :
           LastTouch(plan.steps, n, p, i) /\ current[p] = plan.steps[i].after[p]

StepsDone == IF pc \in {"record", "commit", "committed"} THEN at ELSE at - 1

InPlace(p) ==
    disk[p] = IF pc = "verify" /\ p \in Targets THEN Step.after[p] ELSE current[p]

FollowsPlan ==
    pc \in Forward =>
        /\ \A p \in Tracked : Reflects(p, StepsDone)
        /\ \A p \in Ours : InPlace(p)
        /\ pc \in {"commit", "committed"} => at = Len(plan.steps)

EvidenceInPlace ==
    /\ journal # None => \A p \in Tracked : journal.afters[p] \subseteq afters[p]
    /\ journal # None /\ pc \notin {"done", "undone"} => copies = Originals
    /\ \A p \in Tracked : afters[p] # {} => p \in Attempted
    /\ pc \in (Forward \ {"check", "prepare"}) \cup Undoing \cup {"demand"} => journal # None
    /\ Attempted # {} /\ pc \in {"check", "rollback"} => journal # None
    /\ pc = "prepare" => journal = None /\ Attempted = {}
    /\ pc \in {"announce", "operate"} =>
        /\ Targets \subseteq Attempted
        /\ \A p \in Targets : Step.after[p] \in afters[p]
    /\ pc = "operate" => journal.status = "applying" /\ journal.afters = afters
    /\ pc = "committed" => journal.status = "committed"
    /\ pc \in Undoing => journal.status = "recovering"

UndoCovers ==
    /\ pc \in {"resurvey", "restore"} => Disturbed \subseteq DOMAIN changed
    /\ pc \in {"remove", "unlink", "gone"} =>
        Disturbed \subseteq left /\ left \cap Originals = {}
    /\ pc \in {"unlink", "gone"} => removing \in left
    /\ pc \in {"settle", "restored", "undone"} => Disturbed = {}
    /\ pc = "done" => \A p \in Ours : disk[p] = After(p)

Promises == AttemptsJournalled /\ JournalTruthful /\ OriginalsKept

IInv == FollowsPlan /\ EvidenceInPlace /\ UndoCovers /\ Promises
-----------------------------------------------------------------------------
(* The plan, of which the assumptions speak. *)

LEMMA PlanFacts ==
    ASSUME TypeOK
    PROVE  /\ plan.before \in [Tracked -> Payloads]
           /\ Len(plan.steps) \in Nat \ {0}
           /\ at \in DOMAIN plan.steps
           /\ Targets \subseteq Tracked
           /\ Step.after \in [Targets -> Payloads]
           /\ Originals \subseteq Tracked
           /\ Step.from # None => Step.from \in Targets
BY PlansAssumption, RenamesAssumption DEF TypeOK, Gives, Tracked, Targets, Step, Originals

LEMMA InitTyped == Init => TypeOK
  <1> SUFFICES ASSUME Init PROVE TypeOK
    OBVIOUS
  <1>1. plan.before \in [Tracked -> Payloads] /\ Len(plan.steps) \in Nat \ {0}
    BY PlansAssumption DEF Init, Gives, Tracked
  <1> QED BY <1>1, BoundsAssumption, PlansAssumption
       DEF Init, TypeOK, Attempts, Nothing, Attempted, Final, Originals

LEMMA TypeStep == TypeOK /\ [Next]_vars => TypeOK'
  <1> SUFFICES ASSUME TypeOK, [Next]_vars PROVE TypeOK'
    OBVIOUS
  <1> USE PlanFacts, BoundsAssumption
  <1> USE DEF TypeOK, Proceeds, Looked, Attempts, Attempted, Originals, Tracked, Final, Status, Records,
              files, recovery, undo, foreign
  <1>1. CASE Cancel
    BY <1>1 DEF Cancel
  <1>2. CASE CheckTargets
    BY <1>2 DEF CheckTargets
  <1>3. CASE Prepare
    BY <1>3 DEF Prepare, Save, Fails
  <1>4. CASE PrepareFails
    BY <1>4 DEF PrepareFails, Fails
  <1>5. CASE Recheck
    BY <1>5 DEF Recheck
  <1>6. CASE RecheckFails
    BY <1>6 DEF RecheckFails
  <1>7. CASE Announce
    BY <1>7 DEF Announce, Save, Fails
  <1>8. CASE Operate
    BY <1>8 DEF Operate, Effect, Fails, Targets, Step
  <1>9. CASE Verify
    BY <1>9 DEF Verify, Targets, Step
  <1>10. CASE Record
    BY <1>10 DEF Record, Save, Fails
  <1>11. CASE Commit
    BY <1>11 DEF Commit, Save, Fails
  <1>12. CASE Tidy
    BY <1>12 DEF Tidy, Fails
  <1>13. CASE Rollback
    BY <1>13 DEF Rollback, Save, Fails
  <1>14. CASE Survey
    BY <1>14 DEF Survey, Fails, Found, OwnedChanges
  <1>15. CASE Resurvey
    BY <1>15 DEF Resurvey, Existing
  <1>16. CASE Restore
    BY <1>16 DEF Restore, Fails
  <1>17. CASE RestoreRefused
    BY <1>17 DEF RestoreRefused
  <1>18. CASE VerifyRestored
    BY <1>18 DEF VerifyRestored, Existing, Created
  <1>19. CASE CheckCreated
    BY <1>19 DEF CheckCreated, Latest
  <1>20. CASE Unlink
    BY <1>20 DEF Unlink, Fails, Payloads
  <1>21. CASE Gone
    BY <1>21 DEF Gone
  <1>22. CASE Settle
    BY <1>22 DEF Settle, Save, Fails
  <1>23. CASE Demand
    BY <1>23 DEF Demand, Save, Fails
  <1>24. CASE Crash
    BY <1>24 DEF Crash
  <1>25. ASSUME NEW p \in Tracked, Meddle(p) PROVE TypeOK'
    BY <1>25 DEF Meddle, Payloads
  <1>26. CASE UNCHANGED vars
    BY <1>26 DEF vars
  <1> QED BY <1>1, <1>2, <1>3, <1>4, <1>5, <1>6, <1>7, <1>8, <1>9, <1>10, <1>11, <1>12, <1>13, <1>14, <1>15, <1>16, <1>17, <1>18, <1>19, <1>20, <1>21, <1>22, <1>23, <1>24, <1>25, <1>26 DEF Next, Program

(* Every variable of OverlayRecovery keeps its type: among others, the journal  *)
(* only ever holds a record that _save() can write of this very change.       *)
THEOREM TypeCorrect == Spec => []TypeOK
  BY InitTyped, TypeStep, PTL DEF Spec
-----------------------------------------------------------------------------
LEMMA InitInv == Init => IInv
  <1> SUFFICES ASSUME Init PROVE IInv
    OBVIOUS
  <1>0. TypeOK
    BY InitTyped
  <1>1. FollowsPlan
    BY <1>0, PlanFacts
       DEF Init, FollowsPlan, Forward, Reflects, StepsDone, InPlace, Ours, Tracked
  <1>2. EvidenceInPlace
    BY DEF Init, EvidenceInPlace, Forward, Undoing, Attempted, Nothing
  <1>3. UndoCovers
    BY DEF Init, UndoCovers
  <1>4. Promises
    BY DEF Init, Promises, AttemptsJournalled, JournalTruthful, OriginalsKept, Disturbed, Ours
  <1> QED BY <1>1, <1>2, <1>3, <1>4 DEF IInv

(* A rename carries what its source was planned to hold, or takes its targets *)
(* into foreign hands.                                                        *)
LEMMA EffectFits ==
    ASSUME TypeOK, FollowsPlan, Operate, disk' = Effect, Possible,
           NEW p \in Targets, p \notin meddled'
    PROVE  disk'[p] = Step.after[p]
  <1> DEFINE source == Step.from
  <1>1. disk' \in [Tracked -> Payloads \cup Foreign] /\ p \in Tracked
        /\ disk'[p] = IF source # None /\ Step.after[p] # Missing
                      THEN disk[source] ELSE Step.after[p]
    BY PlanFacts DEF Effect, TypeOK
  <1>2. SUFFICES ASSUME source # None, Step.after[p] # Missing
                 PROVE  disk[source] = Step.after[p]
    BY <1>1
  <1>3. /\ source \in Targets /\ Step.after[source] = Missing
        /\ Step.after[p] = plan.before[source]
        /\ \A j \in 1 .. at - 1 : source \notin DOMAIN plan.steps[j].after
    BY <1>2, RenamesAssumption, PlanFacts DEF TypeOK, Step, Targets
  <1>4. source \notin meddled
    <2>1. disk'[source] # disk[source]
      BY <1>2, <1>3, PlanFacts DEF Effect, Possible
    <2> QED BY <2>1 DEF Operate
  <1>5. disk[source] = current[source]
    BY <1>3, <1>4, PlanFacts DEF FollowsPlan, Forward, Operate, Ours, InPlace
  <1>6. current[source] = plan.before[source]
    <2>1. Reflects(source, at - 1)
      BY <1>3, PlanFacts DEF FollowsPlan, Forward, Operate, StepsDone
    <2> QED BY <2>1, <1>3 DEF Reflects, LastTouch
  <1> QED BY <1>3, <1>5, <1>6

LEMMA FollowsStep ==
    ASSUME TypeOK, TypeOK', IInv, [Next]_vars
    PROVE  FollowsPlan'
  <1> USE PlanFacts
  <1> USE DEF Proceeds, Looked, files, recovery, undo, foreign, Tracked, Ours
  <1>0. FollowsPlan
    BY DEF IInv
  <1>1. CASE pc' \notin Forward
    BY <1>1 DEF FollowsPlan
  <1>2. ASSUME UNCHANGED <<plan, current, at, disk, meddled>>, pc \in Forward \ {"verify"},
               pc' \in Forward \ {"verify"},
               pc \in {"record", "commit", "committed"} <=> pc' \in {"record", "commit", "committed"},
               pc' \in {"commit", "committed"} => at = Len(plan.steps)
        PROVE  FollowsPlan'
    BY <1>0, <1>2 DEF FollowsPlan, Reflects, StepsDone, InPlace
  <1>3. CASE CheckTargets
    BY <1>1, <1>2, <1>3 DEF CheckTargets, Forward
  <1>4. CASE Prepare
    BY <1>1, <1>2, <1>4 DEF Prepare, Save, Fails, Forward
  <1>5. CASE Recheck
    BY <1>1, <1>2, <1>5 DEF Recheck, Forward
  <1>6. CASE Announce
    BY <1>1, <1>2, <1>6 DEF Announce, Save, Fails, Forward
  <1>7. CASE Operate
    <2> SUFFICES ASSUME disk' = Effect, Possible, pc' = "verify"
                 PROVE  FollowsPlan'
      BY <1>1, <1>7 DEF Operate, Fails, Forward
    <2>1. pc = "operate" /\ UNCHANGED <<plan, current, at>> /\ meddled \subseteq meddled'
      BY <1>7 DEF Operate
    <2>2. \A p \in Tracked : Reflects(p, StepsDone)'
      BY <1>0, <2>1 DEF FollowsPlan, Forward, Reflects, StepsDone
    <2>3. ASSUME NEW p \in Ours' PROVE InPlace(p)'
      <3>1. CASE p \in Targets
        BY <1>0, <1>7, <2>1, <3>1, EffectFits DEF InPlace, Targets, Step
      <3>2. CASE p \notin Targets
        BY <1>0, <2>1, <2>3, <3>2 DEF InPlace, Targets, Step, Effect, FollowsPlan, Forward
      <3> QED BY <3>1, <3>2
    <2> QED BY <2>1, <2>2, <2>3 DEF FollowsPlan
  <1>8. CASE Verify
    <2> SUFFICES ASSUME \A p \in Targets : disk[p] = Step.after[p], pc' = "record",
                        current' = [p \in Tracked |-> IF p \in Targets THEN Step.after[p]
                                                                      ELSE current[p]]
                 PROVE  FollowsPlan'
      BY <1>1, <1>8 DEF Verify, Forward
    <2>1. pc = "verify" /\ UNCHANGED <<plan, at, disk, meddled>>
      BY <1>8 DEF Verify
    <2>2. ASSUME NEW p \in Tracked PROVE Reflects(p, at)'
      <3>1. CASE p \in Targets
        <4>1. at \in 1 .. at /\ LastTouch(plan.steps, at, p, at)
          BY <3>1 DEF LastTouch, Targets, Step, TypeOK
        <4> QED BY <2>1, <3>1, <4>1 DEF Reflects, Step
      <3>2. CASE p \notin Targets
        <4>1. Reflects(p, at - 1)
          BY <1>0, <2>1 DEF FollowsPlan, Forward, StepsDone
        <4>2. \A i \in 1 .. at : i \in 1 .. at - 1 \/ i = at
          BY DEF TypeOK
        <4> QED BY <2>1, <3>2, <4>1, <4>2 DEF Reflects, LastTouch, Targets, Step, TypeOK
      <3> QED BY <3>1, <3>2
    <2>3. ASSUME NEW p \in Ours' PROVE InPlace(p)'
      BY <1>0, <2>1, <2>3 DEF FollowsPlan, Forward, InPlace
    <2> QED BY <2>1, <2>2, <2>3 DEF FollowsPlan, StepsDone
  <1>9. CASE Record
    <2> SUFFICES ASSUME pc' \in {"check", "commit"} PROVE FollowsPlan'
      BY <1>1, <1>9 DEF Record, Save, Fails, Forward
    <2>1. /\ pc = "record" /\ UNCHANGED <<plan, current, disk, meddled>>
          /\ pc' = "check" => at' = at + 1
          /\ pc' = "commit" => at' = at /\ at = Len(plan.steps)
      BY <1>9 DEF Record, Save, Fails
    <2>2. StepsDone' = StepsDone
      <3>1. at \in Nat
        BY DEF TypeOK
      <3> QED BY <2>1, <3>1 DEF StepsDone
    <2>3. \A p \in Tracked : Reflects(p, StepsDone)'
      BY <1>0, <2>1, <2>2 DEF FollowsPlan, Forward, Reflects
    <2>4. ASSUME NEW p \in Ours' PROVE InPlace(p)'
      BY <1>0, <2>1 DEF FollowsPlan, Forward, InPlace
    <2> QED BY <2>1, <2>3, <2>4 DEF FollowsPlan
  <1>10. CASE Commit
    BY <1>0, <1>1, <1>2, <1>10 DEF Commit, Save, Fails, Forward, FollowsPlan
  <1>11. ASSUME NEW q \in Tracked, Meddle(q) PROVE FollowsPlan'
    <2>1. /\ UNCHANGED <<plan, current, at, pc>> /\ meddled' = meddled \cup {q}
          /\ \A p \in Tracked \ {q} : disk'[p] = disk[p]
      BY <1>11 DEF Meddle, TypeOK
    <2> QED BY <1>0, <2>1 DEF FollowsPlan, Reflects, StepsDone, InPlace, Targets, Step
  <1>12. CASE UNCHANGED vars
    BY <1>0, <1>12 DEF vars, FollowsPlan, Reflects, StepsDone, InPlace, Targets, Step
  <1>13. CASE pc' \in Forward /\ (Program \/ Crash)
    <2>1. CheckTargets \/ Prepare \/ Recheck \/ Announce \/ Operate \/ Verify \/ Record \/ Commit
      BY <1>13 DEF Program, Cancel, PrepareFails, RecheckFails, Tidy, Rollback, Survey, Resurvey,
           Restore, RestoreRefused, VerifyRestored, CheckCreated, Unlink, Gone, Settle, Demand,
           Crash, Save, Fails, Forward
    <2> QED BY <2>1, <1>3, <1>4, <1>5, <1>6, <1>7, <1>8, <1>9, <1>10
  <1> QED BY <1>1, <1>11, <1>12, <1>13 DEF Next

-----------------------------------------------------------------------------
LEMMA ReflectsIsAfter ==
    ASSUME TypeOK, NEW p \in Tracked, Reflects(p, Len(plan.steps))
    PROVE  current[p] = After(p)
  <1> DEFINE n == Len(plan.steps)
  <1>1. CASE \A i \in 1 .. n : p \notin DOMAIN plan.steps[i].after
    BY <1>1 DEF Reflects, LastTouch, After, AfterSteps
  <1>2. CASE \E i \in 1 .. n : p \in DOMAIN plan.steps[i].after
    <2>1. PICK i \in 1 .. n :
              LastTouch(plan.steps, n, p, i) /\ current[p] = plan.steps[i].after[p]
      BY <1>2 DEF Reflects
    <2>2. ASSUME NEW k \in 1 .. n, LastTouch(plan.steps, n, p, k) PROVE k = i
      <3>1. k <= i /\ i <= k
        BY <2>1, <2>2 DEF LastTouch
      <3> QED BY <3>1
    <2>3. i = CHOOSE k \in 1 .. n : LastTouch(plan.steps, n, p, k)
      BY <2>1, <2>2
    <2> QED BY <1>2, <2>1, <2>3 DEF After, AfterSteps
  <1> QED BY <1>1, <1>2

LEMMA Saved ==
    ASSUME TypeOK, NEW status \in Status
    PROVE  [status |-> status, afters |-> afters] # None
  <1>1. [status |-> status, afters |-> afters] \in Records(plan)
    BY DEF TypeOK, Records, Attempts, Tracked
  <1> QED BY <1>1, NoneAssumption DEF TypeOK

LEMMA EvidenceStep ==
    ASSUME TypeOK, TypeOK', IInv, [Next]_vars
    PROVE  EvidenceInPlace'
  <1>0. EvidenceInPlace
    BY DEF IInv
  <1>a. \A status \in Status : [status |-> status, afters |-> afters] # None
    BY Saved
  <1>b. \A p \in Targets : Step.after[p] \in Payloads /\ p \in Tracked
    BY PlanFacts
  <1> USE DEF EvidenceInPlace, Proceeds, Looked, files, recovery, undo, foreign, Tracked,
              Originals, Attempted, Forward, Undoing, Targets, Step
  <1>1. CASE Cancel
    BY <1>0, <1>1 DEF Cancel
  <1>2. CASE CheckTargets
    BY <1>0, <1>2 DEF CheckTargets
  <1>3. CASE Prepare
    BY <1>0, <1>a, <1>3 DEF Prepare, Save, Fails, Status
  <1>4. CASE PrepareFails
    BY <1>0, <1>4 DEF PrepareFails, Fails
  <1>5. CASE Recheck
    BY <1>0, <1>b, <1>5 DEF Recheck, TypeOK, Attempts
  <1>6. CASE RecheckFails
    BY <1>0, <1>6 DEF RecheckFails
  <1>7. CASE Announce
    BY <1>0, <1>a, <1>7 DEF Announce, Save, Fails, Status
  <1>8. CASE Operate
    BY <1>0, <1>8 DEF Operate, Fails
  <1>9. CASE Verify
    BY <1>0, <1>9 DEF Verify
  <1>10. CASE Record
    BY <1>0, <1>a, <1>10 DEF Record, Save, Fails, Status
  <1>11. CASE Commit
    BY <1>0, <1>a, <1>11 DEF Commit, Save, Fails, Status
  <1>12. CASE Tidy
    BY <1>0, <1>12 DEF Tidy, Fails
  <1>13. CASE Rollback
    <2>1. pc = "rollback" /\ UNCHANGED <<plan, copies, rows, afters, at>>
      BY <1>13 DEF Rollback
    <2>2. CASE Attempted = {}
      BY <1>0, <1>13, <2>1, <2>2 DEF Rollback
    <2>3. CASE Attempted # {}
      <3>1. journal # None
        BY <1>0, <2>1, <2>3
      <3>2. /\ journal' \in {journal, [status |-> "recovering", afters |-> afters]}
            /\ pc' \in {"survey", "demand"}
            /\ pc' = "survey" => journal' = [status |-> "recovering", afters |-> afters]
        BY <1>13, <2>3 DEF Rollback, Save, Fails
      <3>3. "recovering" \in Status
        BY DEF Status
      <3> QED BY <1>0, <1>a, <2>1, <3>1, <3>2, <3>3
    <2> QED BY <2>2, <2>3
  <1>14. CASE Survey
    BY <1>0, <1>14 DEF Survey, Fails
  <1>15. CASE Resurvey
    BY <1>0, <1>15 DEF Resurvey
  <1>16. CASE Restore
    BY <1>0, <1>16 DEF Restore, Fails
  <1>17. CASE RestoreRefused
    BY <1>0, <1>17 DEF RestoreRefused
  <1>18. CASE VerifyRestored
    BY <1>0, <1>18 DEF VerifyRestored
  <1>19. CASE CheckCreated
    BY <1>0, <1>19 DEF CheckCreated
  <1>20. CASE Unlink
    BY <1>0, <1>20 DEF Unlink, Fails
  <1>21. CASE Gone
    BY <1>0, <1>21 DEF Gone
  <1>22. CASE Settle
    BY <1>0, <1>a, <1>22 DEF Settle, Save, Fails, Status
  <1>23. CASE Demand
    BY <1>0, <1>a, <1>23 DEF Demand, Save, Fails, Status
  <1>24. CASE Crash
    BY <1>0, <1>24 DEF Crash, Final
  <1>25. ASSUME NEW p \in Tracked, Meddle(p) PROVE EvidenceInPlace'
    BY <1>0, <1>25 DEF Meddle
  <1>26. CASE UNCHANGED vars
    BY <1>0, <1>26 DEF vars
  <1> QED BY <1>1, <1>2, <1>3, <1>4, <1>5, <1>6, <1>7, <1>8, <1>9, <1>10, <1>11, <1>12, <1>13, <1>14, <1>15, <1>16, <1>17, <1>18, <1>19, <1>20, <1>21, <1>22, <1>23, <1>24, <1>25, <1>26 DEF Next, Program

-----------------------------------------------------------------------------
(* Whatever is not as it was is a target of an attempt. *)
LEMMA DisturbedIsAttempted ==
    ASSUME TypeOK, EvidenceInPlace, AttemptsJournalled, pc # "done"
    PROVE  Disturbed \subseteq Attempted
  <1> SUFFICES ASSUME NEW p \in Disturbed PROVE p \in Attempted
    OBVIOUS
  <1>1. p \in Tracked /\ journal # None /\ disk[p] \in journal.afters[p]
    BY DEF AttemptsJournalled, Disturbed, Ours
  <1>2. disk[p] \in afters[p]
    BY <1>1 DEF EvidenceInPlace
  <1> QED BY <1>1, <1>2 DEF EvidenceInPlace

LEMMA SameDisturbed ==
    ASSUME UNCHANGED <<plan, disk, meddled>>
    PROVE  /\ Disturbed' = Disturbed /\ Ours' = Ours /\ Originals' = Originals
           /\ \A p : After(p)' = After(p)
  BY DEF Disturbed, Ours, Tracked, Originals, After, AfterSteps

LEMMA UndoStep ==
    ASSUME TypeOK, TypeOK', IInv, [Next]_vars
    PROVE  UndoCovers'
  <1>0. UndoCovers /\ EvidenceInPlace /\ AttemptsJournalled /\ JournalTruthful
    BY DEF IInv, Promises
  <1> USE DEF Proceeds, Looked, files, recovery, undo, foreign
  <1>1. CASE pc' \notin {"resurvey", "restore", "remove", "unlink", "gone", "settle",
                       "restored", "undone", "done"}
    BY <1>1 DEF UndoCovers
  <1>2. CASE Cancel \/ CheckTargets \/ Prepare \/ PrepareFails \/ Recheck \/ RecheckFails
             \/ Announce \/ Operate \/ Verify \/ Record \/ Commit \/ RestoreRefused
             \/ Demand \/ Crash
    BY <1>1, <1>2 DEF Cancel, CheckTargets, Prepare, PrepareFails, Recheck, RecheckFails,
       Announce, Operate, Verify, Record, Commit, RestoreRefused, Demand, Crash, Save, Fails
  <1>3. CASE Tidy
    <2>1. UNCHANGED <<plan, disk, meddled>>
      BY <1>3 DEF Tidy
    <2>2. CASE pc = "committed"
      BY <1>0, <1>3, <2>1, <2>2, SameDisturbed
         DEF Tidy, Fails, UndoCovers, EvidenceInPlace, Forward, JournalTruthful
    <2>3. CASE pc = "restored"
      BY <1>0, <1>3, <2>1, <2>3, SameDisturbed DEF Tidy, Fails, UndoCovers
    <2> QED BY <1>3, <2>2, <2>3 DEF Tidy
  <1>4. CASE Rollback
    <2>1. UNCHANGED <<plan, disk, meddled>> /\ pc = "rollback"
      BY <1>4 DEF Rollback
    <2>2. CASE Attempted = {}
      BY <1>0, <1>4, <2>1, <2>2, SameDisturbed, DisturbedIsAttempted DEF Rollback, UndoCovers
    <2>3. CASE Attempted # {}
      BY <1>1, <1>4, <2>3 DEF Rollback, Save, Fails
    <2> QED BY <2>2, <2>3
  <1>5. CASE Survey
    <2>1. UNCHANGED <<plan, disk, meddled>> /\ pc = "survey"
      BY <1>5 DEF Survey
    <2>2. CASE changed' = Found /\ pc' = "resurvey"
      <3>1. Disturbed \subseteq OwnedChanges
        BY <1>0, <2>1, DisturbedIsAttempted DEF OwnedChanges, Disturbed
      <3> QED BY <2>1, <2>2, <3>1, SameDisturbed DEF UndoCovers, Found
    <2> QED BY <1>1, <1>5, <2>2 DEF Survey, Fails
  <1>6. CASE Resurvey
    BY <1>0, <1>1, <1>6, SameDisturbed DEF Resurvey, UndoCovers
  <1>7. CASE Restore
    <2>1. CASE pc' = "restore"
      <3>1. PICK p \in left : disk' = [disk EXCEPT ![p] = plan.before[p]]
        BY <1>7, <2>1 DEF Restore, Fails
      <3>2. Disturbed' \subseteq Disturbed
        BY <1>7, <3>1 DEF Restore, Disturbed, Ours, Tracked, TypeOK
      <3> QED BY <1>0, <1>7, <2>1, <3>2 DEF Restore, UndoCovers
    <2> QED BY <1>1, <1>7, <2>1 DEF Restore, Fails
  <1>8. CASE VerifyRestored
    <2>1. UNCHANGED <<plan, disk, meddled>> /\ pc = "restore"
      BY <1>8 DEF VerifyRestored
    <2>2. CASE (\A p \in Existing : disk[p] = plan.before[p])
      <3>1. Disturbed \subseteq Created
        BY <1>0, <2>1, <2>2 DEF UndoCovers, Existing, Created, Disturbed
      <3> QED BY <1>8, <2>1, <2>2, <3>1, SameDisturbed DEF VerifyRestored, UndoCovers, Created
    <2> QED BY <1>1, <1>8, <2>2 DEF VerifyRestored
  <1>9. CASE CheckCreated
    BY <1>0, <1>1, <1>9, SameDisturbed DEF CheckCreated, UndoCovers, Latest
  <1>10. CASE Unlink
    <2>1. CASE pc' = "gone"
      <3>1. pc = "unlink" /\ disk' = [disk EXCEPT ![removing] = Missing]
            /\ UNCHANGED <<plan, meddled, left, removing>>
        BY <1>10, <2>1 DEF Unlink, Fails
      <3>2. removing \in left /\ removing \notin Originals /\ left \subseteq Tracked
        BY <1>0, <3>1 DEF UndoCovers, TypeOK
      <3>3. Disturbed' \subseteq Disturbed /\ Originals' = Originals
        BY <3>1, <3>2 DEF Disturbed, Ours, Originals, Tracked, TypeOK
      <3> QED BY <1>0, <2>1, <3>1, <3>2, <3>3 DEF UndoCovers
    <2> QED BY <1>1, <1>10, <2>1 DEF Unlink, Fails
  <1>11. CASE Gone
    <2>1. UNCHANGED <<plan, disk, meddled>> /\ pc = "gone"
      BY <1>11 DEF Gone
    <2>2. CASE disk[removing] = Missing
      <3>1. removing \notin Disturbed
        BY <1>0, <2>1, <2>2 DEF UndoCovers, Disturbed, Ours, Originals
      <3> QED BY <1>0, <1>11, <2>1, <2>2, <3>1, SameDisturbed DEF Gone, UndoCovers
    <2> QED BY <1>1, <1>11, <2>2 DEF Gone
  <1>12. CASE Settle
    BY <1>0, <1>1, <1>12, SameDisturbed DEF Settle, Save, Fails, UndoCovers
  <1>13. ASSUME NEW q \in Tracked, Meddle(q) PROVE UndoCovers'
    <2>1. /\ UNCHANGED <<plan, pc, left, changed, removing>> /\ meddled' = meddled \cup {q}
          /\ \A p \in Tracked \ {q} : disk'[p] = disk[p]
          /\ pc \notin Final
      BY <1>13 DEF Meddle, TypeOK
    <2>2. Disturbed' \subseteq Disturbed /\ Originals' = Originals
      BY <2>1 DEF Disturbed, Ours, Originals, Tracked
    <2> QED BY <1>0, <2>1, <2>2 DEF UndoCovers, Final
  <1>14. CASE UNCHANGED vars
    BY <1>0, <1>14, SameDisturbed DEF vars, UndoCovers
  <1> QED BY <1>2, <1>3, <1>4, <1>5, <1>6, <1>7, <1>8, <1>9, <1>10, <1>11, <1>12, <1>13,
             <1>14 DEF Next, Program

-----------------------------------------------------------------------------
(* A save of what is known, with a status that fits, breaks no promise. *)
LEMMA SaveKeepsPromises ==
    ASSUME TypeOK, EvidenceInPlace, Promises, pc # "done", NEW status \in Status,
           UNCHANGED <<plan, disk, meddled>>,
           journal' \in {journal, [status |-> status, afters |-> afters]},
           copies' = copies \/ copies' = Originals,
           status = "committed" => \A p \in Ours : disk[p] = After(p),
           status \in {"prepared", "rolled_back"} => Disturbed = {}
    PROVE  Promises'
  <1> DEFINE saved == [status |-> status, afters |-> afters]
  <1>1. \A p \in Disturbed : disk[p] \in afters[p]
    BY DEF Promises, AttemptsJournalled, EvidenceInPlace, Disturbed, Ours
  <1>2. CASE journal' = journal
    BY <1>2, SameDisturbed
       DEF Promises, AttemptsJournalled, JournalTruthful, OriginalsKept, Disturbed
  <1>3. CASE journal' = saved
    <2>1. AttemptsJournalled'
      BY <1>1, <1>3, Saved, SameDisturbed DEF AttemptsJournalled
    <2>2. JournalTruthful'
      BY <1>3, SameDisturbed DEF JournalTruthful
    <2>3. OriginalsKept'
      BY SameDisturbed DEF OriginalsKept, Promises
    <2> QED BY <2>1, <2>2, <2>3 DEF Promises
  <1> QED BY <1>2, <1>3

LEMMA PromisesStep ==
    ASSUME TypeOK, TypeOK', IInv, [Next]_vars
    PROVE  Promises'
  <1>0. FollowsPlan /\ EvidenceInPlace /\ UndoCovers /\ Promises
    BY DEF IInv
  <1> USE DEF Proceeds, Looked, files, recovery, undo, foreign, Status
  <1>1. ASSUME UNCHANGED <<plan, disk, meddled, journal, copies>>, pc # "done"
        PROVE  Promises'
    BY <1>0, <1>1, SameDisturbed
       DEF Promises, AttemptsJournalled, JournalTruthful, OriginalsKept, Disturbed
  <1>2. CASE Cancel \/ CheckTargets \/ Recheck \/ RecheckFails \/ Verify \/ Survey \/ Resurvey
             \/ RestoreRefused \/ VerifyRestored \/ CheckCreated \/ Gone \/ Crash
    BY <1>1, <1>2 DEF Cancel, CheckTargets, Recheck, RecheckFails, Verify, Survey, Resurvey,
       RestoreRefused, VerifyRestored, CheckCreated, Gone, Crash, Final
  <1>3. CASE Prepare
    <2>1. journal = None /\ pc = "prepare"
      BY <1>0, <1>3 DEF Prepare, EvidenceInPlace
    <2>2. Disturbed = {}
      BY <1>0, <2>1 DEF Promises, AttemptsJournalled
    <2> QED BY <1>0, <1>3, <2>1, <2>2, SaveKeepsPromises DEF Prepare, Save, Fails
  <1>4. CASE PrepareFails
    <2>1. journal = None /\ pc = "prepare" /\ UNCHANGED <<plan, disk, meddled, journal>>
      BY <1>0, <1>4 DEF PrepareFails, EvidenceInPlace
    <2>2. Disturbed = {}
      BY <1>0, <2>1 DEF Promises, AttemptsJournalled
    <2> QED BY <2>1, <2>2, SameDisturbed
            DEF Promises, AttemptsJournalled, JournalTruthful, OriginalsKept
  <1>5. CASE Announce \/ Record
    BY <1>0, <1>5, SaveKeepsPromises DEF Announce, Record, Save, Fails
  <1>6. CASE Operate
    <2>1. /\ pc = "operate" /\ UNCHANGED <<plan, journal, copies, at>>
          /\ meddled \subseteq meddled' /\ pc' \in {"verify", "rollback"}
          /\ disk' = disk \/ (disk' = Effect /\ Possible)
      BY <1>6 DEF Operate, Fails
    <2>2. /\ journal # None /\ journal.status = "applying" /\ copies = Originals
          /\ \A p \in Targets : Step.after[p] \in journal.afters[p]
      BY <1>0, <2>1 DEF EvidenceInPlace, Forward
    <2>3. Ours' \subseteq Ours /\ Originals' = Originals
      BY <2>1 DEF Ours, Tracked, Originals
    <2>4. ASSUME NEW p \in Disturbed' PROVE disk'[p] \in journal.afters[p]
      <3>1. p \in Ours /\ p \notin meddled' /\ p \in Tracked /\ disk'[p] # plan.before[p]
        BY <2>1, <2>3 DEF Disturbed, Ours, Tracked
      <3>2. CASE disk'[p] = disk[p]
        BY <1>0, <2>1, <3>1, <3>2 DEF Promises, AttemptsJournalled, Disturbed
      <3>3. CASE disk'[p] # disk[p]
        <4>1. disk' = Effect /\ Possible /\ p \in Targets
          BY <2>1, <3>1, <3>3 DEF Effect
        <4> QED BY <1>0, <1>6, <2>2, <3>1, <4>1, EffectFits
      <3> QED BY <3>2, <3>3
    <2> QED BY <2>1, <2>2, <2>3, <2>4
            DEF Promises, AttemptsJournalled, JournalTruthful, OriginalsKept
  <1>7. CASE Commit
    <2>1. pc = "commit" /\ UNCHANGED <<plan, disk, meddled, copies>>
          /\ journal' \in {journal, [status |-> "committed", afters |-> afters]}
      BY <1>7 DEF Commit, Save, Fails
    <2>2. ASSUME NEW p \in Ours PROVE disk[p] = After(p)
      <3>1. p \in Tracked /\ Reflects(p, Len(plan.steps)) /\ disk[p] = current[p]
        BY <1>0, <2>1 DEF FollowsPlan, Forward, StepsDone, InPlace, Ours
      <3> QED BY <3>1, ReflectsIsAfter
    <2> QED BY <1>0, <2>1, <2>2, SaveKeepsPromises
  <1>8. CASE Tidy
    <2>1. UNCHANGED <<plan, disk, meddled>> /\ pc \in {"committed", "restored"}
      BY <1>8 DEF Tidy
    <2>2. CASE external
      BY <1>1, <1>8, <2>1, <2>2 DEF Tidy, Fails
    <2>3. CASE ~external
      <3>1. journal' \in {journal, None} /\ (pc' # "done" => pc = "restored")
        BY <1>8, <2>3 DEF Tidy, Fails
      <3>2. pc' # "done" => Disturbed = {}
        BY <1>0, <3>1 DEF UndoCovers
      <3>3. AttemptsJournalled' /\ OriginalsKept'
        BY <2>1, <3>2, SameDisturbed DEF AttemptsJournalled, OriginalsKept
      <3>4. /\ Disturbed' = Disturbed /\ Ours' = Ours /\ \A p : After(p)' = After(p)
        BY <2>1, SameDisturbed
      <3>5. JournalTruthful'
        BY <1>0, <2>1, <3>1, <3>4 DEF Promises, JournalTruthful
      <3> QED BY <3>3, <3>5 DEF Promises
    <2> QED BY <2>2, <2>3
  <1>9. CASE Rollback
    BY <1>0, <1>1, <1>9, SaveKeepsPromises DEF Rollback, Save, Fails
  <1>10. CASE Restore
    <2>1. PICK p \in left : disk' \in {disk, [disk EXCEPT ![p] = plan.before[p]]}
      BY <1>10 DEF Restore, Fails
    <2>2. /\ UNCHANGED <<plan, meddled, journal, copies>> /\ pc = "restore"
          /\ journal.status = "recovering"
      BY <1>0, <1>10 DEF Restore, EvidenceInPlace, Undoing
    <2>3. Disturbed' \subseteq Disturbed /\ Originals' = Originals
          /\ \A q \in Disturbed' : disk'[q] = disk[q]
      BY <2>1, <2>2 DEF Disturbed, Ours, Tracked, TypeOK, Originals
    <2> QED BY <1>0, <2>2, <2>3
            DEF Promises, AttemptsJournalled, JournalTruthful, OriginalsKept
  <1>11. CASE Unlink
    <2>1. /\ UNCHANGED <<plan, meddled, journal, copies>> /\ pc = "unlink"
          /\ disk' \in {disk, [disk EXCEPT ![removing] = Missing]}
      BY <1>11 DEF Unlink, Fails
    <2>2. removing \in left /\ removing \notin Originals /\ left \subseteq Tracked
          /\ journal.status = "recovering"
      BY <1>0, <2>1 DEF UndoCovers, EvidenceInPlace, Undoing, TypeOK
    <2>3. Disturbed' \subseteq Disturbed /\ Originals' = Originals
          /\ \A q \in Disturbed' : disk'[q] = disk[q]
      BY <2>1, <2>2 DEF Disturbed, Ours, Tracked, TypeOK, Originals
    <2> QED BY <1>0, <2>1, <2>2, <2>3
            DEF Promises, AttemptsJournalled, JournalTruthful, OriginalsKept
  <1>12. CASE Settle
    BY <1>0, <1>12, SaveKeepsPromises DEF Settle, Save, Fails, UndoCovers
  <1>13. CASE Demand
    BY <1>0, <1>13, SaveKeepsPromises DEF Demand, Save, Fails
  <1>14. ASSUME NEW q \in Tracked, Meddle(q) PROVE Promises'
    <2>1. /\ UNCHANGED <<plan, pc, journal, copies>> /\ meddled' = meddled \cup {q}
          /\ \A p \in Tracked \ {q} : disk'[p] = disk[p]
      BY <1>14 DEF Meddle, TypeOK
    <2>2. /\ Ours' \subseteq Ours /\ Disturbed' \subseteq Disturbed /\ Originals' = Originals
          /\ \A p \in Ours' : disk'[p] = disk[p] /\ After(p)' = After(p)
      BY <2>1 DEF Disturbed, Ours, Originals, Tracked, After
    <2> QED BY <1>0, <2>1, <2>2
            DEF Promises, AttemptsJournalled, JournalTruthful, OriginalsKept, Disturbed
  <1>15. CASE UNCHANGED vars
    BY <1>0, <1>15, SameDisturbed
       DEF vars, Promises, AttemptsJournalled, JournalTruthful, OriginalsKept, Disturbed
  <1> QED BY <1>2, <1>3, <1>4, <1>5, <1>6, <1>7, <1>8, <1>9, <1>10, <1>11, <1>12, <1>13,
             <1>14, <1>15 DEF Next, Program

(* What the promises of mutate() and rollback() rest on holds at every moment. *)
THEOREM Invariance == Spec => [](TypeOK /\ IInv)
  <1>1. TypeOK /\ IInv /\ [Next]_vars => (TypeOK /\ IInv)'
    BY TypeStep, FollowsStep, EvidenceStep, UndoStep, PromisesStep DEF IInv
  <1> QED BY <1>1, InitTyped, InitInv, PTL DEF Spec

(* Evidence precedes effect: whatever mutate() has altered is in the journal   *)
(* on disk with the contents it holds, also when the process dies.            *)
THEOREM EvidencePrecedesEffect == Spec => []AttemptsJournalled
  BY Invariance, PTL DEF IInv, Promises

(* The status _save() left on disk is true, whichever step failed after it.   *)
THEOREM JournalTellsTruth == Spec => []JournalTruthful
  BY Invariance, PTL DEF IInv, Promises

(* _prepare()'s copies outlive every need of them.                            *)
THEOREM OriginalsOutlive == Spec => []OriginalsKept
  BY Invariance, PTL DEF IInv, Promises

-----------------------------------------------------------------------------
(* The whole keeps the promise of RecoverableChange: each step is one of its  *)
(* actions or changes nothing that it speaks of.                              *)

Whole == \A p \in Ours : disk[p] = After(p)
Untampered == Disturbed = {}
Evidence == journal # None /\ journal.status # "prepared"
Verdict == IF pc \in Final THEN pc ELSE "open"

LEMMA InitRefines == Init => Change!Init
  <1> SUFFICES ASSUME Init PROVE Change!Init
    OBVIOUS
  <1>1. ~Whole
    <2>1. PICK file \in Tracked : After(file) # plan.before[file]
      BY ChangesAssumption DEF Init, Tracked, After
    <2> QED BY <2>1 DEF Whole, Init, Ours
  <1>2. Untampered
    BY DEF Init, Untampered, Disturbed, Ours
  <1>3. ~Evidence
    BY DEF Init, Evidence
  <1>4. Verdict = "open"
    BY DEF Init, Verdict, Final
  <1> QED BY <1>1, <1>2, <1>3, <1>4 DEF Change!Init, Whole, Untampered, Evidence, Verdict

LEMMA Stutters ==
    ASSUME UNCHANGED <<plan, disk, meddled>>, Evidence' = Evidence, Verdict' = Verdict
    PROVE  UNCHANGED Change!vars
  BY SameDisturbed DEF Change!vars, Whole, Untampered, Evidence, Verdict

(* A save that is not the last leaves evidence, or what was there. *)
LEMMA SaveRefines ==
    ASSUME pc \notin Final, pc' \notin Final, UNCHANGED <<plan, disk, meddled>>,
           Evidence' \/ journal' = journal
    PROVE  Change!Announce \/ UNCHANGED Change!vars
  <1>1. Verdict = "open" /\ Verdict' = "open"
    BY DEF Verdict
  <1>2. CASE Evidence'
    BY <1>1, <1>2, SameDisturbed
       DEF Change!Announce, Whole, Untampered, Evidence, Verdict
  <1>3. CASE journal' = journal
    BY <1>1, <1>3, Stutters DEF Evidence
  <1> QED BY <1>2, <1>3

LEMMA StepRefines ==
    ASSUME TypeOK, IInv, [Next]_vars
    PROVE  [Change!Next]_(Change!vars)
  <1>0. EvidenceInPlace /\ UndoCovers /\ JournalTruthful
    BY DEF IInv, Promises
  <1> USE DEF Proceeds, Looked, files, recovery, undo, foreign
  <1>1. ASSUME UNCHANGED <<plan, disk, meddled, journal>>, pc \notin Final, pc' \notin Final
        PROVE  UNCHANGED Change!vars
    BY <1>1, Stutters DEF Evidence, Verdict
  <1>2. CASE Cancel \/ CheckTargets \/ Recheck \/ RecheckFails \/ Verify \/ Survey \/ Resurvey
             \/ RestoreRefused \/ VerifyRestored \/ CheckCreated \/ Gone \/ PrepareFails
    BY <1>1, <1>2 DEF Cancel, CheckTargets, Recheck, RecheckFails, Verify, Survey, Resurvey,
       RestoreRefused, VerifyRestored, CheckCreated, Gone, PrepareFails, Fails, Final
  <1>3. CASE Prepare
    <2>1. journal = None /\ pc = "prepare"
      BY <1>0, <1>3 DEF Prepare, EvidenceInPlace
    <2>2. /\ UNCHANGED <<plan, disk, meddled>> /\ pc' \in {"recheck", "rollback"}
          /\ journal' \in {None, [status |-> "prepared", afters |-> afters]}
      BY <1>3, <2>1 DEF Prepare, Save, Fails
    <2>3. Evidence' = Evidence
      BY <2>1, <2>2 DEF Evidence
    <2> QED BY <2>1, <2>2, <2>3, Stutters DEF Verdict, Final
  <1>4. CASE Announce \/ Record \/ Commit \/ Rollback \/ Settle
    <2>1. PICK status \in {"applying", "committed", "recovering", "rolled_back"} :
             journal' \in {journal, [status |-> status, afters |-> afters]}
      BY <1>4 DEF Announce, Record, Commit, Rollback, Settle, Save, Fails
    <2>2. UNCHANGED <<plan, disk, meddled>> /\ pc \notin Final /\ pc' \notin Final
      BY <1>4 DEF Announce, Record, Commit, Rollback, Settle, Save, Fails, Final
    <2>3. Evidence' \/ journal' = journal
      BY <2>1, Saved DEF Evidence, Status
    <2> QED BY <2>2, <2>3, SaveRefines DEF Change!Next
  <1>5. CASE Operate \/ Restore \/ Unlink
    <2>1. pc \notin Final /\ pc' \notin Final /\ journal' = journal
      BY <1>5 DEF Operate, Restore, Unlink, Fails, Final
    <2>2. Evidence
      BY <1>0, <1>5 DEF Operate, Restore, Unlink, EvidenceInPlace, Forward, Undoing, Evidence
    <2>3. Verdict = "open" /\ Verdict' = "open" /\ Evidence' = Evidence
      BY <2>1 DEF Verdict, Evidence
    <2>4. Whole' \in BOOLEAN /\ Untampered' \in BOOLEAN
      BY DEF Whole, Untampered
    <2> QED BY <2>2, <2>3, <2>4
            DEF Change!Next, Change!Write, Whole, Untampered, Evidence, Verdict
  <1>6. CASE Tidy
    <2>1. UNCHANGED <<plan, disk, meddled>> /\ pc \notin Final
      BY <1>6 DEF Tidy, Final
    <2>2. Evidence' \in BOOLEAN /\ Verdict = "open" /\ Whole' = Whole
          /\ Untampered' = Untampered
      BY <2>1, SameDisturbed DEF Evidence, Verdict, Whole, Untampered
    <2>3. CASE pc = "committed"
      <3>1. Whole
        BY <1>0, <2>3 DEF EvidenceInPlace, Forward, JournalTruthful, Whole
      <3>2. Verdict' = "done"
        BY <1>6, <2>3 DEF Tidy, Fails, Verdict, Final
      <3> QED BY <2>2, <3>1, <3>2
              DEF Change!Next, Change!Deliver, Whole, Untampered, Evidence, Verdict
    <2>4. CASE pc = "restored"
      <3>1. Untampered
        BY <1>0, <2>4 DEF UndoCovers, Untampered
      <3>2. Verdict' = "undone"
        BY <1>6, <2>4 DEF Tidy, Fails, Verdict, Final
      <3> QED BY <2>2, <3>1, <3>2
              DEF Change!Next, Change!Withdraw, Whole, Untampered, Evidence, Verdict
    <2> QED BY <1>6, <2>3, <2>4 DEF Tidy
  <1>7. CASE Demand \/ Crash
    <2>1. /\ UNCHANGED <<plan, disk, meddled>> /\ pc \notin Final
          /\ pc' \in {"demanded", "crashed"}
          /\ journal' \in {journal, [status |-> "recovery_required", afters |-> afters]}
      BY <1>7 DEF Demand, Crash, Save, Fails, Final
    <2>2. Verdict = "open" /\ Verdict' \in {"demanded", "crashed"}
      BY <2>1 DEF Verdict, Final
    <2>3. Evidence' \in BOOLEAN /\ (Evidence => Evidence')
      BY <2>1, Saved DEF Evidence, Status
    <2>4. Whole' = Whole /\ Untampered' = Untampered
      BY <2>1, SameDisturbed DEF Whole, Untampered
    <2> QED BY <2>2, <2>3, <2>4
            DEF Change!Next, Change!Abandon, Whole, Untampered, Evidence, Verdict
  <1>8. ASSUME NEW q \in Tracked, Meddle(q) PROVE Change!Meddle
    <2>1. /\ UNCHANGED <<plan, pc, journal>> /\ meddled' = meddled \cup {q}
          /\ \A p \in Tracked \ {q} : disk'[p] = disk[p]
          /\ pc \notin Final
      BY <1>8 DEF Meddle, TypeOK
    <2>2. /\ Ours' \subseteq Ours /\ Disturbed' \subseteq Disturbed
          /\ \A p \in Ours' : disk'[p] = disk[p] /\ After(p)' = After(p)
      BY <2>1 DEF Disturbed, Ours, Tracked, After
    <2>3. (Whole => Whole') /\ (Untampered => Untampered')
      BY <2>2 DEF Whole, Untampered
    <2>4. Verdict = "open" /\ Verdict' = Verdict /\ Evidence' = Evidence
      BY <2>1 DEF Verdict, Evidence
    <2>5. Whole' \in BOOLEAN /\ Untampered' \in BOOLEAN
      BY DEF Whole, Untampered
    <2> QED BY <2>3, <2>4, <2>5 DEF Change!Meddle, Whole, Untampered, Evidence, Verdict
  <1>9. CASE UNCHANGED vars
    BY <1>9, Stutters DEF vars, Evidence, Verdict
  <1> QED BY <1>2, <1>3, <1>4, <1>5, <1>6, <1>7, <1>8, <1>9 DEF Next, Program, Change!Next

(* Every behaviour of OverlayTargetRecovery is one RecoverableChange allows.  *)
THEOREM Refinement == Spec => ChangeSpec
  <1>1. TypeOK /\ IInv /\ [Next]_vars => [Change!Next]_(Change!vars)
    BY StepRefines
  <1> QED BY <1>1, InitRefines, Invariance, PTL DEF Spec, ChangeSpec, Change!Spec

-----------------------------------------------------------------------------
(* What the program has looked at is as it saw it, unless the foreign      *)
(* contents arrived since.                                                 *)
LooksHold ==
    /\ pc \in {"announce", "operate"} =>
        \A p \in Targets : disk[p] = current[p] \/ p \in fresh
    /\ pc \in {"resurvey", "restore", "remove", "unlink", "gone"} =>
        \A p \in DOMAIN changed : changed[p] \in Payloads
    /\ pc \in {"restore", "remove", "unlink", "gone"} => left \subseteq DOMAIN changed
    /\ pc = "restore" => \A p \in left : disk[p] \in Payloads \/ p \in fresh
    /\ pc = "unlink" => disk[removing] \in Payloads \/ removing \in fresh

(* As long as no foreign program interfered, rollback finds what it left.  *)
Undisturbed ==
    meddles = 0 =>
        /\ meddled = {}
        /\ pc = "resurvey" => changed = Found
        /\ pc = "restore" =>
            /\ left \subseteq Existing
            /\ \A p \in Existing \ left : disk[p] = plan.before[p]
            /\ \A p \in Created : disk[p] = changed[p]
        /\ pc \in {"remove", "unlink"} => \A p \in left : disk[p] = changed[p]
        /\ pc = "gone" =>
            /\ disk[removing] = Missing
            /\ \A p \in left \ {removing} : disk[p] = changed[p]

Kept == TypeOK /\ IInv /\ LooksHold /\ Undisturbed

LEMMA InitLooks == Init => LooksHold /\ Undisturbed
  BY DEF Init, LooksHold, Undisturbed

LEMMA SamePlan ==
    ASSUME UNCHANGED <<plan, at>>
    PROVE  /\ Targets' = Targets /\ Step' = Step /\ Tracked' = Tracked
           /\ Originals' = Originals
  BY DEF Targets, Step, Tracked, Originals

LEMMA LooksStep ==
    ASSUME TypeOK, TypeOK', IInv, LooksHold, [Next]_vars
    PROVE  LooksHold'
  <1>0. EvidenceInPlace /\ UndoCovers
    BY DEF IInv
  <1> USE SamePlan DEF Proceeds, Looked, files, recovery, undo, foreign
  <1>1. CASE Cancel \/ CheckTargets \/ Prepare \/ PrepareFails \/ RecheckFails \/ Verify
             \/ Record \/ Commit \/ Tidy \/ Rollback \/ Settle \/ Demand \/ Crash
             \/ RestoreRefused
    <2>1. pc' \notin {"announce", "operate", "resurvey", "restore", "remove", "unlink", "gone"}
      BY <1>1 DEF Cancel, CheckTargets, Prepare, PrepareFails, RecheckFails, Verify, Record,
         Commit, Tidy, Rollback, Settle, Demand, Crash, RestoreRefused, Save, Fails
    <2> QED BY <2>1 DEF LooksHold
  <1>2. CASE Recheck
    BY <1>2 DEF Recheck, Untouched, LooksHold
  <1>3. CASE Announce
    BY <1>3 DEF Announce, Save, Fails, LooksHold
  <1>4. CASE Operate
    BY <1>4 DEF Operate, Fails, LooksHold
  <1>5. CASE Survey
    <2>1. CASE pc' = "resurvey"
      <3>1. changed' = Found /\ AllKnown
        BY <1>5, <2>1 DEF Survey, Fails
      <3>2. \A p \in OwnedChanges : disk[p] \in Payloads
        BY <3>1 DEF AllKnown, OwnedChanges, TypeOK, Attempts
      <3> QED BY <2>1, <3>1, <3>2 DEF Found, LooksHold
    <2>2. CASE pc' = "demand"
      BY <2>2 DEF LooksHold
    <2> QED BY <1>5, <2>1, <2>2 DEF Survey, Fails
  <1>6. CASE Resurvey
    <2>1. CASE pc' = "restore"
      <3>1. left' = Existing /\ UNCHANGED <<changed, disk>> /\ Existing \subseteq DOMAIN changed
        BY <1>6, <2>1 DEF Resurvey, Existing
      <3>2. \A p \in Existing : disk[p] = changed[p]
        BY <1>6, <2>1, <3>1 DEF Resurvey, Found
      <3>3. \A p \in DOMAIN changed : changed[p] \in Payloads
        BY <1>6 DEF Resurvey, LooksHold
      <3> QED BY <2>1, <3>1, <3>2, <3>3 DEF LooksHold
    <2>2. CASE pc' = "demand"
      BY <2>2 DEF LooksHold
    <2> QED BY <1>6, <2>1, <2>2 DEF Resurvey
  <1>7. CASE Restore
    <2>1. plan.before \in [Tracked -> Payloads] /\ left \subseteq Tracked
      BY PlanFacts DEF TypeOK
    <2>2. disk \in [Tracked -> Payloads \cup Foreign]
      BY DEF TypeOK
    <2> QED BY <1>7, <2>1, <2>2 DEF Restore, Fails, LooksHold
  <1>8. CASE VerifyRestored
    BY <1>8 DEF VerifyRestored, Created, LooksHold
  <1>9. CASE CheckCreated
    BY <1>9 DEF CheckCreated, Latest, LooksHold
  <1>10. CASE Unlink
    BY <1>10 DEF Unlink, Fails, LooksHold
  <1>11. CASE Gone
    BY <1>11 DEF Gone, LooksHold
  <1>12. ASSUME NEW q \in Tracked, Meddle(q) PROVE LooksHold'
    <2>1. /\ UNCHANGED <<plan, at, pc, current, changed, left, removing>>
          /\ fresh' = fresh \cup {q} /\ \A p \in Tracked \ {q} : disk'[p] = disk[p]
      BY <1>12 DEF Meddle, TypeOK
    <2>2. Targets \subseteq Tracked /\ left \subseteq Tracked
      BY PlanFacts DEF TypeOK
    <2>3. pc = "unlink" => removing \in Tracked
      BY <1>0, <2>2 DEF UndoCovers
    <2> QED BY <2>1, <2>2, <2>3 DEF LooksHold
  <1>13. CASE UNCHANGED vars
    BY <1>13 DEF vars, LooksHold
  <1> QED BY <1>1, <1>2, <1>3, <1>4, <1>5, <1>6, <1>7, <1>8, <1>9, <1>10, <1>11, <1>12,
             <1>13 DEF Next, Program

LEMMA UndisturbedStep ==
    ASSUME TypeOK, TypeOK', IInv, LooksHold, Undisturbed, [Next]_vars
    PROVE  Undisturbed'
  <1>0. UndoCovers
    BY DEF IInv
  <1> USE SamePlan DEF Proceeds, Looked, files, recovery, undo, foreign
  <1>1. CASE Cancel \/ CheckTargets \/ Prepare \/ PrepareFails \/ Recheck \/ RecheckFails
             \/ Announce \/ Verify \/ Record \/ Commit \/ Tidy \/ Rollback \/ Settle
             \/ Demand \/ Crash \/ RestoreRefused
    <2>1. /\ pc' \notin {"resurvey", "restore", "remove", "unlink", "gone"}
          /\ UNCHANGED <<meddled, meddles>>
      BY <1>1 DEF Cancel, CheckTargets, Prepare, PrepareFails, Recheck, RecheckFails,
         Announce, Verify, Record, Commit, Tidy, Rollback, Settle, Demand, Crash,
         RestoreRefused, Save, Fails
    <2> QED BY <2>1 DEF Undisturbed
  <1>2. CASE Operate
    BY <1>2 DEF Operate, Fails, Undisturbed
  <1>3. CASE Survey
    BY <1>3 DEF Survey, Fails, Found, OwnedChanges, Attempted, Undisturbed
  <1>4. CASE Resurvey
    <2>1. CASE pc' = "restore"
      <3>1. left' = Existing /\ UNCHANGED <<changed, disk, plan, meddled, meddles>>
        BY <1>4, <2>1 DEF Resurvey
      <3>2. Existing' = Existing /\ Created' = Created /\ Created \subseteq DOMAIN changed
        BY <3>1 DEF Existing, Created, Originals, Tracked
      <3>3. meddles = 0 => \A p \in Created : disk[p] = changed[p]
        BY <1>4, <3>2 DEF Resurvey, Undisturbed, Found
      <3> QED BY <2>1, <3>1, <3>2, <3>3 DEF Undisturbed
    <2>2. CASE pc' = "demand"
      BY <1>4, <2>2 DEF Resurvey, Undisturbed
    <2> QED BY <1>4, <2>1, <2>2 DEF Resurvey
  <1>5. CASE Restore
    <2>1. UNCHANGED <<plan, changed, meddled, meddles>>
      BY <1>5 DEF Restore
    <2>2. Existing' = Existing /\ Created' = Created /\ Existing \cap Created = {}
      BY <2>1 DEF Existing, Created, Originals, Tracked
    <2>3. CASE pc' = "demand"
      BY <2>1, <2>3 DEF Undisturbed
    <2>4. CASE pc' = "restore"
      <3>1. PICK p \in left : /\ disk' = [disk EXCEPT ![p] = plan.before[p]]
                              /\ left' = left \ {p}
        BY <1>5, <2>4 DEF Restore, Fails
      <3>2. disk \in [Tracked -> Payloads \cup Foreign] /\ left \subseteq Tracked
        BY DEF TypeOK
      <3>3. disk'[p] = plan.before[p] /\ \A q \in Tracked \ {p} : disk'[q] = disk[q]
        BY <3>1, <3>2
      <3>4. Existing \subseteq Tracked /\ Created \subseteq Tracked
        BY DEF Existing, Created, TypeOK
      <3>5. pc = "restore"
        BY <1>5 DEF Restore
      <3> QED BY <2>1, <2>2, <2>4, <3>1, <3>3, <3>4, <3>5 DEF Undisturbed
    <2> QED BY <1>5, <2>3, <2>4 DEF Restore, Fails
  <1>6. CASE VerifyRestored
    <2>1. UNCHANGED <<plan, changed, disk, meddled, meddles>> /\ pc = "restore"
      BY <1>6 DEF VerifyRestored
    <2>2. pc' = "remove" => left' = Created
      BY <1>6 DEF VerifyRestored
    <2>3. pc' \in {"remove", "demand"}
      BY <1>6 DEF VerifyRestored
    <2> QED BY <2>1, <2>2, <2>3 DEF Undisturbed
  <1>7. CASE CheckCreated
    BY <1>7 DEF CheckCreated, Undisturbed
  <1>8. CASE Unlink
    <2>1. disk \in [Tracked -> Payloads \cup Foreign] /\ removing \in left /\ left \subseteq Tracked
      BY <1>0, <1>8 DEF Unlink, UndoCovers, TypeOK
    <2>2. CASE pc' = "gone"
      <3>1. /\ disk' = [disk EXCEPT ![removing] = Missing] /\ pc = "unlink"
            /\ UNCHANGED <<changed, left, removing, meddled, meddles>>
        BY <1>8, <2>2 DEF Unlink, Fails
      <3>2. disk'[removing] = Missing /\ \A q \in left \ {removing} : disk'[q] = disk[q]
        BY <2>1, <3>1
      <3> QED BY <2>2, <3>1, <3>2 DEF Undisturbed
    <2>3. CASE pc' = "demand"
      BY <1>8, <2>3 DEF Unlink, Undisturbed
    <2> QED BY <1>8, <2>2, <2>3 DEF Unlink, Fails
  <1>9. CASE Gone
    BY <1>9 DEF Gone, Undisturbed
  <1>10. ASSUME NEW q \in Tracked, Meddle(q) PROVE Undisturbed'
    <2>1. meddles' # 0
      BY <1>10, BoundsAssumption DEF Meddle, TypeOK
    <2> QED BY <2>1 DEF Undisturbed
  <1>11. CASE UNCHANGED vars
    BY <1>11 DEF vars, Undisturbed, Found, OwnedChanges, Attempted, Existing, Created,
       Originals, Tracked
  <1> QED BY <1>1, <1>2, <1>3, <1>4, <1>5, <1>6, <1>7, <1>8, <1>9, <1>10, <1>11
          DEF Next, Program

LEMMA KeptAlways == Spec => []Kept
  <1>1. Kept /\ [Next]_vars => Kept'
    BY TypeStep, FollowsStep, EvidenceStep, UndoStep, PromisesStep, LooksStep,
       UndisturbedStep DEF Kept, IInv
  <1> QED BY <1>1, InitTyped, InitInv, InitLooks, PTL DEF Spec, Kept

LEMMA SparesStep ==
    ASSUME Kept, [Next]_vars, meddles' = meddles,
           NEW p \in Tracked, disk[p] \in Foreign, p \notin fresh
    PROVE  disk'[p] = disk[p]
  <1>0. /\ TypeOK /\ LooksHold /\ UndoCovers
        /\ disk \in [Tracked -> Payloads \cup Foreign] /\ disk[p] \notin Payloads
    BY ContentsAssumption DEF Kept, IInv, TypeOK, Payloads
  <1> USE DEF files, recovery, undo, foreign
  <1>1. CASE Operate
    <2>1. p \notin Targets
      BY <1>0, <1>1, PlanFacts DEF Operate, LooksHold, TypeOK
    <2> QED BY <1>1, <2>1 DEF Operate, Effect
  <1>2. CASE Restore
    BY <1>0, <1>2 DEF Restore, LooksHold
  <1>3. CASE Unlink
    BY <1>0, <1>3 DEF Unlink, LooksHold
  <1>4. ASSUME NEW q \in Tracked, Meddle(q) PROVE FALSE
    BY <1>0, <1>4, BoundsAssumption DEF Meddle, TypeOK
  <1>5. CASE ~(Operate \/ Restore \/ Unlink \/ \E q \in Tracked : Meddle(q))
    <2>1. disk' = disk
      BY <1>5 DEF Next, Program, vars, Cancel, CheckTargets, Prepare, PrepareFails, Recheck,
         RecheckFails, Announce, Verify, Record, Commit, Tidy, Rollback, Survey, Resurvey,
         RestoreRefused, VerifyRestored, CheckCreated, Gone, Settle, Demand, Crash
    <2> QED BY <2>1
  <1> QED BY <1>1, <1>2, <1>3, <1>4, <1>5

(* Foreign contents the program has seen are never destroyed: a step and    *)
(* the rollback overwrite only what came after their last look.             *)
THEOREM SparesForeign == Spec => ForeignSpared
  <1>1. Kept /\ [Next]_vars =>
           [meddles' = meddles =>
               \A p \in Tracked : disk[p] \in Foreign /\ p \notin fresh => disk'[p] = disk[p]]_vars
    BY SparesStep
  <1> QED BY <1>1, KeptAlways, PTL DEF Spec, ForeignSpared

LEMMA GivesUpStep ==
    ASSUME Kept, [Next]_vars, GivesUpByItself
    PROVE  ~plan.confirms
  <1>0. /\ TypeOK /\ EvidenceInPlace /\ AttemptsJournalled /\ Undisturbed
        /\ meddled = {} /\ pc # "demand" /\ pc' = "demand" /\ failures' = failures
        /\ failures \in Nat
    BY BoundsAssumption DEF Kept, IInv, Promises, Undisturbed, GivesUpByItself, TypeOK
  <1>1. ASSUME NEW line, Fails(line) PROVE FALSE
    BY <1>0, <1>1 DEF Fails
  <1>2. ASSUME pc # "done" PROVE AllKnown
    <2> SUFFICES ASSUME NEW p \in OwnedChanges PROVE disk[p] \in afters[p]
      BY DEF AllKnown
    <2>1. p \in Tracked /\ p \in Disturbed
      BY <1>0 DEF OwnedChanges, TypeOK, Disturbed, Ours
    <2> QED BY <1>0, <1>2, <2>1 DEF AttemptsJournalled, EvidenceInPlace
  <1>3. CASE Survey
    BY <1>0, <1>1, <1>2, <1>3 DEF Survey, Proceeds
  <1>4. CASE Resurvey
    BY <1>0, <1>2, <1>4 DEF Resurvey, Proceeds, Undisturbed, GivesUpByItself
  <1>5. CASE RestoreRefused
    BY <1>5 DEF RestoreRefused
  <1>6. CASE VerifyRestored
    BY <1>0, <1>6 DEF VerifyRestored, Proceeds, Undisturbed, GivesUpByItself
  <1>7. CASE CheckCreated
    BY <1>0, <1>7 DEF CheckCreated, Proceeds, Latest, Undisturbed, GivesUpByItself
  <1>8. CASE Gone
    BY <1>0, <1>8 DEF Gone, Proceeds, Undisturbed, GivesUpByItself
  <1>9. CASE Rollback \/ Restore \/ Unlink \/ Settle
    BY <1>0, <1>1, <1>9 DEF Rollback, Restore, Unlink, Settle, Save, Proceeds
  <1>10. CASE Cancel \/ CheckTargets \/ Prepare \/ PrepareFails \/ Recheck \/ RecheckFails
              \/ Announce \/ Operate \/ Verify \/ Record \/ Commit \/ Tidy
    <2>1. pc' # "demand"
      BY <1>0, <1>1, <1>10 DEF Cancel, CheckTargets, Prepare, PrepareFails, Recheck,
         RecheckFails, Announce, Operate, Verify, Record, Commit, Tidy, Save, Proceeds
    <2> QED BY <1>0, <2>1
  <1>11. CASE Demand \/ Crash \/ UNCHANGED vars \/ \E q \in Tracked : Meddle(q)
    BY <1>0, <1>11 DEF Demand, Crash, Proceeds, vars, Meddle
  <1> QED BY <1>3, <1>4, <1>5, <1>6, <1>7, <1>8, <1>9, <1>10, <1>11 DEF Next, Program

(* A rollback whose restore confirms what it does gives up only when one of *)
(* its own steps fails or a foreign program interferes.                     *)
THEOREM ConfirmedRollbackHolds == Spec => ConfirmedGivesUpOnlyOnFailure
  <1>1. Kept /\ [Next]_vars => [plan.confirms => ~GivesUpByItself]_vars
    BY GivesUpStep
  <1> QED BY <1>1, KeptAlways, PTL DEF Spec, ConfirmedGivesUpOnlyOnFailure

-----------------------------------------------------------------------------
(* A mount list never names half an archive. *)

\* What a change that mounts an archive for the first time consists of: the
\* mount list is written last, and the payload and the index before it.
Mounts(p) ==
    /\ p.before["papgt"] = "old" /\ "papgt" \in DOMAIN p.before
    /\ \A w \in {"paz", "pamt"} : w \in DOMAIN p.before /\ p.before[w] = Missing
    /\ Len(p.steps) \in Nat \ {0}
    /\ \A i \in 1 .. Len(p.steps) :
           /\ p.steps[i].from = None
           /\ ("papgt" \in DOMAIN p.steps[i].after /\ p.steps[i].after["papgt"] = "new")
                <=> i = Len(p.steps)
           /\ \A w \in {"paz", "pamt"} : w \in DOMAIN p.steps[i].after =>
                p.steps[i].after[w] = "new" /\ i < Len(p.steps)
    /\ \A w \in {"paz", "pamt"} :
           \E i \in 1 .. Len(p.steps) : w \in DOMAIN p.steps[i].after

LEMMA WriteIs ==
    ASSUME NEW p, NEW contents
    PROVE  /\ Write(p, contents).from = None
           /\ DOMAIN Write(p, contents).after = {p}
           /\ Write(p, contents).after[p] = contents
BY DEF Write

LEMMA PutIs ==
    ASSUME NEW p
    PROVE  /\ Put(p).from = None /\ PutOlder(p).from = None
           /\ DOMAIN Put(p).after = {p} /\ Put(p).after[p] = "new"
           /\ DOMAIN PutOlder(p).after = {p} /\ PutOlder(p).after[p] = "older"
BY WriteIs DEF Put, PutOlder

LEMMA Prepended ==
    ASSUME NEW S, NEW x \in S, NEW t \in Seq(S)
    PROVE  /\ Len(<<x>> \o t) = Len(t) + 1 /\ (<<x>> \o t)[1] = x
           /\ \A i \in 1 .. Len(t) : (<<x>> \o t)[i + 1] = t[i]
OBVIOUS

LEMMA MountsInstall ==
    ASSUME NEW p, p = Install(FALSE)
    PROVE  Mounts(p)
  <1> DEFINE S == {Put(q) : q \in Files}
             steps == p.steps
             rest == <<Put("marker"), Put("paz"), Put("pamt"), Put("pathc"), Put("receipt"),
                       Put("papgt")>>
  <1>1. /\ Len(rest) = 6 /\ rest[1] = Put("marker") /\ rest[2] = Put("paz")
        /\ rest[3] = Put("pamt") /\ rest[4] = Put("pathc") /\ rest[5] = Put("receipt")
        /\ rest[6] = Put("papgt")
        /\ Put("baseline") \in S /\ rest \in Seq(S)
    BY DEF Files, Directory
  <1>2. steps = <<Put("baseline")>> \o rest
    BY DEF Install
  <1> HIDE DEF S, steps, rest
  <1>3. /\ Len(steps) = 7 /\ steps[1] = Put("baseline")
        /\ \A i \in 1 .. 6 : steps[i + 1] = rest[i]
    <2>1. /\ Len(<<Put("baseline")>> \o rest) = Len(rest) + 1
          /\ (<<Put("baseline")>> \o rest)[1] = Put("baseline")
          /\ \A i \in 1 .. Len(rest) : (<<Put("baseline")>> \o rest)[i + 1] = rest[i]
      <3>1. Put("baseline") \in S /\ rest \in Seq(S)
        BY <1>1
      <3> QED BY <3>1, Prepended
    <2> QED BY <1>1, <1>2, <2>1
  <1>4. /\ Len(steps) = 7 /\ steps[1] = Put("baseline") /\ steps[2] = Put("marker")
        /\ steps[3] = Put("paz") /\ steps[4] = Put("pamt") /\ steps[5] = Put("pathc")
        /\ steps[6] = Put("receipt") /\ steps[7] = Put("papgt")
    BY <1>1, <1>3
  <1>5. /\ p.before["papgt"] = "old" /\ "papgt" \in DOMAIN p.before
        /\ \A w \in {"paz", "pamt"} : w \in DOMAIN p.before /\ p.before[w] = Missing
    BY DEF Install, Before, Directory
  <1>6. ASSUME NEW i \in 1 .. Len(steps)
        PROVE  /\ steps[i].from = None
               /\ ("papgt" \in DOMAIN steps[i].after /\ steps[i].after["papgt"] = "new")
                    <=> i = Len(steps)
               /\ \A w \in {"paz", "pamt"} : w \in DOMAIN steps[i].after =>
                    steps[i].after[w] = "new" /\ i < Len(steps)
    <2>1. i \in 1 .. 7
      BY <1>4
    <2>2. /\ i = 1 => steps[i] = Put("baseline")
          /\ i = 2 => steps[i] = Put("marker")
          /\ i = 3 => steps[i] = Put("paz")
          /\ i = 4 => steps[i] = Put("pamt")
          /\ i = 5 => steps[i] = Put("pathc")
          /\ i = 6 => steps[i] = Put("receipt")
          /\ i = 7 => steps[i] = Put("papgt")
      BY <1>4
    <2> QED BY <1>4, <2>1, <2>2, PutIs
  <1>7. \A w \in {"paz", "pamt"} : \E i \in 1 .. Len(steps) : w \in DOMAIN steps[i].after
    <2>1. /\ 3 \in 1 .. Len(steps) /\ "paz" \in DOMAIN steps[3].after
          /\ 4 \in 1 .. Len(steps) /\ "pamt" \in DOMAIN steps[4].after
      BY <1>4, PutIs
    <2> QED BY <2>1
  <1>9. Len(steps) \in Nat \ {0}
    BY <1>4
  <1> QED BY <1>5, <1>6, <1>7, <1>9, Zenon DEF Mounts, steps

LEMMA MountsLayers ==
    ASSUME NEW p, p = ChangeLayers(FALSE)
    PROVE  Mounts(p)
  <1> DEFINE list == <<Put("layer"), Put("pamt"), Put("paz"), Put("marker"),
                        Put("pathc"), Put("index"), Put("papgt")>>
             steps == p.steps
  <1>1. /\ Len(list) = 7 /\ list[1] = Put("layer") /\ list[2] = Put("pamt")
        /\ list[3] = Put("paz") /\ list[4] = Put("marker") /\ list[5] = Put("pathc")
        /\ list[6] = Put("index") /\ list[7] = Put("papgt")
    OBVIOUS
  <1>2. steps = list
    BY DEF ChangeLayers
  <1> HIDE DEF list, steps
  <1>3. /\ Len(steps) = 7 /\ steps[1] = Put("layer") /\ steps[2] = Put("pamt")
        /\ steps[3] = Put("paz") /\ steps[4] = Put("marker") /\ steps[5] = Put("pathc")
        /\ steps[6] = Put("index") /\ steps[7] = Put("papgt")
    BY <1>1, <1>2
  <1>4. /\ p.before["papgt"] = "old" /\ "papgt" \in DOMAIN p.before
        /\ \A w \in {"paz", "pamt"} : w \in DOMAIN p.before /\ p.before[w] = Missing
    BY DEF ChangeLayers, Before, Directory
  <1>5. ASSUME NEW i \in 1 .. Len(steps)
        PROVE  /\ steps[i].from = None
               /\ ("papgt" \in DOMAIN steps[i].after /\ steps[i].after["papgt"] = "new")
                    <=> i = Len(steps)
               /\ \A w \in {"paz", "pamt"} : w \in DOMAIN steps[i].after =>
                    steps[i].after[w] = "new" /\ i < Len(steps)
    <2>1. i \in 1 .. 7
      BY <1>3
    <2>2. /\ i = 1 => steps[i] = Put("layer")
          /\ i = 2 => steps[i] = Put("pamt")
          /\ i = 3 => steps[i] = Put("paz")
          /\ i = 4 => steps[i] = Put("marker")
          /\ i = 5 => steps[i] = Put("pathc")
          /\ i = 6 => steps[i] = Put("index")
          /\ i = 7 => steps[i] = Put("papgt")
      BY <1>3
    <2> QED BY <1>3, <2>1, <2>2, PutIs
  <1>6. \A w \in {"paz", "pamt"} : \E i \in 1 .. Len(steps) : w \in DOMAIN steps[i].after
    <2>1. /\ 3 \in 1 .. Len(steps) /\ "paz" \in DOMAIN steps[3].after
          /\ 2 \in 1 .. Len(steps) /\ "pamt" \in DOMAIN steps[2].after
      BY <1>3, PutIs
    <2> QED BY <2>1
  <1>9. Len(steps) \in Nat \ {0}
    BY <1>3
  <1> QED BY <1>4, <1>5, <1>6, <1>9, Zenon DEF Mounts, steps

LEMMA MountsMigrated ==
    ASSUME NEW p, p = Migrate(FALSE)
    PROVE  Mounts(p)
  <1> DEFINE list == <<PutOlder("group"), PutOlder("papgt"), Put("marker"), Put("paz"),
                        Put("pamt"), Put("papgt")>>
             steps == p.steps
  <1>1. /\ Len(list) = 6 /\ list[1] = PutOlder("group") /\ list[2] = PutOlder("papgt")
        /\ list[3] = Put("marker") /\ list[4] = Put("paz") /\ list[5] = Put("pamt")
        /\ list[6] = Put("papgt")
    OBVIOUS
  <1>2. steps = list
    BY DEF Migrate
  <1> HIDE DEF list, steps
  <1>3. /\ Len(steps) = 6 /\ steps[1] = PutOlder("group") /\ steps[2] = PutOlder("papgt")
        /\ steps[3] = Put("marker") /\ steps[4] = Put("paz") /\ steps[5] = Put("pamt")
        /\ steps[6] = Put("papgt")
    BY <1>1, <1>2
  <1>4. /\ p.before["papgt"] = "old" /\ "papgt" \in DOMAIN p.before
        /\ \A w \in {"paz", "pamt"} : w \in DOMAIN p.before /\ p.before[w] = Missing
    BY DEF Migrate, Before, Directory
  <1>5. ASSUME NEW i \in 1 .. Len(steps)
        PROVE  /\ steps[i].from = None
               /\ ("papgt" \in DOMAIN steps[i].after /\ steps[i].after["papgt"] = "new")
                    <=> i = Len(steps)
               /\ \A w \in {"paz", "pamt"} : w \in DOMAIN steps[i].after =>
                    steps[i].after[w] = "new" /\ i < Len(steps)
    <2>1. i \in 1 .. 6
      BY <1>3
    <2>2. /\ i = 1 => steps[i] = PutOlder("group")
          /\ i = 2 => steps[i] = PutOlder("papgt")
          /\ i = 3 => steps[i] = Put("marker")
          /\ i = 4 => steps[i] = Put("paz")
          /\ i = 5 => steps[i] = Put("pamt")
          /\ i = 6 => steps[i] = Put("papgt")
      BY <1>3
    <2> QED BY <1>3, <2>1, <2>2, PutIs
  <1>6. \A w \in {"paz", "pamt"} : \E i \in 1 .. Len(steps) : w \in DOMAIN steps[i].after
    <2>1. /\ 4 \in 1 .. Len(steps) /\ "paz" \in DOMAIN steps[4].after
          /\ 5 \in 1 .. Len(steps) /\ "pamt" \in DOMAIN steps[5].after
      BY <1>3, PutIs
    <2> QED BY <2>1
  <1>9. Len(steps) \in Nat \ {0}
    BY <1>3
  <1> QED BY <1>4, <1>5, <1>6, <1>9, Zenon DEF Mounts, steps

LEMMA FirstMountsMount == \A p \in FirstMounts : Mounts(p)
BY MountsInstall, MountsLayers, MountsMigrated DEF FirstMounts

MountsWhole ==
    /\ NewMountsWhole
    /\ pc = "restore" => left \subseteq Originals

\* A change of files in the right order, or of none, keeps mount lists whole.
LEMMA KeepsWhole ==
    ASSUME NewMountsWhole, UNCHANGED <<plan, disk>>, meddled \subseteq meddled'
    PROVE  NewMountsWhole'
BY DEF NewMountsWhole, Ours, Tracked

LEMMA OperateWhole ==
    ASSUME TypeOK, IInv, NewMountsWhole, Operate
    PROVE  NewMountsWhole'
  <1>1. UNCHANGED plan /\ meddled \subseteq meddled' /\ pc = "operate" /\ UNCHANGED current
    BY DEF Operate, recovery
  <1>2. CASE disk' = disk
    BY <1>1, <1>2, KeepsWhole
  <1>3. CASE disk' = Effect
    <2> SUFFICES ASSUME plan \in FirstMounts, disk'["papgt"] = "new", "papgt" \in Ours',
                        NEW w \in {"paz", "pamt"} \cap Ours'
                 PROVE  disk'[w] = "new"
      BY <1>1 DEF NewMountsWhole
    <2>1. "papgt" \in Ours /\ w \in Ours
      BY <1>1 DEF Ours, Tracked
    <2>2. Mounts(plan)
      BY FirstMountsMount
    <2>3. Step.from = None /\ at \in 1 .. Len(plan.steps)
      BY <2>2, PlanFacts DEF Mounts, Step, TypeOK
    <2>4. \A p \in Tracked : disk'[p] = IF p \in Targets THEN Step.after[p] ELSE disk[p]
      BY <1>3, <2>3 DEF Effect
    <2>5. CASE w \in Targets
      BY <2>1, <2>2, <2>3, <2>4, <2>5 DEF Mounts, Targets, Step, Ours
    <2>6. CASE w \notin Targets
      <3>1. disk'[w] = disk[w]
        BY <2>1, <2>4, <2>6 DEF Ours
      <3>2. CASE "papgt" \in Targets
        <4>1. at = Len(plan.steps)
          BY <2>1, <2>2, <2>3, <2>4, <3>2 DEF Mounts, Targets, Step, Ours
        <4>2. /\ Reflects(w, at - 1) /\ disk[w] = current[w]
          BY <1>1, <2>1 DEF IInv, FollowsPlan, Forward, StepsDone, InPlace, Ours
        <4>3. PICK i \in 1 .. Len(plan.steps) : w \in DOMAIN plan.steps[i].after
          BY <2>2 DEF Mounts
        <4>4. i < Len(plan.steps)
          BY <2>2, <4>3 DEF Mounts
        <4>5. i \in 1 .. at - 1
          BY <4>1, <4>3, <4>4, PlanFacts
        <4>6. PICK k \in 1 .. at - 1 :
                  w \in DOMAIN plan.steps[k].after /\ current[w] = plan.steps[k].after[w]
          BY <4>2, <4>3, <4>5 DEF Reflects, LastTouch
        <4>7. k \in 1 .. Len(plan.steps)
          BY <2>3, <4>6
        <4> QED BY <2>2, <3>1, <4>2, <4>6, <4>7 DEF Mounts
      <3>3. CASE "papgt" \notin Targets
        BY <2>1, <2>4, <3>1, <3>3 DEF NewMountsWhole, Ours
      <3> QED BY <3>2, <3>3
    <2> QED BY <2>5, <2>6
  <1> QED BY <1>2, <1>3 DEF Operate

\* Rollback puts the mount list back before the archive's files go.
LEMMA UndoWhole ==
    ASSUME TypeOK, IInv, MountsWhole, Restore \/ Unlink
    PROVE  NewMountsWhole'
  <1>1. UNCHANGED <<plan, meddled>>
    BY DEF Restore, Unlink, recovery, foreign
  <1> SUFFICES ASSUME plan \in FirstMounts, disk'["papgt"] = "new", "papgt" \in Ours,
                      NEW w \in {"paz", "pamt"} \cap Ours
               PROVE  disk'[w] = "new"
    BY <1>1 DEF NewMountsWhole, Ours, Tracked
  <1>2. /\ plan.before["papgt"] = "old" /\ plan.before[w] = Missing
        /\ "papgt" \in Originals /\ w \notin Originals
    BY FirstMountsMount, PlanContentsAssumption, ContentsAssumption
       DEF Mounts, Originals, Tracked
  <1>3. disk \in [Tracked -> Payloads \cup Foreign] /\ "papgt" \in Tracked /\ w \in Tracked
    BY DEF TypeOK, Ours
  <1>4. CASE Restore
    <2>1. PICK p \in left : disk' = disk \/ disk' = [disk EXCEPT ![p] = plan.before[p]]
      BY <1>4 DEF Restore
    <2>2. p # w
      BY <1>2, <1>4 DEF MountsWhole, Restore
    <2>3. p = "papgt" => disk' = disk
      BY <1>2, <1>3, <2>1
    <2> QED BY <1>3, <2>1, <2>2, <2>3 DEF MountsWhole, NewMountsWhole
  <1>5. CASE Unlink
    <2>1. /\ disk' = disk \/ disk' = [disk EXCEPT ![removing] = Missing]
          /\ Disturbed \subseteq left /\ left \cap Originals = {} /\ removing \in left
      BY <1>5 DEF Unlink, IInv, UndoCovers
    <2>2. disk["papgt"] = "old" /\ removing # "papgt"
      BY <1>2, <2>1 DEF Disturbed
    <2> QED BY <1>3, <2>1, <2>2
  <1> QED BY <1>4, <1>5

LEMMA MountsStep ==
    ASSUME TypeOK, TypeOK', IInv, IInv', MountsWhole, [Next]_vars
    PROVE  MountsWhole'
  <1> USE DEF files, recovery, undo, foreign, Looked, Proceeds
  <1>1. pc' = "restore" => left' \subseteq Originals'
    <2> SUFFICES ASSUME pc' = "restore" PROVE left' \subseteq Originals'
      OBVIOUS
    <2>1. UNCHANGED plan
      BY DEF Next, Program, Cancel, CheckTargets, Prepare, PrepareFails, Recheck, RecheckFails,
         Announce, Operate, Verify, Record, Commit, Tidy, Rollback, Survey, Resurvey, Restore,
         RestoreRefused, VerifyRestored, CheckCreated, Unlink, Gone, Settle, Demand, Crash,
         Meddle, vars
    <2>2. \/ Resurvey \/ Restore \/ UNCHANGED <<pc, left>>
      BY DEF Next, Program, Cancel, CheckTargets, Prepare, PrepareFails, Recheck, RecheckFails,
         Announce, Operate, Verify, Record, Commit, Tidy, Rollback, Survey,
         RestoreRefused, VerifyRestored, CheckCreated, Unlink, Gone, Settle, Demand, Crash,
         Meddle, vars, Save, Fails
    <2>3. CASE Resurvey
      BY <2>1, <2>3 DEF Resurvey, Existing, Originals, Tracked
    <2>4. CASE Restore
      BY <2>1, <2>4 DEF Restore, MountsWhole, Originals, Tracked
    <2>5. CASE UNCHANGED <<pc, left>>
      BY <2>1, <2>5 DEF MountsWhole, Originals, Tracked
    <2> QED BY <2>2, <2>3, <2>4, <2>5
  <1>2. NewMountsWhole'
    <2>1. \/ Operate \/ Restore \/ Unlink \/ \E p \in Tracked : Meddle(p)
          \/ UNCHANGED <<plan, disk, meddled>>
      BY DEF Next, Program, Cancel, CheckTargets, Prepare, PrepareFails, Recheck, RecheckFails,
         Announce, Verify, Record, Commit, Tidy, Rollback, Survey, Resurvey,
         RestoreRefused, VerifyRestored, CheckCreated, Gone, Settle, Demand, Crash, vars
    <2>2. ASSUME NEW p \in Tracked, Meddle(p) PROVE NewMountsWhole'
      <3>1. /\ UNCHANGED plan /\ meddled' = meddled \cup {p}
            /\ \A q \in Tracked \ {p} : disk'[q] = disk[q]
        BY <2>2 DEF Meddle, TypeOK
      <3> QED BY <3>1 DEF MountsWhole, NewMountsWhole, Ours, Tracked
    <2> QED BY <2>1, <2>2, OperateWhole, UndoWhole, KeepsWhole DEF MountsWhole
  <1> QED BY <1>1, <1>2 DEF MountsWhole

(* A mount list that names a new archive finds its index and its payload whole *)
(* in every step forward and of every rollback, and so after a crash at any    *)
(* moment, whatever fails and whatever other files foreign programs write.     *)
THEOREM MountedIsWhole == Spec => []NewMountsWhole
  <1>1. Init => MountsWhole
    <2> SUFFICES ASSUME Init PROVE MountsWhole
      OBVIOUS
    <2>1. plan \in FirstMounts => disk["papgt"] = "old"
      BY FirstMountsMount DEF Init, Mounts
    <2> QED BY <2>1 DEF Init, MountsWhole, NewMountsWhole
  <1>2. TypeOK /\ TypeOK' /\ IInv /\ IInv' /\ MountsWhole /\ [Next]_vars => MountsWhole'
    BY MountsStep
  <1>3. MountsWhole => NewMountsWhole
    BY DEF MountsWhole
  <1> QED BY <1>1, <1>2, <1>3, TypeCorrect, Invariance, PTL DEF Spec
==============================================================================
