--------------------------- MODULE OverlayRecovery ---------------------------
(***************************************************************************)
(* One confirmed change to the game folder, carried out step by step under *)
(* OverlayTargetRecovery (services/overlay_target_recovery.py): overlay    *)
(* install, removal, migration, retirement and identity deletion all run   *)
(* their writes through it.  Every step is checked against the contents    *)
(* last known, announced in a journal on disk, carried out and verified;   *)
(* any error, cancellation or foreign contents ends in rollback().         *)
(*                                                                         *)
(* A plan gives the contents before of all its targets, the steps, and the *)
(* targets before whose steps the caller may still stop, whether it may    *)
(* come with and without a full backup, and whether the restore handed     *)
(* over with one confirms what it does.  A step is [after, from]: after    *)
(* maps each of its targets to the contents it shall have (Missing: no     *)
(* file), and from is the file it renames, None for a write or unlink.     *)
(*                                                                         *)
(* Any writer may fail before or after its effect (a replace that then     *)
(* raises), so may saving the journal, MaxFailures times; the process may  *)
(* crash anywhere; and a foreign program that knows no lane may write or   *)
(* delete any target at any moment, MaxMeddles times.                      *)
(***************************************************************************)
EXTENDS Naturals, Sequences

CONSTANTS Paths, Contents,  \* the files, and what this program puts in them
          Foreign,          \* what foreign programs put in them
          Missing, None,    \* no file; no journal, no renamed file
          Plans,            \* the changes a caller may ask for
          MaxMeddles,       \* bound on the writes of foreign programs
          MaxFailures       \* bound on the failures of this program's own

ASSUME ContentsAssumption ==
    Contents \cap Foreign = {} /\ Missing \notin Contents \cup Foreign

ASSUME BoundsAssumption == MaxMeddles \in Nat /\ MaxFailures \in Nat

Payloads == Contents \cup {Missing}

\* Whether f gives payloads to some of the given files.
Gives(f, files) == DOMAIN f \subseteq files /\ f \in [DOMAIN f -> Payloads]

ASSUME PlansAssumption ==
    \A p \in Plans :
        /\ Gives(p.before, Paths)
        /\ Len(p.steps) \in Nat \ {0} /\ DOMAIN p.steps = 1 .. Len(p.steps)
        /\ \A i \in DOMAIN p.steps : Gives(p.steps[i].after, DOMAIN p.before)
        /\ p.stops \subseteq Paths /\ p.confirms \in BOOLEAN
        /\ p.backups \subseteq BOOLEAN

\* Whether step i is the last of the first n that touch a file.
LastTouch(steps, n, file, i) ==
    /\ i \in 1 .. n /\ file \in DOMAIN steps[i].after
    /\ \A j \in 1 .. n : file \in DOMAIN steps[j].after => j <= i

\* The contents a file has after the first n steps.
AfterSteps(before, steps, n, file) ==
    IF \A i \in 1 .. n : file \notin DOMAIN steps[i].after THEN before[file]
    ELSE steps[CHOOSE i \in 1 .. n : LastTouch(steps, n, file, i)].after[file]

\* A rename moves one of its own targets, untouched so far, to the others.
ASSUME RenamesAssumption ==
    \A p \in Plans : \A i \in DOMAIN p.steps :
        LET step == p.steps[i]
        IN  step.from # None =>
                /\ step.from \in DOMAIN step.after /\ step.after[step.from] = Missing
                /\ \A file \in DOMAIN step.after \ {step.from} :
                       step.after[file] \in {p.before[step.from], Missing}
                /\ \A j \in 1 .. i - 1 : step.from \notin DOMAIN p.steps[j].after

\* Every change changes something.
ASSUME ChangesAssumption ==
    \A p \in Plans : \E file \in DOMAIN p.before :
        AfterSteps(p.before, p.steps, Len(p.steps), file) # p.before[file]

Status == {"prepared", "applying", "committed", "recovering", "rolled_back",
           "recovery_required"}

\* What the journal of a change can say.
Records(p) == [status : Status, afters : [DOMAIN p.before -> SUBSET Payloads]]

ASSUME NoneAssumption == \A p \in Plans : None \notin Records(p)

VARIABLES
    plan, external,    \* the change, and whether a full backup was made outside
    disk,              \* the contents of the targets
    copies, journal,   \* originals that are preserved; mutation-journal.json
    current,           \* self.current: the contents each target should have
    rows, afters,      \* self.rows: for the targets attempted the step of the
                       \* first attempt, and all contents steps may have left
    pc, at,            \* the next line to run, the step it belongs to
    changed, left,     \* rollback: what it found, the files it still has to do
    removing,          \* and the created one it is about to remove
    meddled, fresh,    \* history: targets in foreign hands, and those written
                       \* by them since the program last looked
    meddles, failures

files == <<disk, copies, journal>>
recovery == <<plan, external, current, rows, afters, at>>
undo == <<changed, left, removing>>
foreign == <<meddled, fresh, meddles>>
vars == <<files, recovery, undo, pc, foreign, failures>>

Final == {"done", "undone", "demanded", "crashed"}

Step == plan.steps[at]
Targets == DOMAIN Step.after
Tracked == DOMAIN plan.before
Originals == {p \in Tracked : plan.before[p] # Missing}

\* The contents p has when the whole change is in place.
After(p) == AfterSteps(plan.before, plan.steps, Len(plan.steps), p)

Attempted == DOMAIN rows

Nothing == [p \in {} |-> Missing]

Init ==
    /\ plan \in Plans
    /\ external \in plan.backups
    /\ disk = plan.before
    /\ current = plan.before
    /\ copies = {}
    /\ journal = None
    /\ rows = Nothing
    /\ afters = [p \in Tracked |-> {}]
    /\ pc = "check"
    /\ at = 1
    /\ changed = Nothing
    /\ left = {}
    /\ removing = None
    /\ meddled = {}
    /\ fresh = {}
    /\ meddles = 0
    /\ failures = 0

Looked(paths) ==
    /\ fresh' = fresh \ paths
    /\ UNCHANGED <<meddled, meddles>>

Proceeds(line) == pc' = line /\ UNCHANGED failures
Fails(line) == failures < MaxFailures /\ failures' = failures + 1 /\ pc' = line

\* _save: the journal is replaced whole.  It may fail before or after that.
Save(status, done, failed) ==
    LET saved == [status |-> status, afters |-> afters]
    IN  \/ journal' = saved /\ Proceeds(done)
        \/ journal' \in {journal, saved} /\ Fails(failed)

-----------------------------------------------------------------------------
(* mutate(): one step *)

\* A plausible slip: only whether the file is there is compared.
UntouchedExists(paths) ==
    \A p \in paths : (disk[p] = Missing) = (current[p] = Missing)

Untouched(paths) == \A p \in paths : disk[p] = current[p]

\* A plausible slip: a cancellation is always taken for one before the first
\* attempt, with nothing to undo.
CancelUnundone ==
    /\ pc = "check" /\ Targets \cap plan.stops # {}
    /\ Proceeds("restored")
    /\ UNCHANGED <<files, recovery, undo, foreign>>

\* The caller looks for a cancellation, or validates what it has staged,
\* before the step.
Cancel ==
    /\ pc = "check" /\ Targets \cap plan.stops # {}
    /\ Proceeds("rollback")
    /\ UNCHANGED <<files, recovery, undo, foreign>>

CheckTargets ==
    /\ pc = "check"
    /\ Proceeds(IF ~Untouched(Targets) THEN "rollback"
                ELSE IF journal = None THEN "prepare" ELSE "recheck")
    /\ Looked(Targets)
    /\ UNCHANGED <<files, recovery, undo>>

\* A plausible slip: only the first step's originals are preserved.
PrepareTargets ==
    /\ pc = "prepare"
    /\ external \/ Untouched(Originals)
    /\ copies' = Originals \cap Targets
    /\ Save("prepared", "recheck", "rollback")
    /\ UNCHANGED <<disk, recovery, undo, foreign>>

\* Verify the full backup, or copy every original: what is preserved must be
\* the contents before.  Then the journal appears.
Prepare ==
    /\ pc = "prepare"
    /\ external \/ Untouched(Originals)
    /\ copies' = Originals
    /\ Save("prepared", "recheck", "rollback")
    /\ UNCHANGED <<disk, recovery, undo, foreign>>

PrepareFails ==
    /\ pc = "prepare"
    /\ copies' \in SUBSET Originals
    /\ \/ ~external /\ ~Untouched(Originals) /\ Proceeds("rollback")
       \/ Fails("rollback")
    /\ UNCHANGED <<disk, journal, recovery, undo, foreign>>

\* A plausible slip: only what the latest step puts there is remembered.
RecheckForgets ==
    /\ pc = "recheck"
    /\ Untouched(Targets)
    /\ rows' = [p \in Attempted \cup Targets |-> IF p \in Attempted THEN rows[p] ELSE at]
    /\ afters' = [p \in Tracked |-> IF p \in Targets THEN {Step.after[p]} ELSE afters[p]]
    /\ Proceeds("announce")
    /\ Looked(Targets)
    /\ UNCHANGED <<files, plan, external, current, at, undo>>

\* Look again, since preparing takes time, and note the attempt.
Recheck ==
    /\ pc = "recheck"
    /\ Untouched(Targets)
    /\ rows' = [p \in Attempted \cup Targets |-> IF p \in Attempted THEN rows[p] ELSE at]
    /\ afters' = [p \in Tracked |-> IF p \in Targets
                                  THEN afters[p] \cup {Step.after[p]} ELSE afters[p]]
    /\ Proceeds("announce")
    /\ Looked(Targets)
    /\ UNCHANGED <<files, plan, external, current, at, undo>>

\* The targets changed meanwhile, or a cancellation before the first attempt.
RecheckFails ==
    /\ pc = "recheck"
    /\ Attempted = {} \/ ~Untouched(Targets)
    /\ Proceeds("rollback")
    /\ Looked(Targets)
    /\ UNCHANGED <<files, recovery, undo>>

\* A plausible slip: the attempt is noted in memory only, and the journal is
\* saved when the step is complete.
AnnounceInMemory ==
    /\ pc = "announce"
    /\ Proceeds("operate")
    /\ UNCHANGED <<files, recovery, undo, foreign>>

Announce ==
    /\ pc = "announce"
    /\ Save("applying", "operate", "rollback")
    /\ UNCHANGED <<disk, copies, recovery, undo, foreign>>

\* What the targets hold once the step took effect: a rename carries over
\* what the renamed file holds by then.
Effect ==
    [p \in Tracked |-> IF p \notin Targets THEN disk[p]
                     ELSE IF Step.from # None /\ Step.after[p] # Missing
                          THEN disk[Step.from] ELSE Step.after[p]]

\* A rename refuses to run without its source or over an existing file.
Possible ==
    Step.from # None =>
        /\ disk[Step.from] # Missing
        /\ \A p \in Targets \ {Step.from} : disk[p] = Missing

\* A rename of foreign contents takes its target into foreign hands, too.
Operate ==
    /\ pc = "operate"
    /\ \/ Possible /\ disk' = Effect /\ Proceeds("verify")
       \/ Possible /\ disk' = Effect /\ Fails("rollback")
       \/ disk' = disk /\ Fails("rollback")
       \/ ~Possible /\ disk' = disk /\ Proceeds("rollback")
    /\ LET carried == IF Step.from \in meddled /\ disk' # disk THEN Targets ELSE {}
       IN  meddled' = meddled \cup carried /\ fresh' = fresh \cup carried
    /\ UNCHANGED <<copies, journal, recovery, undo, meddles>>

Verify ==
    /\ pc = "verify"
    /\ IF \A p \in Targets : disk[p] = Step.after[p]
       THEN current' = [p \in Tracked |-> IF p \in Targets THEN Step.after[p] ELSE current[p]]
            /\ Proceeds("record")
       ELSE current' = current /\ Proceeds("rollback")
    /\ Looked(Targets)
    /\ UNCHANGED <<files, plan, external, rows, afters, at, undo>>

Record ==
    /\ pc = "record"
    /\ Save("applying", IF at = Len(plan.steps) THEN "commit" ELSE "check", "rollback")
    /\ at' = IF pc' = "check" THEN at + 1 ELSE at
    /\ UNCHANGED <<disk, copies, plan, external, current, rows, afters, undo, foreign>>

-----------------------------------------------------------------------------
(* committed() and rollback() *)

\* committed().  A caller's last validation fails here as well: retirement
\* and identity deletion look at the ledgers once more before it.
Commit ==
    /\ pc = "commit"
    /\ Save("committed", "committed", "rollback")
    /\ UNCHANGED <<disk, copies, recovery, undo, foreign>>

\* _cleanup: without a full backup outside, the change takes its own journal
\* and copies away with it, but for those that cannot be removed.
Tidy ==
    /\ pc \in {"committed", "restored"}
    /\ LET ended == IF pc = "committed" THEN "done" ELSE "undone"
       IN  \/ external /\ UNCHANGED <<copies, journal>> /\ Proceeds(ended)
           \/ ~external /\ copies' = {} /\ journal' = None /\ Proceeds(ended)
           \/ /\ ~external /\ copies' \in SUBSET copies /\ journal' \in {journal, None}
              /\ Fails(ended)
    /\ UNCHANGED <<disk, recovery, undo, foreign>>

Rollback ==
    /\ pc = "rollback"
    /\ IF Attempted = {} THEN Proceeds("restored") /\ journal' = journal
       ELSE Save("recovering", "survey", "demand")
    /\ UNCHANGED <<disk, copies, recovery, undo, foreign>>

\* _owned_changes: the attempted targets that are not as they were.  Contents
\* that no step of the change can have left are unknown.
OwnedChanges == {p \in Attempted : disk[p] # plan.before[p]}
AllKnown == \A p \in OwnedChanges : disk[p] \in afters[p]
Found == [p \in OwnedChanges |-> disk[p]]

Existing == DOMAIN changed \cap Originals
Created == DOMAIN changed \ Originals

\* The order of self.rows.
Earliest(p) == p \in left /\ \A q \in left : rows[p] <= rows[q]
Latest(p) == p \in left /\ \A q \in left : rows[q] <= rows[p]

Survey ==
    /\ pc = "survey"
    /\ \/ AllKnown /\ changed' = Found /\ Proceeds("resurvey")
       \/ ~AllKnown /\ changed' = changed /\ Proceeds("demand")
       \/ changed' = changed /\ Fails("demand")
    /\ Looked(Attempted)
    /\ UNCHANGED <<files, recovery, left, removing>>

\* Everything is looked at once more just before the scoped restore.  Without
\* an existing file to restore there is none.
Resurvey ==
    /\ pc = "resurvey"
    /\ IF Existing = {} \/ (AllKnown /\ Found = changed)
       THEN Proceeds("restore") /\ left' = Existing
       ELSE Proceeds("demand") /\ left' = left
    /\ IF Existing = {} THEN UNCHANGED foreign ELSE Looked(Attempted)
    /\ UNCHANGED <<files, recovery, changed, removing>>

\* The scoped restore copies the originals back, one file after the other.
\* With a full backup it is ArchiveMutationService.restore_backup, which
\* refuses to run unless it is called with confirmed=True.
Restore ==
    /\ pc = "restore"
    /\ plan.confirms \/ ~external
    /\ \E p \in left :
           /\ Earliest(p)
           /\ \/ /\ disk' = [disk EXCEPT ![p] = plan.before[p]]
                 /\ left' = left \ {p} /\ Proceeds(pc)
              \/ /\ disk' \in {disk, [disk EXCEPT ![p] = plan.before[p]]}
                 /\ left' = left /\ Fails("demand")
    /\ UNCHANGED <<copies, journal, recovery, changed, removing, foreign>>

RestoreRefused ==
    /\ pc = "restore" /\ left # {}
    /\ external /\ ~plan.confirms
    /\ Proceeds("demand")
    /\ UNCHANGED <<files, recovery, undo, foreign>>

\* A plausible slip: the files the change created are left behind.
LeavesCreated ==
    /\ pc = "restore" /\ left = {}
    /\ IF \A p \in Existing : disk[p] = plan.before[p]
       THEN Proceeds("remove") /\ left' = {}
       ELSE Proceeds("demand") /\ left' = left
    /\ Looked(Existing)
    /\ UNCHANGED <<files, recovery, changed, removing>>

VerifyRestored ==
    /\ pc = "restore" /\ left = {}
    /\ IF \A p \in Existing : disk[p] = plan.before[p]
       THEN Proceeds("remove") /\ left' = Created
       ELSE Proceeds("demand") /\ left' = left
    /\ Looked(Existing)
    /\ UNCHANGED <<files, recovery, changed, removing>>

\* Files the change created go last, the latest first, each after a look.
CheckCreated ==
    /\ pc = "remove"
    /\ \/ left = {} /\ Proceeds("settle") /\ UNCHANGED <<foreign, removing>>
       \/ \E p \in left :
              /\ Latest(p)
              /\ removing' = p
              /\ Proceeds(IF disk[p] = changed[p] THEN "unlink" ELSE "demand")
              /\ Looked({p})
    /\ UNCHANGED <<files, recovery, changed, left>>

Unlink ==
    /\ pc = "unlink"
    /\ LET removed == [disk EXCEPT ![removing] = Missing]
       IN  \/ disk' = removed /\ Proceeds("gone")
           \/ disk' \in {disk, removed} /\ Fails("demand")
    /\ UNCHANGED <<copies, journal, recovery, undo, foreign>>

Gone ==
    /\ pc = "gone"
    /\ IF disk[removing] = Missing THEN Proceeds("remove") /\ left' = left \ {removing}
       ELSE Proceeds("demand") /\ left' = left
    /\ removing' = None
    /\ Looked({removing})
    /\ UNCHANGED <<files, recovery, changed>>

Settle ==
    /\ pc = "settle"
    /\ Save("rolled_back", "restored", "demand")
    /\ UNCHANGED <<disk, copies, recovery, undo, foreign>>

\* Rollback gave up.  Saying so in the journal may fail as well.
Demand ==
    /\ pc = "demand"
    /\ Save("recovery_required", "demanded", "demanded")
    /\ UNCHANGED <<disk, copies, recovery, undo, foreign>>

-----------------------------------------------------------------------------
(* the surroundings *)

\* Nothing reads the journal back when the program starts again: it is there
\* for the user.
Crash ==
    /\ pc \notin Final
    /\ Proceeds("crashed")
    /\ UNCHANGED <<files, recovery, undo, foreign>>

Meddle(p) ==
    /\ pc \notin Final
    /\ meddles < MaxMeddles
    /\ meddles' = meddles + 1
    /\ \E contents \in (Foreign \cup {Missing}) \ {disk[p]} :
           disk' = [disk EXCEPT ![p] = contents]
    /\ meddled' = meddled \cup {p}
    /\ fresh' = fresh \cup {p}
    /\ UNCHANGED <<copies, journal, recovery, undo, pc, failures>>

Program ==
    \/ Cancel \/ CheckTargets \/ Prepare \/ PrepareFails \/ Recheck \/ RecheckFails
    \/ Announce \/ Operate \/ Verify \/ Record \/ Commit \/ Tidy \/ Rollback
    \/ Survey \/ Resurvey \/ Restore \/ RestoreRefused \/ VerifyRestored \/ CheckCreated
    \/ Unlink \/ Gone \/ Settle \/ Demand

Next == Program \/ Crash \/ \E p \in Tracked : Meddle(p)

Spec == Init /\ [][Next]_vars

-----------------------------------------------------------------------------
(* properties *)

Attempts == [Tracked -> SUBSET Payloads]

\* Every variable holds a value of its kind.
TypeOK ==
    /\ plan \in Plans /\ external \in BOOLEAN
    /\ disk \in [Tracked -> Payloads \cup Foreign]
    /\ copies \subseteq Originals
    /\ journal \in Records(plan) \cup {None}
    /\ current \in [Tracked -> Payloads]
    /\ Attempted \subseteq Tracked /\ \A p \in Attempted : rows[p] \in 1 .. Len(plan.steps)
    /\ afters \in Attempts
    /\ at \in 1 .. Len(plan.steps)
    /\ DOMAIN changed \subseteq Tracked /\ left \subseteq Tracked
    /\ removing \in Tracked \cup {None}
    /\ pc \in Final \cup {"check", "prepare", "recheck", "announce", "operate", "verify",
                          "record", "commit", "committed", "rollback", "survey",
                          "resurvey", "restore", "remove", "unlink", "gone", "settle",
                          "restored", "demand"}
    /\ fresh \subseteq meddled /\ meddled \subseteq Tracked
    /\ meddles \in 0 .. MaxMeddles /\ failures \in 0 .. MaxFailures

Ours == Tracked \ meddled
Disturbed == {p \in Ours : disk[p] # plan.before[p]}

\* Evidence precedes effect (mutate saves the journal before operation()):
\* at every moment, and so after a crash, every target the change has altered
\* is listed by the journal on disk with the very contents it holds, in a
\* status that does not say otherwise.
AttemptsJournalled ==
    pc # "done" =>
        \A p \in Disturbed :
            /\ journal # None
            /\ disk[p] \in journal.afters[p]
            /\ journal.status \notin {"prepared", "rolled_back"}

\* A journal that claims an end tells the truth, whichever save or cleanup
\* failed after it was written: "committed" means all targets hold their new
\* contents, "prepared" and "rolled_back" that they all hold their old ones.
JournalTruthful ==
    journal # None =>
        /\ journal.status = "committed" => \A p \in Ours : disk[p] = After(p)
        /\ journal.status \in {"prepared", "rolled_back"} => Disturbed = {}

\* As long as a target may have to be put back, its original is preserved:
\* also after a crash and after a rollback that gave up.
OriginalsKept ==
    pc # "done" => Disturbed \cap Originals \subseteq copies

\* The user has to recover files only after a second failure, one of the
\* rollback's own steps, or when a foreign program interfered: whatever ended
\* the change, the rollback recognises all it finds and does not give up by
\* itself.
GivesUpByItself ==
    pc # "demand" /\ pc' = "demand" /\ meddles = 0 /\ failures' = failures

GivesUpOnlyOnFailure == [][~GivesUpByItself]_vars

\* The same of the changes whose restore, as they hand it over, confirms what
\* it does.
ConfirmedGivesUpOnlyOnFailure == [][plan.confirms => ~GivesUpByItself]_vars

\* Foreign contents are overwritten or removed only if they arrived after the
\* program's last look at that target (the window the module's docstring
\* admits): neither a step nor the rollback destroys what it has seen.
ForeignSpared ==
    [][meddles' = meddles =>
           \A p \in Tracked : disk[p] \in Foreign /\ p \notin fresh => disk'[p] = disk[p]]_vars

\* The change keeps the promise of RecoverableChange.
Change == INSTANCE RecoverableChange
    WITH whole <- \A p \in Ours : disk[p] = After(p),
         untouched <- Disturbed = {},
         evidence <- journal # None /\ journal.status # "prepared",
         verdict <- IF pc \in Final THEN pc ELSE "open"

ChangeSpec == Change!Spec

==============================================================================
