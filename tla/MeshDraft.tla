------------------------------ MODULE MeshDraft ------------------------------
(***************************************************************************)
(* The saved draft of one mesh editing session and its autosave.           *)
(*                                                                         *)
(* Every accepted edit arms a timer; the timer starts a worker thread; the *)
(* worker writes a complete generation beside the earlier ones and then    *)
(* points the project at it.  Edits, closing and the builder of a mod take *)
(* the session's export lock, timers and the duplication of a draft do     *)
(* not.  A save can fail or be cancelled between any two of its steps, the *)
(* program can die, and a generation can be damaged on disk.  The mesh and *)
(* the View ticks stand for everything a generation holds; the draft's     *)
(* name and notes, kept in its manifest, are left out.                     *)
(***************************************************************************)
EXTENDS Naturals

CONSTANTS
    None,
    MaxChanges,     \* bound: edits, View changes and shape restores
    MaxCopies,      \* bound: built mods and duplicates
    MaxOpens,       \* bound: sessions
    MaxMishaps,     \* bound: failing file operations, damaged generations, deaths
    Timers,         \* bound: timers that can be armed or running at once
    Workers         \* bound: autosave threads that can be alive at once

ASSUME BoundsAssumption ==
    {MaxChanges, MaxCopies, MaxOpens, MaxMishaps} \subseteq Nat

Stages == {"none", "armed", "called", "launching"}

Runs == [key : Nat \cup {None}, stage : {"waiting", "saving", "failed"}, stop : BOOLEAN]

Steps == {"generation", "descriptor", "prune", "finish"}

Generations == [mesh : Nat, view : Nat, whole : BOOLEAN]

Pairs == [current : Nat, previous : Nat \cup {None}]

Previews == [back : Nat, pending : BOOLEAN]

Copies == [kind : {"built", "duplicate"}, step : {"read", "list", "files", "record"},
           keep : SUBSET Nat, pair : Pairs \cup {None}, saves : 0 .. 2, of : Nat \cup {None}]

ASSUME NoneAssumption ==
    /\ None \notin Nat \cup Timers \cup Workers \cup {"close", "build"} \cup Steps
    /\ None \notin Runs \cup Pairs \cup Previews \cup Copies
    /\ Workers \cap {"close", "build"} = {}

VARIABLES
    session,    \* "open", "closed", "discarded", or "gone" with the program
    work,       \* what the session holds: [mesh, view]
    revision,   \* its key: mesh and layer revision
    requested, saved,   \* the autosave's two keys; nothing requested yet is None
    error,      \* an autosave error is shown
    warned,     \* history: a build said that the draft could not be kept
    preview,    \* a shape restore waiting for Apply or Cancel, or None
    timers, timer,      \* stage of every timer, and the session's own
    workers, worker,    \* every autosave thread, and the session's own
    lock,       \* who holds export_lock: a worker, "close" or "build"
    save,       \* the step of the lock holder's save, None outside
    gens,       \* the generation of every id on disk: [mesh, view, whole]
    descriptor, \* mesh_layer_project.json: [current, previous] or None
    copy,       \* the copy of the draft being made, or None
    took,       \* the generations copied so far
    promised,   \* history: contents of the two latest completed saves
    previewed,  \* history: a shape restore was tried
    changes, copies, opens, mishaps, nextGen

memory  == <<work, revision, requested, saved, error, warned, preview>>
threads == <<timers, timer, workers, worker>>
holding == <<lock, save>>
disk    == <<gens, descriptor>>
copying == <<copy, took>>
bounds  == <<previewed, changes, copies, opens, mishaps, nextGen>>
vars    == <<session, memory, threads, holding, disk, copying, promised, bounds>>

Open == session = "open"

Nothing == [i \in {} |-> None]

NoCopy == copy' = None /\ took' = Nothing

Mishap == mishaps < MaxMishaps /\ mishaps' = mishaps + 1
-----------------------------------------------------------------------------
Ids == DOMAIN gens

Damaged == \E i \in Ids : ~gens[i].whole

(* What a project restores: its newest intact generation, else the fallback. *)
Intact(id, generations) == id \in DOMAIN generations /\ generations[id].whole

Broken == [mesh |-> None, view |-> None]

Restores(pair, generations) ==
    LET Content(id) == [mesh |-> generations[id].mesh, view |-> generations[id].view]
    IN  IF pair = None THEN [mesh |-> 0, view |-> 0]
        ELSE IF Intact(pair.current, generations) THEN Content(pair.current)
        ELSE IF Intact(pair.previous, generations) THEN Content(pair.previous)
        ELSE Broken

OnDisk == Restores(descriptor, gens)

Init ==
    /\ session = "open" /\ work = [mesh |-> 0, view |-> 0]
    /\ revision = 0 /\ requested = None /\ saved = 0
    /\ error = FALSE /\ warned = FALSE /\ preview = None
    /\ timers = [t \in Timers |-> "none"] /\ timer = None
    /\ workers = [w \in Workers |-> None] /\ worker = None
    /\ lock = None /\ save = None
    /\ gens = Nothing /\ descriptor = None
    /\ copy = None /\ took = Nothing /\ promised = [last |-> 0, before |-> 0]
    /\ previewed = FALSE /\ changes = 0 /\ copies = 0
    /\ opens = 1 /\ mishaps = 0 /\ nextGen = 1
-----------------------------------------------------------------------------
(* Cancelling only helps while the timer has not called its function. *)
TimerCancelled ==
    IF timer # None /\ timers[timer] = "armed"
      THEN [timers EXCEPT ![timer] = "none"] ELSE timers

WorkerStopped ==
    IF worker # None /\ workers[worker] # None
      THEN [workers EXCEPT ![worker].stop = TRUE] ELSE workers

CanArm == \E t \in Timers : TimerCancelled[t] = "none"

(* _schedule_mesh_layer_autosave for the key `rev`. *)
Schedule(rev) ==
    LET t == CHOOSE t \in Timers : TimerCancelled[t] = "none"
    IN  /\ requested' = rev /\ error' = FALSE /\ warned' = FALSE
        /\ timers' = [TimerCancelled EXCEPT ![t] = "armed"]
        /\ timer' = t
        /\ workers' = WorkerStopped
        /\ UNCHANGED worker

Unscheduled == UNCHANGED <<requested, error, warned, threads>>

(* Every editing command runs under the export lock. *)
Editing == Open /\ lock = None /\ CanArm

Change == Editing /\ preview = None /\ changes < MaxChanges /\ changes' = changes + 1

Edit ==
    /\ Change
    /\ work' = [work EXCEPT !.mesh = changes']
    /\ revision' = revision + 1
    /\ Schedule(revision')
    /\ UNCHANGED <<session, saved, preview, holding, disk, copying, promised, previewed, copies,
                   opens, mishaps, nextGen>>

(* A plausible slip: no new revision, so nothing to save. *)
ChangeViewUnsaved ==
    /\ Change
    /\ work' = [work EXCEPT !.view = changes']
    /\ UNCHANGED <<session, revision, requested, saved, error, warned, preview, threads, holding,
                   disk, copying, promised, previewed, copies, opens, mishaps, nextGen>>

(* The View ticks of a Finish: saved with the draft, but no new revision. *)
ChangeView ==
    /\ Change
    /\ work' = [work EXCEPT !.view = changes']
    /\ Schedule(revision)
    /\ UNCHANGED <<session, revision, saved, preview, holding, disk, copying, promised, previewed, copies,
                   opens, mishaps, nextGen>>

(* The previewed shape is shown and must not be saved.  A preview that fails
   after it changed the mesh rolls back under the same lock. *)
PreviewRestore(shown) ==
    /\ Change
    /\ previewed' = TRUE
    /\ revision' = revision + 1
    /\ IF shown
         THEN /\ work' = [work EXCEPT !.mesh = changes']
              /\ preview' = [back |-> work.mesh, pending |-> requested # saved]
         ELSE UNCHANGED <<work, preview>>
    /\ Unscheduled
    /\ UNCHANGED <<session, saved, holding, disk, copying, promised, copies, opens,
                   mishaps, nextGen>>

ApplyRestore ==
    /\ Editing /\ preview # None
    /\ preview' = None
    /\ revision' = revision + 1
    /\ Schedule(revision')
    /\ UNCHANGED <<session, work, saved, holding, disk, copying, promised, bounds>>

CancelRestore ==
    /\ Editing /\ preview # None
    /\ preview' = None
    /\ work' = [work EXCEPT !.mesh = preview.back]
    /\ revision' = revision + 1
    /\ IF preview.pending THEN Schedule(revision') ELSE Unscheduled
    /\ UNCHANGED <<session, saved, holding, disk, copying, promised, bounds>>
-----------------------------------------------------------------------------
(* The timer's thread: _start_mesh_layer_autosave, without the lock. *)
TimerFires(t) ==
    /\ timers[t] = "armed"
    /\ timers' = [timers EXCEPT ![t] = "called"]
    /\ UNCHANGED <<session, memory, timer, workers, worker, holding, disk, copying, promised, bounds>>

(* A plausible slip: a worker that is still alive is left to it. *)
StartAutosaveOnce(t) ==
    /\ timers[t] = "called"
    /\ timers' = [timers EXCEPT ![t] =
            IF Open /\ (worker # None => workers[worker] = None) THEN "launching" ELSE "none"]
    /\ UNCHANGED <<session, memory, timer, workers, worker, holding, disk, copying, promised, bounds>>

(* A worker that is still alive is told to stop, and asked for again. *)
StartAutosave(t) ==
    /\ timers[t] = "called"
    /\ IF ~Open
         THEN timers' = [timers EXCEPT ![t] = "none"] /\ UNCHANGED <<timer, workers>>
       ELSE IF worker # None /\ workers[worker] # None
         THEN /\ workers' = WorkerStopped
              /\ timers' = [timers EXCEPT ![t] = "armed"] /\ timer' = t
         ELSE timers' = [timers EXCEPT ![t] = "launching"] /\ UNCHANGED <<timer, workers>>
    /\ UNCHANGED <<session, memory, worker, holding, disk, copying, promised, bounds>>

LaunchWorker(t) ==
    /\ timers[t] = "launching"
    /\ \E w \in Workers : workers[w] = None
    /\ LET w == CHOOSE w \in Workers : workers[w] = None
       IN  /\ workers' = [workers EXCEPT ![w] =
                            [key |-> requested, stage |-> "waiting", stop |-> FALSE]]
           /\ worker' = w
    /\ timers' = [timers EXCEPT ![t] = "none"]
    /\ UNCHANGED <<session, memory, timer, holding, disk, copying, promised, bounds>>

(* What makes a worker that got the lock return without saving. *)
Superseded(w) == ~Open \/ workers[w].key # requested \/ preview # None

WorkerEnters(w) ==
    /\ workers[w] # None /\ lock = None
    /\ workers[w].stage = "waiting"
    /\ IF Superseded(w)
         THEN workers' = [workers EXCEPT ![w] = None] /\ UNCHANGED holding
         ELSE /\ workers' = [workers EXCEPT ![w].stage = "saving"]
              /\ lock' = w /\ save' = "generation"
    /\ UNCHANGED <<session, memory, timers, timer, worker, disk, copying, promised, bounds>>

(* The lock is taken again to show the error, unless a newer edit came. *)
WorkerReports(w) ==
    /\ workers[w] # None /\ lock = None
    /\ workers[w].stage = "failed"
    /\ error' = (error \/ workers[w].key = requested)
    /\ workers' = [workers EXCEPT ![w] = None]
    /\ UNCHANGED <<session, work, revision, requested, saved, warned, preview, timers, timer, worker,
                   holding, disk, copying, promised, bounds>>
-----------------------------------------------------------------------------
(* _save_mesh_layer_project_locked, one action per durable step. *)
Stoppable == lock \in Workers /\ workers[lock].stop

WriteGeneration ==
    /\ save = "generation" /\ ~Stoppable
    /\ gens' = [i \in Ids \cup {nextGen} |->
                  IF i = nextGen THEN [mesh |-> work.mesh, view |-> work.view, whole |-> TRUE]
                  ELSE gens[i]]
    /\ nextGen' = nextGen + 1
    /\ save' = "descriptor"
    /\ UNCHANGED <<session, memory, threads, lock, descriptor, copying, promised,
                   previewed, changes, copies, opens, mishaps>>

(* The stop is asked for once more just before; it can come after that. *)
WriteDescriptor ==
    /\ save = "descriptor"
    /\ descriptor' = [current  |-> nextGen - 1,
                      previous |-> IF descriptor = None THEN None ELSE descriptor.current]
    /\ copy' = IF copy = None THEN None ELSE [copy EXCEPT !.saves = IF @ < 2 THEN @ + 1 ELSE @]
    /\ save' = "prune"
    /\ UNCHANGED <<session, memory, threads, lock, gens, took, promised, bounds>>

(* A plausible slip: whatever is older than the new generation goes. *)
PruneFallback ==
    /\ save = "prune"
    /\ gens' = [i \in {j \in Ids : j >= descriptor.current} |-> gens[i]]
    /\ save' = "finish"
    /\ UNCHANGED <<session, memory, threads, lock, descriptor, copying, promised, bounds>>

(* Generations older than the fallback go; one that resists is left behind. *)
PruneGenerations ==
    /\ save = "prune"
    /\ LET old == IF descriptor.previous = None THEN {}
                  ELSE {i \in Ids : i < descriptor.previous}
       IN  \/ gens' = [i \in Ids \ old |-> gens[i]] /\ UNCHANGED mishaps
           \/ old # {} /\ Mishap /\ UNCHANGED gens
    /\ save' = "finish"
    /\ UNCHANGED <<session, memory, threads, lock, descriptor, copying, promised,
                   previewed, changes, copies, opens, nextGen>>

(* The manifest is refreshed under its own lock, then the session is saved. *)
FinishSave ==
    /\ save = "finish"
    /\ saved' = revision /\ error' = FALSE /\ warned' = FALSE
    /\ promised' = [last |-> work.mesh, before |-> promised.last]
    /\ save' = None
    /\ lock' = IF lock = "build" THEN lock ELSE None
    /\ workers' = IF lock \in Workers THEN [workers EXCEPT ![lock] = None] ELSE workers
    /\ session' = IF lock = "close" THEN "closed" ELSE session
    /\ UNCHANGED <<work, revision, requested, preview, timers, timer, worker, disk, copying, bounds>>

(* A save that was told to stop ends silently: somebody newer is coming. *)
SaveCancelled ==
    /\ save \in {"generation", "descriptor"} /\ Stoppable
    /\ workers' = [workers EXCEPT ![lock] = None]
    /\ lock' = None /\ save' = None
    /\ UNCHANGED <<session, memory, timers, timer, worker, disk, copying, promised, bounds>>

(* An error keeps what is on disk; each caller answers for it. *)
SaveFails ==
    /\ save \in {"generation", "descriptor", "finish"}
    /\ Mishap
    /\ lock' = None /\ save' = None
    /\ workers' = IF lock \in Workers THEN [workers EXCEPT ![lock].stage = "failed"] ELSE workers
    /\ error' = (error \/ lock = "close")
    /\ warned' = (warned \/ lock = "build")
    /\ IF lock = "build" THEN NoCopy ELSE UNCHANGED copying
    /\ UNCHANGED <<session, work, revision, requested, saved, preview, timers, timer, worker, disk,
                   promised, previewed, changes, copies, opens, nextGen>>
-----------------------------------------------------------------------------
(* A plausible slip: what was asked for is taken for saved. *)
CloseRequested ==
    /\ Open /\ lock = None
    /\ IF requested # None /\ requested = revision
         THEN session' = "closed" /\ UNCHANGED holding
         ELSE lock' = "close" /\ save' = "generation" /\ UNCHANGED session
    /\ work' = IF preview = None THEN work ELSE [work EXCEPT !.mesh = preview.back]
    /\ preview' = None
    /\ timers' = TimerCancelled
    /\ workers' = WorkerStopped
    /\ UNCHANGED <<revision, requested, saved, error, warned, timer, worker, disk, copying,
                   promised, bounds>>

(* A preview is cancelled, the autosave called off, and what is not saved is
   saved by the closing thread before the session ends. *)
Close ==
    /\ Open /\ lock = None
    /\ LET rev == IF preview = None THEN revision ELSE revision + 1
           scheduled == preview # None /\ preview.pending
       IN  /\ revision' = rev
           /\ work' = IF preview = None THEN work ELSE [work EXCEPT !.mesh = preview.back]
           /\ requested' = IF scheduled THEN rev ELSE requested
           /\ error' = (error /\ ~scheduled)
           /\ IF rev # saved
                THEN lock' = "close" /\ save' = "generation" /\ UNCHANGED session
                ELSE session' = "closed" /\ UNCHANGED holding
    /\ preview' = None
    /\ timers' = TimerCancelled
    /\ workers' = WorkerStopped
    /\ UNCHANGED <<saved, warned, timer, worker, disk, copying, promised, bounds>>

(* Closing without saving, as the user was asked to confirm. *)
Discard ==
    /\ Open /\ lock = None
    /\ session' = "discarded" /\ preview' = None
    /\ timers' = TimerCancelled
    /\ workers' = WorkerStopped
    /\ UNCHANGED <<work, revision, requested, saved, error, warned, timer, worker, holding, disk, copying,
                   promised, bounds>>

(* A draft on disk is opened again; the old session's threads find it gone. *)
Reopen ==
    /\ ~Open /\ lock = None /\ opens < MaxOpens
    /\ descriptor # None /\ OnDisk # Broken
    /\ opens' = opens + 1
    /\ session' = "open" /\ work' = OnDisk
    /\ revision' = 0 /\ requested' = None /\ saved' = 0
    /\ error' = FALSE /\ warned' = FALSE /\ preview' = None
    /\ timers' = [t \in Timers |-> "none"] /\ timer' = None
    /\ workers' = [w \in Workers |-> None] /\ worker' = None
    /\ promised' = IF OnDisk.mesh < promised.last
                     THEN [last |-> OnDisk.mesh, before |-> OnDisk.mesh] ELSE promised
    /\ UNCHANGED <<holding, disk, copying, previewed, changes, copies,
                   mishaps, nextGen>>
-----------------------------------------------------------------------------
(* `of` and `saves` are history: what is copied, and saves completed since. *)
NewCopy(kind, of) ==
    [kind |-> kind, step |-> "read", keep |-> {}, pair |-> None,
     saves |-> 0, of |-> of]

(* A plausible slip: only a running timer is taken for unsaved work. *)
BuildTimerOnly ==
    /\ Open /\ lock = None /\ preview = None
    /\ copy = None /\ copies < MaxCopies
    /\ copies' = copies + 1
    /\ copy' = NewCopy("built", work.mesh) /\ took' = Nothing
    /\ lock' = "build"
    /\ IF timer # None /\ timers[timer] # "none"
         THEN requested' = revision /\ save' = "generation"
         ELSE UNCHANGED <<requested, save>>
    /\ UNCHANGED <<session, work, revision, saved, error, warned, preview, threads, disk, promised,
                   previewed, changes, opens, mishaps, nextGen>>

(* Freezing the draft of a built mod: saved first unless it surely is, and
   copied while the lock is still held. *)
Build ==
    /\ Open /\ lock = None /\ preview = None
    /\ copy = None /\ copies < MaxCopies
    /\ copies' = copies + 1
    /\ copy' = NewCopy("built", work.mesh) /\ took' = Nothing
    /\ lock' = "build"
    /\ IF saved # revision \/ descriptor = None \/ (timer # None /\ timers[timer] # "none")
         THEN requested' = revision /\ save' = "generation"
         ELSE UNCHANGED <<requested, save>>
    /\ UNCHANGED <<session, work, revision, saved, error, warned, preview, threads, disk, promised,
                   previewed, changes, opens, mishaps, nextGen>>

(* Duplicating a draft of the list takes no lock, open or not; the list shows
   drafts that have a project file. *)
Duplicate ==
    /\ session # "gone" /\ descriptor # None
    /\ copy = None /\ copies < MaxCopies
    /\ copies' = copies + 1
    /\ copy' = NewCopy("duplicate", OnDisk.mesh) /\ took' = Nothing
    /\ UNCHANGED <<session, memory, threads, holding, disk, promised,
                   previewed, changes, opens, mishaps, nextGen>>

Copying(step) ==
    /\ copy # None /\ copy.step = step
    /\ copy.kind = "built" => lock = "build" /\ save = None

NamedBy(pair) == IF pair = None THEN {} ELSE {pair.current, pair.previous} \ {None}

(* The two generations the project names are kept, ... *)
CopyReads ==
    /\ Copying("read")
    /\ copy' = [copy EXCEPT !.step = "list", !.keep = NamedBy(descriptor)]
    /\ UNCHANGED <<session, memory, threads, holding, disk, took, promised, bounds>>

(* ... as far as the folder lists them afterwards. *)
CopyLists ==
    /\ Copying("list")
    /\ copy' = [copy EXCEPT !.step = "files", !.keep = @ \cap Ids]
    /\ UNCHANGED <<session, memory, threads, holding, disk, took, promised, bounds>>

(* Files are copied in the order of their names: the oldest generation first,
   the project file last.  A listed file that is gone ends the copy. *)
CopyGeneration ==
    /\ Copying("files") /\ copy.keep # {}
    /\ LET id == CHOOSE i \in copy.keep : \A j \in copy.keep : i <= j
       IN  IF id \in Ids
             THEN /\ copy' = [copy EXCEPT !.keep = @ \ {id}]
                  /\ took' = [i \in DOMAIN took \cup {id} |->
                                IF i = id THEN gens[id] ELSE took[i]]
                  /\ UNCHANGED lock
             ELSE NoCopy /\ lock' = IF copy.kind = "built" THEN None ELSE lock
    /\ UNCHANGED <<session, memory, threads, save, disk, promised, bounds>>

CopyProject ==
    /\ Copying("files") /\ copy.keep = {}
    /\ copy' = [copy EXCEPT !.step = "record", !.pair = descriptor]
    /\ UNCHANGED <<session, memory, threads, holding, disk, took, promised, bounds>>

(* The copy's own manifest makes it a draft, or the index a built mod's. *)
RecordCopy ==
    /\ Copying("record")
    /\ NoCopy
    /\ lock' = IF copy.kind = "built" THEN None ELSE lock
    /\ UNCHANGED <<session, memory, threads, save, disk, promised, bounds>>

(* A copy that fails takes its target away again. *)
CopyFails ==
    /\ \E step \in {"read", "list", "files", "record"} : Copying(step)
    /\ Mishap
    /\ NoCopy
    /\ lock' = IF copy.kind = "built" THEN None ELSE lock
    /\ UNCHANGED <<session, memory, threads, save, disk, promised,
                   previewed, changes, copies, opens, nextGen>>
-----------------------------------------------------------------------------
(* A file of a generation is changed or lost on disk. *)
Damage ==
    /\ Mishap
    /\ \E i \in Ids : gens' = [gens EXCEPT ![i].whole = FALSE]
    /\ UNCHANGED <<session, memory, threads, holding, descriptor, copying, promised,
                   previewed, changes, copies, opens, nextGen>>

Crash ==
    /\ Open /\ Mishap
    /\ session' = "gone"
    /\ timers' = [t \in Timers |-> "none"] /\ timer' = None
    /\ workers' = [w \in Workers |-> None] /\ worker' = None
    /\ lock' = None /\ save' = None /\ preview' = None
    /\ NoCopy
    /\ UNCHANGED <<work, revision, requested, saved, error, warned, disk, promised,
                   previewed, changes, copies, opens, nextGen>>
-----------------------------------------------------------------------------
User ==
    \/ Edit \/ ChangeView \/ ApplyRestore \/ CancelRestore
    \/ \E shown \in BOOLEAN : PreviewRestore(shown)
    \/ Close \/ Discard \/ Reopen \/ Build \/ Duplicate

Timer(t) == TimerFires(t) \/ StartAutosave(t) \/ LaunchWorker(t)

Worker(w) == WorkerEnters(w) \/ WorkerReports(w)

Saving ==
    \/ WriteGeneration \/ WriteDescriptor \/ PruneGenerations
    \/ FinishSave \/ SaveCancelled \/ SaveFails

CopyStep ==
    \/ CopyReads \/ CopyLists \/ CopyGeneration \/ CopyProject
    \/ RecordCopy \/ CopyFails

Next ==
    \/ User
    \/ \E t \in Timers : Timer(t)
    \/ \E w \in Workers : Worker(w)
    \/ Saving \/ CopyStep
    \/ Damage \/ Crash

Spec == Init /\ [][Next]_vars

(* Some timer, some worker and the step in progress run on, less than what the
   threads promise; nothing is asked of the user. *)
Fairness ==
    /\ WF_vars(\E t \in Timers : Timer(t))
    /\ WF_vars(\E w \in Workers : Worker(w))
    /\ WF_vars(Saving \/ CopyStep)

FairSpec == Spec /\ Fairness
-----------------------------------------------------------------------------
TypeOK ==
    /\ session \in {"open", "closed", "discarded", "gone"}
    /\ work \in [mesh : Nat, view : Nat]
    /\ revision \in Nat /\ requested \in Nat \cup {None} /\ saved \in Nat
    /\ error \in BOOLEAN /\ warned \in BOOLEAN
    /\ preview \in Previews \cup {None}
    /\ timers \in [Timers -> Stages] /\ timer \in Timers \cup {None}
    /\ workers \in [Workers -> Runs \cup {None}] /\ worker \in Workers \cup {None}
    /\ lock \in Workers \cup {"close", "build", None} /\ save \in Steps \cup {None}
    /\ Ids \subseteq Nat /\ gens \in [Ids -> Generations]
    /\ descriptor \in Pairs \cup {None}
    /\ copy \in Copies \cup {None}
    /\ DOMAIN took \subseteq Nat /\ took \in [DOMAIN took -> Generations]
    /\ promised \in [last : Nat, before : Nat]
    /\ previewed \in BOOLEAN
    /\ {changes, copies, opens, mishaps} \subseteq Nat /\ nextGen \in Nat \ {0}

OneDamaged == \A i, j \in Ids : ~gens[i].whole /\ ~gens[j].whole => i = j

(* A save that was reported complete stays restorable, whatever fails, dies
   or is cancelled afterwards; with one generation damaged, the save before
   it is. *)
DraftKept ==
    /\ ~Damaged => OnDisk # Broken /\ OnDisk.mesh >= promised.last
    /\ OneDamaged /\ promised.before # 0 => OnDisk # Broken /\ OnDisk.mesh >= promised.before

(* A session that closed without being told to discard is on disk. *)
ClosedMeansSaved ==
    session = "closed" /\ ~Damaged => OnDisk.mesh = work.mesh

(* While a session is open, a mesh that is not on disk is either on its way
   there or shown as not saved. *)
NothingSilentlyUnsaved ==
    Open /\ preview = None /\ ~Damaged /\ OnDisk.mesh # work.mesh =>
        \/ error \/ warned \/ lock # None
        \/ \E t \in Timers : timers[t] # "none"
        \/ \E w \in Workers : workers[w] # None

(* What was frozen beside a built mod is what was built; a duplicate opens,
   no older than the draft it was made from - unless two saves completed
   while it was copied, which nothing prevents. *)
CopiesLoad ==
    copy # None /\ copy.step = "record" /\ ~Damaged =>
        LET restored == Restores(copy.pair, took)
        IN  IF copy.kind = "built" THEN restored.mesh = copy.of
            ELSE copy.saves < 2 => restored # Broken /\ restored.mesh >= copy.of

(* Everything accepted reaches the disk or an error is shown. *)
EditsReachDisk ==
    (Open /\ OnDisk # work) ~>
        \/ OnDisk.mesh = work.mesh /\ (~previewed => OnDisk.view = work.view)
        \/ error \/ warned \/ ~Open \/ preview # None \/ Damaged
==============================================================================
