--------------------------- MODULE MeshDraftProofs ---------------------------
(***************************************************************************)
(* What the autosave of mesh drafts promises, for any number of edits,     *)
(* timers, autosave threads, sessions, copies and failures.                *)
(*                                                                         *)
(* One holder of the export lock saves at a time (Locking); the project    *)
(* names generations that are there, the newest one ahead of its fallback  *)
(* (Layout); they hold what was promised (Keeping); the two keys of the    *)
(* autosave tell whether they hold what the session holds (Keys).  On top  *)
(* of these three, Store: a copy still has what the project will restore   *)
(* (Built, Copied), and a mesh that is not saved has somebody who will     *)
(* save it or say so (Noticed).                                            *)
(***************************************************************************)
EXTENDS MeshDraft, TLAPS

(* What the session holds for keeps: not a shape that is only shown. *)
Kept == IF preview = None THEN work.mesh ELSE preview.back

Current == descriptor.current
Fallback == descriptor.previous

(* The project restores the mesh m, unless its newest generation is damaged. *)
SavedIs(m) ==
    IF descriptor = None THEN m = 0
    ELSE gens[Current].whole => gens[Current].mesh = m

Locking ==
    /\ save # None => lock # None
    /\ lock # None => Open /\ preview = None
    /\ lock # None /\ lock # "build" => save # None
    /\ lock = "build" <=> copy # None /\ copy.kind = "built"
    /\ \A w \in Workers :
        /\ lock = w => workers[w] # None /\ workers[w].stage = "saving"
        /\ workers[w] # None /\ workers[w].stage = "saving" =>
            lock = w /\ workers[w].key = requested

Layout ==
    /\ \A i \in Ids : i < nextGen /\ gens[i].mesh <= changes
    /\ descriptor # None =>
        /\ Current \in Ids
        /\ Fallback # None => Fallback \in Ids /\ Fallback < Current
    /\ save = "descriptor" =>
        /\ nextGen - 1 \in Ids /\ gens[nextGen - 1].mesh = work.mesh
        /\ descriptor # None => Current < nextGen - 1
    /\ save \in {"prune", "finish"} => descriptor # None /\ gens[Current].mesh = work.mesh

Keeping ==
    /\ promised.before <= promised.last
    /\ descriptor = None => promised.last = 0
    /\ descriptor # None =>
        /\ gens[Current].whole => gens[Current].mesh >= promised.last
        /\ Fallback = None => promised.before = 0
        /\ Fallback # None /\ gens[Fallback].whole => gens[Fallback].mesh >= promised.before
    /\ save \in {"prune", "finish"} =>
        IF Fallback = None THEN promised.last = 0
        ELSE gens[Fallback].whole => gens[Fallback].mesh >= promised.last
    /\ Open =>
        /\ promised.last <= Kept /\ Kept <= work.mesh /\ work.mesh <= changes
        /\ descriptor # None /\ gens[Current].whole => gens[Current].mesh <= Kept

Keys ==
    /\ saved <= revision
    /\ preview # None => Open /\ saved < revision /\ preview.pending = (requested # saved)
    /\ session \in {"open", "closed"} /\ saved = revision => SavedIs(work.mesh)
    /\ Open /\ requested = saved => SavedIs(Kept)
    /\ session = "closed" => saved = revision

(* What the disk holds, for the session and for what was promised. *)
Store == Layout /\ Keeping /\ Keys

(* What is frozen beside a built mod is what was built, and saved by now. *)
Built ==
    copy # None /\ copy.kind = "built" =>
        /\ copy.of = work.mesh
        /\ save # None => copy.step = "read"
        /\ save = None => saved = revision /\ descriptor # None

(* The generation that a copy must not miss: with one save completed since
   the copy began, what is the fallback now. *)
Anchor == IF copy.kind = "duplicate" /\ copy.saves = 1 THEN Fallback ELSE Current

Copied ==
    copy # None =>
        /\ \A i \in DOMAIN took :
            i < nextGen /\ (i \in Ids =>
                took[i].mesh = gens[i].mesh /\ (gens[i].whole => took[i].whole))
        /\ copy.kind = "duplicate" =>
            /\ descriptor # None
            /\ copy.saves = 0 /\ gens[Current].whole =>
                copy.of \in Nat /\ gens[Current].mesh >= copy.of
            /\ copy.saves = 1 =>
                /\ Fallback # None
                /\ gens[Fallback].whole =>
                    gens[Fallback].mesh >= copy.of /\ gens[Current].mesh >= copy.of
        /\ (copy.kind = "duplicate" => copy.saves < 2) =>
            /\ copy.step = "list" => Anchor \in copy.keep
            /\ copy.step = "files" => Anchor \in copy.keep \cup DOMAIN took
            /\ copy.step = "record" =>
                /\ Anchor \in DOMAIN took
                /\ copy.pair # None
                /\ copy.pair = descriptor \/ (Anchor # Current /\ copy.pair.current = Anchor)

(* Somebody will save what the session holds, or says that it is not saved. *)
Live ==
    \/ error \/ warned \/ lock \in {"close", "build"}
    \/ \E t \in Timers : timers[t] # "none"
    \/ \E w \in Workers :
        /\ workers[w] # None /\ workers[w].key = requested
        /\ workers[w].stage = "failed" \/ ~workers[w].stop

Noticed == Open /\ preview = None /\ ~SavedIs(work.mesh) => Live
-----------------------------------------------------------------------------
LEMMA RestoredType ==
    ASSUME TypeOK
    PROVE  /\ OnDisk \in [mesh : Nat, view : Nat] \/ OnDisk = Broken
           /\ OnDisk.mesh \in Nat \cup {None}
BY DEF TypeOK, OnDisk, Restores, Intact, Broken, Pairs, Generations

LEMMA InitTyped == Init => TypeOK
  <1> SUFFICES ASSUME Init PROVE TypeOK
    OBVIOUS
  <1>1. DOMAIN gens = {} /\ DOMAIN took = {}
    BY DEF Init, Nothing
  <1>2. gens \in [DOMAIN gens -> Generations] /\ took \in [DOMAIN took -> Generations]
    BY <1>1 DEF Init, Nothing
  <1>3. timers \in [Timers -> Stages] /\ workers \in [Workers -> Runs \cup {None}]
    BY DEF Init, Stages
  <1>4. work \in [mesh : Nat, view : Nat] /\ promised \in [last : Nat, before : Nat]
    BY DEF Init
  <1>5. {changes, copies, opens, mishaps} \subseteq Nat /\ nextGen \in Nat \ {0}
    BY DEF Init
  <1>6. DOMAIN gens \subseteq Nat /\ DOMAIN took \subseteq Nat
    BY <1>1
  <1> HIDE DEF Nothing
  <1> QED BY <1>2, <1>3, <1>4, <1>5, <1>6 DEF Init, TypeOK, Ids

LEMMA RunStopped ==
    ASSUME NEW r \in Runs
    PROVE  LET q == [r EXCEPT !.stop = TRUE]
           IN  q \in Runs /\ q.key = r.key /\ q.stage = r.stage /\ q.stop
BY DEF Runs

LEMMA RunMoved ==
    ASSUME NEW r \in Runs, NEW stage \in {"failed", "saving"}
    PROVE  LET q == [r EXCEPT !.stage = stage]
           IN  q \in Runs /\ q.key = r.key /\ q.stage = stage /\ q.stop = r.stop
BY DEF Runs

LEMMA GenerationDamaged ==
    ASSUME NEW g \in Generations
    PROVE  LET q == [g EXCEPT !.whole = FALSE]
           IN  q \in Generations /\ q.mesh = g.mesh /\ q.view = g.view /\ ~q.whole
BY DEF Generations

LEMMA StoppedTyped ==
    ASSUME TypeOK
    PROVE  /\ TimerCancelled \in [Timers -> Stages]
           /\ WorkerStopped \in [Workers -> Runs \cup {None}]
           /\ \A w \in Workers :
                /\ WorkerStopped[w] = None <=> workers[w] = None
                /\ w # worker => WorkerStopped[w] = workers[w]
                /\ workers[w] # None => WorkerStopped[w].key = workers[w].key
                                     /\ WorkerStopped[w].stage = workers[w].stage
  <1>1. TimerCancelled \in [Timers -> Stages]
    BY DEF TypeOK, TimerCancelled, Stages
  <1>2. worker # None => worker \in Workers /\ (workers[worker] # None => workers[worker] \in Runs)
    BY DEF TypeOK
  <1>3. workers \in [Workers -> Runs \cup {None}]
    BY DEF TypeOK
  <1> QED BY <1>1, <1>2, <1>3, RunStopped, NoneAssumption DEF WorkerStopped

LEMMA SchedulePreserves ==
    ASSUME TypeOK, CanArm, \E rev \in Nat : Schedule(rev)
    PROVE  /\ requested' \in Nat /\ ~error' /\ ~warned' /\ error' \in BOOLEAN /\ warned' \in BOOLEAN
           /\ timers' \in [Timers -> Stages] /\ timer' \in Timers /\ timers'[timer'] = "armed"
           /\ workers' \in [Workers -> Runs \cup {None}] /\ worker' = worker
           /\ workers' = WorkerStopped
  <1>1. (CHOOSE t \in Timers : TimerCancelled[t] = "none") \in Timers
    BY DEF CanArm
  <1> QED BY <1>1, StoppedTyped DEF Schedule, Stages

LEMMA TypeStep == TypeOK /\ Locking /\ [Next]_vars => TypeOK'
  <1> SUFFICES ASSUME TypeOK, Locking, [Next]_vars PROVE TypeOK'
    OBVIOUS
  <1> USE NoneAssumption
  <1> USE DEF TypeOK, Ids, memory, threads, holding, disk, copying, bounds, Mishap
  <1>0. TimerCancelled \in [Timers -> Stages] /\ WorkerStopped \in [Workers -> Runs \cup {None}]
    BY StoppedTyped
  <1>1. CASE Edit
    <2>1. changes' \in Nat /\ revision' \in Nat /\ work' \in [mesh : Nat, view : Nat]
      BY <1>1 DEF Edit, Change
    <2>2. CanArm /\ Schedule(revision')
      BY <1>1 DEF Edit, Change, Editing
    <2> QED BY <1>1, <2>1, <2>2, SchedulePreserves DEF Edit, Change
  <1>2. CASE ChangeView
    <2>1. changes' \in Nat /\ work' \in [mesh : Nat, view : Nat]
      BY <1>2 DEF ChangeView, Change
    <2>2. CanArm /\ Schedule(revision)
      BY <1>2 DEF ChangeView, Change, Editing
    <2> QED BY <1>2, <2>1, <2>2, SchedulePreserves DEF ChangeView, Change
  <1>3. ASSUME NEW shown \in BOOLEAN, PreviewRestore(shown) PROVE TypeOK'
    <2>1. changes' \in Nat /\ work' \in [mesh : Nat, view : Nat]
      BY <1>3 DEF PreviewRestore, Change
    <2>2. preview' \in Previews \cup {None}
      <3>1. work.mesh \in Nat /\ (requested # saved) \in BOOLEAN
        OBVIOUS
      <3>2. [back |-> work.mesh, pending |-> requested # saved] \in Previews
        BY <3>1 DEF Previews
      <3> QED BY <1>3, <3>2 DEF PreviewRestore
    <2> QED BY <1>3, <2>1, <2>2 DEF PreviewRestore, Change, Unscheduled
  <1>4. CASE ApplyRestore
    <2>1. CanArm /\ Schedule(revision') /\ revision' \in Nat
      BY <1>4 DEF ApplyRestore, Editing
    <2> QED BY <1>4, <2>1, SchedulePreserves DEF ApplyRestore
  <1>5. CASE CancelRestore
    <2>1. preview \in Previews /\ revision' \in Nat /\ CanArm
      BY <1>5 DEF CancelRestore, Editing
    <2>2. work' \in [mesh : Nat, view : Nat]
      BY <1>5, <2>1 DEF CancelRestore, Previews
    <2>3. CASE Schedule(revision')
      BY <1>5, <2>1, <2>2, <2>3, SchedulePreserves DEF CancelRestore
    <2>4. CASE Unscheduled
      BY <1>5, <2>1, <2>2, <2>4 DEF CancelRestore, Unscheduled
    <2> QED BY <1>5, <2>3, <2>4 DEF CancelRestore
  <1>6. CASE Close
    BY <1>6, <1>0 DEF Close, Previews, Steps
  <1>7. CASE Discard
    BY <1>7, <1>0 DEF Discard
  <1>8. CASE Reopen
    <2>1. OnDisk \in [mesh : Nat, view : Nat]
      BY <1>8, RestoredType DEF Reopen
    <2>2. timers' \in [Timers -> Stages] /\ workers' \in [Workers -> Runs \cup {None}]
      BY <1>8 DEF Reopen, Stages
    <2>3. promised' \in [last : Nat, before : Nat]
      BY <1>8, <2>1 DEF Reopen
    <2>4. {changes, copies, opens, mishaps}' \subseteq Nat /\ (timer \in Timers \cup {None})' /\ (worker \in Workers \cup {None})'
      BY <1>8 DEF Reopen
    <2> QED BY <1>8, <2>1, <2>2, <2>3, <2>4 DEF Reopen
  <1>9. CASE Build
    BY <1>9 DEF Build, NewCopy, Copies, Nothing, Steps
  <1>10. CASE Duplicate
    <2>1. copy' \in Copies
      BY <1>10, RestoredType DEF Duplicate, NewCopy, Copies
    <2>2. DOMAIN took' \subseteq Nat /\ took' \in [DOMAIN took' -> Generations]
      BY <1>10 DEF Duplicate, Nothing
    <2> QED BY <1>10, <2>1, <2>2 DEF Duplicate
  <1>11. ASSUME NEW t \in Timers, Timer(t) PROVE TypeOK'
    <2>1. CASE TimerFires(t)
      BY <2>1 DEF TimerFires, Stages
    <2>2. CASE StartAutosave(t)
      BY <2>2, <1>0 DEF StartAutosave, Stages
    <2>3. CASE LaunchWorker(t)
      BY <2>3 DEF LaunchWorker, Stages, Runs
    <2> QED BY <1>11, <2>1, <2>2, <2>3 DEF Timer
  <1>12. ASSUME NEW w \in Workers, Worker(w) PROVE TypeOK'
    <2>1. CASE WorkerEnters(w)
      BY <2>1 DEF WorkerEnters, Runs, Steps
    <2>2. CASE WorkerReports(w)
      BY <2>2 DEF WorkerReports
    <2> QED BY <1>12, <2>1, <2>2 DEF Worker
  <1>13. CASE WriteGeneration
    BY <1>13 DEF WriteGeneration, Generations, Steps
  <1>14. CASE WriteDescriptor
    BY <1>14 DEF WriteDescriptor, Pairs, Copies, Steps
  <1>15. CASE PruneGenerations
    BY <1>15 DEF PruneGenerations, Steps
  <1>16. CASE FinishSave
    BY <1>16 DEF FinishSave
  <1>17. CASE SaveCancelled
    <2>1. workers' \in [Workers -> Runs \cup {None}]
      BY <1>17 DEF SaveCancelled
    <2> QED BY <1>17, <2>1 DEF SaveCancelled
  <1>18. CASE SaveFails
    <2>1. workers' \in [Workers -> Runs \cup {None}]
      <3>1. CASE lock \in Workers /\ workers[lock] # None
        <4>1. workers[lock] \in Runs
          BY <3>1
        <4> QED BY <1>18, <3>1, <4>1, RunMoved DEF SaveFails
      <3>2. CASE lock \notin Workers
        BY <1>18, <3>2 DEF SaveFails
      <3> QED BY <3>1, <3>2 DEF Locking
    <2>2. copy' \in Copies \cup {None} /\ DOMAIN took' \subseteq Nat /\ took' \in [DOMAIN took' -> Generations]
      <3>1. CASE NoCopy
        BY <3>1 DEF NoCopy, Nothing
      <3>2. CASE UNCHANGED <<copy, took>>
        BY <3>2
      <3> QED BY <1>18, <3>1, <3>2 DEF SaveFails
    <2>3. error' \in BOOLEAN /\ warned' \in BOOLEAN
      BY <1>18 DEF SaveFails
    <2> QED BY <1>18, <2>1, <2>2, <2>3 DEF SaveFails
  <1>19. CASE CopyReads
    <2>1. copy \in Copies /\ NamedBy(descriptor) \subseteq Nat
      BY <1>19 DEF CopyReads, Copying, NamedBy, Pairs
    <2>2. copy' \in Copies
      BY <1>19, <2>1 DEF CopyReads, Copies
    <2> QED BY <1>19, <2>2 DEF CopyReads
  <1>20. CASE CopyLists
    <2>1. copy \in Copies
      BY <1>20 DEF CopyLists, Copying
    <2>2. copy' \in Copies
      BY <1>20, <2>1 DEF CopyLists, Copies
    <2> QED BY <1>20, <2>2 DEF CopyLists
  <1>21. CASE CopyGeneration
    <2> DEFINE id == CHOOSE i \in copy.keep : \A j \in copy.keep : i <= j
    <2>1. copy \in Copies
      BY <1>21 DEF CopyGeneration, Copying
    <2>2. CASE id \in Ids
      <3>1. copy' = [copy EXCEPT !.keep = @ \ {id}]
        BY <1>21, <2>2 DEF CopyGeneration
      <3>2. copy' \in Copies
        BY <2>1, <3>1 DEF Copies
      <3>3. took' = [i \in DOMAIN took \cup {id} |-> IF i = id THEN gens[id] ELSE took[i]]
        BY <1>21, <2>2 DEF CopyGeneration
      <3>4. DOMAIN took' \subseteq Nat /\ took' \in [DOMAIN took' -> Generations]
        <4> HIDE DEF id
        <4> QED BY <2>2, <3>3
      <3> QED BY <1>21, <2>2, <3>2, <3>4 DEF CopyGeneration
    <2>3. CASE id \notin Ids
      BY <1>21, <2>3 DEF CopyGeneration, NoCopy, Nothing
    <2> QED BY <2>2, <2>3
  <1>22. CASE CopyProject
    <2>1. copy \in Copies
      BY <1>22 DEF CopyProject, Copying
    <2>2. copy' \in Copies
      BY <1>22, <2>1 DEF CopyProject, Copies
    <2> QED BY <1>22, <2>2 DEF CopyProject
  <1>23. CASE RecordCopy
    BY <1>23 DEF RecordCopy, NoCopy, Nothing
  <1>24. CASE CopyFails
    BY <1>24 DEF CopyFails, NoCopy, Nothing
  <1>25. CASE Damage
    <2>1. PICK i \in Ids : gens' = [gens EXCEPT ![i].whole = FALSE]
      BY <1>25 DEF Damage
    <2>2. DOMAIN gens' = DOMAIN gens /\ gens' \in [Ids -> Generations]
      BY <2>1, GenerationDamaged
    <2> QED BY <1>25, <2>2 DEF Damage
  <1>26. CASE Crash
    BY <1>26 DEF Crash, NoCopy, Nothing, Stages
  <1>27. CASE UNCHANGED vars
    BY <1>27 DEF vars
  <1> QED BY <1>1, <1>2, <1>3, <1>4, <1>5, <1>6, <1>7, <1>8, <1>9, <1>10, <1>11, <1>12, <1>13, <1>14,
             <1>15, <1>16, <1>17, <1>18, <1>19, <1>20, <1>21, <1>22, <1>23, <1>24, <1>25, <1>26, <1>27
          DEF Next, User, Saving, CopyStep

(* A step that leaves the lock, the save and the copy where they are. *)
LEMMA LockFrame ==
    ASSUME TypeOK, Locking, lock' = lock, save' = save, copy' = copy,
           lock = None \/ (session' = session /\ preview' = preview /\ requested' = requested),
           \A w \in Workers :
                /\ workers[w] # None /\ workers[w].stage = "saving" =>
                    workers'[w] # None /\ workers'[w].stage = "saving" /\ workers'[w].key = workers[w].key
                /\ workers'[w] # None /\ workers'[w].stage = "saving" =>
                    workers[w] # None /\ workers[w].stage = "saving"
    PROVE  Locking'
BY NoneAssumption DEF Locking, Open

LEMMA LockingStep == TypeOK /\ Locking /\ [Next]_vars => Locking'
  <1> SUFFICES ASSUME TypeOK, Locking, [Next]_vars PROVE Locking'
    OBVIOUS
  <1> USE NoneAssumption
  <1> USE DEF memory, threads, holding, disk, copying, bounds
  <1>0. \A w \in Workers :
          /\ WorkerStopped[w] = None <=> workers[w] = None
          /\ workers[w] # None => WorkerStopped[w].key = workers[w].key
                               /\ WorkerStopped[w].stage = workers[w].stage
    BY StoppedTyped
  <1>1. CASE Edit
    BY <1>0, <1>1, LockFrame DEF Edit, Change, Editing, Schedule
  <1>2. CASE ChangeView
    BY <1>0, <1>2, LockFrame DEF ChangeView, Change, Editing, Schedule
  <1>3. ASSUME NEW shown \in BOOLEAN, PreviewRestore(shown) PROVE Locking'
    BY <1>3, LockFrame DEF PreviewRestore, Change, Editing, Unscheduled
  <1>4. CASE ApplyRestore
    BY <1>0, <1>4, LockFrame DEF ApplyRestore, Editing, Schedule
  <1>5. CASE CancelRestore
    BY <1>0, <1>5, LockFrame DEF CancelRestore, Editing, Schedule, Unscheduled
  <1>6. CASE Close
    <2>1. CASE UNCHANGED holding
      BY <1>0, <1>6, <2>1, LockFrame DEF Close
    <2>2. CASE lock' = "close" /\ save' = "generation" /\ UNCHANGED session
      BY <1>0, <1>6, <2>2 DEF Close, Locking, Steps, Open
    <2> QED BY <1>6, <2>1, <2>2 DEF Close
  <1>7. CASE Discard
    BY <1>0, <1>7, LockFrame DEF Discard
  <1>8. CASE Reopen
    BY <1>8 DEF Reopen, Locking, Open
  <1>9. CASE Build
    <2>1. copy' # None /\ copy'.kind = "built" /\ lock' = "build" /\ lock = None
      BY <1>9 DEF Build, NewCopy, Copies, TypeOK
    <2> QED BY <1>9, <2>1 DEF Build, Locking, Open
  <1>10. CASE Duplicate
    <2>1. copy' # None /\ copy'.kind = "duplicate" /\ copy = None
      BY <1>10, RestoredType DEF Duplicate, NewCopy, Copies
    <2> QED BY <1>10, <2>1 DEF Duplicate, Locking, Open
  <1>11. ASSUME NEW t \in Timers, Timer(t) PROVE Locking'
    <2>1. CASE TimerFires(t)
      BY <2>1, LockFrame DEF TimerFires
    <2>2. CASE StartAutosave(t)
      BY <1>0, <2>2, LockFrame DEF StartAutosave
    <2>3. CASE LaunchWorker(t)
      BY <2>3, LockFrame DEF LaunchWorker, TypeOK
    <2> QED BY <1>11, <2>1, <2>2, <2>3 DEF Timer
  <1>12. ASSUME NEW w \in Workers, Worker(w) PROVE Locking'
    <2>1. CASE WorkerEnters(w)
      <3>1. CASE Superseded(w)
        BY <2>1, <3>1, LockFrame DEF WorkerEnters, TypeOK
      <3>2. CASE ~Superseded(w)
        <4>1. workers[w] \in Runs /\ workers' = [workers EXCEPT ![w] = [workers[w] EXCEPT !.stage = "saving"]]
          BY <2>1, <3>2 DEF WorkerEnters, TypeOK
        <4>2. workers'[w] # None /\ workers'[w].stage = "saving" /\ workers'[w].key = requested
          <5>1. workers'[w] = [workers[w] EXCEPT !.stage = "saving"]
            BY <4>1 DEF TypeOK
          <5>2. workers'[w] \in Runs /\ workers'[w].stage = "saving" /\ workers'[w].key = workers[w].key
            BY <4>1, <5>1, RunMoved
          <5> QED BY <3>2, <5>2 DEF Superseded
        <4>3. \A v \in Workers \ {w} : workers'[v] = workers[v]
          BY <4>1 DEF TypeOK
        <4> QED BY <2>1, <3>2, <4>2, <4>3 DEF WorkerEnters, Superseded, Locking, Open, Steps
      <3> QED BY <3>1, <3>2
    <2>2. CASE WorkerReports(w)
      BY <2>2, LockFrame DEF WorkerReports, TypeOK
    <2> QED BY <1>12, <2>1, <2>2 DEF Worker
  <1>13. CASE WriteGeneration
    BY <1>13 DEF WriteGeneration, Locking, Open, Steps
  <1>14. CASE WriteDescriptor
    <2>1. (copy' = None <=> copy = None) /\ (copy # None => copy'.kind = copy.kind)
      BY <1>14 DEF WriteDescriptor, TypeOK, Copies
    <2> QED BY <1>14, <2>1 DEF WriteDescriptor, Locking, Open, Steps
  <1>15. CASE PruneGenerations
    BY <1>15 DEF PruneGenerations, Locking, Open, Steps
  <1>16. CASE FinishSave
    BY <1>16 DEF FinishSave, Locking, TypeOK, Open
  <1>17. CASE SaveCancelled
    BY <1>17 DEF SaveCancelled, Stoppable, Locking, TypeOK, Open
  <1>18. CASE SaveFails
    <2>1. \A w \in Workers : workers'[w] # None => workers'[w].stage # "saving"
      BY <1>18, RunMoved DEF SaveFails, Locking, TypeOK
    <2> QED BY <1>18, <2>1 DEF SaveFails, NoCopy, Locking, TypeOK, Open
  <1>19. CASE CopyReads
    <2>1. copy \in Copies /\ copy # None
      BY <1>19 DEF CopyReads, Copying, TypeOK
    <2>2. copy' \in Copies /\ copy'.kind = copy.kind
      <3>1. NamedBy(descriptor) \subseteq Nat
        BY DEF TypeOK, NamedBy, Pairs
      <3> QED BY <1>19, <2>1, <3>1 DEF CopyReads, Copies
    <2> QED BY <1>19, <2>1, <2>2 DEF CopyReads, Locking, Open
  <1>20. CASE CopyLists
    <2>1. copy \in Copies /\ copy # None
      BY <1>20 DEF CopyLists, Copying, TypeOK
    <2>2. copy' \in Copies /\ copy'.kind = copy.kind
      BY <1>20, <2>1 DEF CopyLists, Copies
    <2> QED BY <1>20, <2>1, <2>2 DEF CopyLists, Locking, Open
  <1>21. CASE CopyGeneration
    BY <1>21 DEF CopyGeneration, Copying, NoCopy, Locking, TypeOK, Copies, Open
  <1>22. CASE CopyProject
    <2>1. copy \in Copies /\ copy # None
      BY <1>22 DEF CopyProject, Copying, TypeOK
    <2>2. copy' \in Copies /\ copy'.kind = copy.kind
      <3>1. descriptor \in Pairs \cup {None}
        BY DEF TypeOK
      <3> QED BY <1>22, <2>1, <3>1 DEF CopyProject, Copies
    <2> QED BY <1>22, <2>1, <2>2 DEF CopyProject, Locking, Open
  <1>23. CASE RecordCopy
    BY <1>23 DEF RecordCopy, Copying, NoCopy, Locking, TypeOK, Copies, Open
  <1>24. CASE CopyFails
    BY <1>24 DEF CopyFails, Copying, NoCopy, Locking, TypeOK, Copies, Open
  <1>25. CASE Damage
    BY <1>25, LockFrame DEF Damage
  <1>26. CASE Crash
    BY <1>26 DEF Crash, NoCopy, Locking, Open
  <1>27. CASE UNCHANGED vars
    BY <1>27, LockFrame DEF vars
  <1> QED BY <1>1, <1>2, <1>3, <1>4, <1>5, <1>6, <1>7, <1>8, <1>9, <1>10, <1>11, <1>12, <1>13, <1>14,
             <1>15, <1>16, <1>17, <1>18, <1>19, <1>20, <1>21, <1>22, <1>23, <1>24, <1>25, <1>26, <1>27
          DEF Next, User, Saving, CopyStep

(* The variables of MeshDraft keep their types: among others, a project file *)
(* is only ever a whole pair of generations (atomic_write_text).             *)
THEOREM TypeCorrect == Spec => []TypeOK
  <1>1. Init => TypeOK /\ Locking
    BY InitTyped, NoneAssumption DEF Init, Locking
  <1>2. (TypeOK /\ Locking) /\ [Next]_vars => (TypeOK /\ Locking)'
    BY TypeStep, LockingStep
  <1> QED BY <1>1, <1>2, PTL DEF Spec
-----------------------------------------------------------------------------
(* Which generation a project restores. *)
LEMMA Restored ==
    ASSUME TypeOK, Layout
    PROVE  /\ descriptor = None => OnDisk # Broken /\ OnDisk.mesh = 0
           /\ descriptor # None =>
                /\ Current \in Ids /\ gens[Current] \in Generations
                /\ gens[Current].whole => OnDisk # Broken /\ OnDisk.mesh = gens[Current].mesh
                /\ ~gens[Current].whole =>
                    IF Fallback # None /\ gens[Fallback].whole
                      THEN OnDisk # Broken /\ OnDisk.mesh = gens[Fallback].mesh
                      ELSE OnDisk = Broken
  <1>1. CASE descriptor = None
    BY <1>1, NoneAssumption DEF OnDisk, Restores, Broken
  <1>2. CASE descriptor # None
    <2>1. /\ descriptor \in Pairs /\ Current \in Ids /\ gens[Current] \in Generations
          /\ Fallback # None => Fallback \in Ids /\ gens[Fallback] \in Generations
          /\ None \notin Ids
      BY <1>2, NoneAssumption DEF TypeOK, Layout
    <2>2. \A i \in Ids : gens[i].mesh \in Nat
      BY DEF TypeOK, Generations
    <2> QED BY <1>2, <2>1, <2>2, NoneAssumption DEF OnDisk, Restores, Intact, Broken, Ids, Current, Fallback, Pairs
  <1> QED BY <1>1, <1>2

(* A step that leaves the disk, what it holds for the session and what was   *)
(* promised alone; it may end a save or begin one, or end the session.       *)
LEMMA StoreFrame ==
    ASSUME TypeOK, Layout, Keeping,
           UNCHANGED <<gens, descriptor, nextGen, promised, changes>>,
           save' = save \/ save' = None \/ save' = "generation",
           work' = work \/ save = None,
           Open' => Open /\ work' = work /\ preview' = preview
    PROVE  Layout' /\ Keeping'
  <1>1. Layout'
    <2>1. save' \in {"descriptor", "prune", "finish"} => save' = save /\ work' = work
      BY NoneAssumption DEF Steps
    <2> QED BY <2>1 DEF Layout, Ids, Current, Fallback
  <1>2. Keeping'
    <2>1. save' \in {"prune", "finish"} => save' = save
      BY NoneAssumption DEF Steps
    <2> QED BY <2>1 DEF Keeping, Kept, Current, Fallback
  <1> QED BY <1>1, <1>2

(* A step that leaves the session's keys and contents alone, or ends it. *)
LEMMA KeysFrame ==
    ASSUME Keys, UNCHANGED <<gens, descriptor, saved, revision, requested>>,
           \/ session' = session /\ work' = work /\ preview' = preview
           \/ session' \in {"discarded", "gone"} /\ preview' = None
    PROVE  Keys'
BY DEF Keys, SavedIs, Kept, Current, Open

LEMMA StoreStep == TypeOK /\ TypeOK' /\ Locking /\ Store /\ [Next]_vars => Layout' /\ Keeping'
  <1> SUFFICES ASSUME TypeOK, TypeOK', Locking, Layout, Keeping, Keys, [Next]_vars
               PROVE  Layout' /\ Keeping'
    BY DEF Store
  <1> USE NoneAssumption
  <1> USE DEF memory, threads, holding, disk, copying, bounds
  <1>0. /\ work.mesh \in Nat /\ work'.mesh \in Nat /\ changes \in Nat /\ changes' \in Nat
        /\ nextGen \in Nat /\ promised.last \in Nat /\ promised.before \in Nat
        /\ preview # None => preview.back \in Nat
        /\ \A i \in Ids : i \in Nat /\ gens[i].mesh \in Nat /\ gens[i].whole \in BOOLEAN
        /\ lock = None => save = None
        /\ None \notin {"generation", "descriptor", "prune", "finish"}
        /\ save # None => Open /\ preview = None /\ work.mesh <= changes
    BY DEF TypeOK, Generations, Previews, Locking, Steps, Keeping
  <1>1. ASSUME UNCHANGED <<gens, descriptor, nextGen, promised>>, changes' = changes + 1,
               lock = None, preview = None, save' = save, session' = session, Open,
               work'.mesh \in {work.mesh, changes'},
               preview' = None \/ preview'.back = work.mesh
        PROVE  Layout' /\ Keeping'
    <2>1. Layout'
      BY <1>0, <1>1 DEF Layout, Ids, Current, Fallback, Steps
    <2>2. Keeping'
      <3>1. descriptor # None /\ gens[Current].whole => gens[Current].mesh <= work.mesh
        BY <1>1 DEF Keeping, Kept
      <3>2. work.mesh <= Kept' /\ Kept' <= work'.mesh /\ work'.mesh <= changes'
        BY <1>0, <1>1 DEF Keeping, Kept
      <3>3. promised.last <= work.mesh /\ Kept' \in Nat /\ (descriptor # None => Current \in Ids)
        BY <1>0, <1>1 DEF Keeping, Kept, Layout
      <3> QED BY <1>0, <1>1, <3>1, <3>2, <3>3 DEF Keeping, Current, Fallback, Steps, Open
    <2> QED BY <2>1, <2>2
  <1>2. CASE Edit
    BY <1>0, <1>1, <1>2 DEF Edit, Change, Editing, TypeOK
  <1>3. CASE ChangeView
    BY <1>0, <1>1, <1>3 DEF ChangeView, Change, Editing, TypeOK
  <1>4. ASSUME NEW shown \in BOOLEAN, PreviewRestore(shown) PROVE Layout' /\ Keeping'
    BY <1>0, <1>1, <1>4 DEF PreviewRestore, Change, Editing, TypeOK
  <1>5. ASSUME UNCHANGED <<gens, descriptor, nextGen, promised, changes>>,
               lock = None, preview' = None, Open,
               save' \in {save, "generation"},
               work'.mesh \in {work.mesh, Kept}
        PROVE  Layout' /\ Keeping'
    <2>1. Kept <= work'.mesh /\ work'.mesh <= work.mesh /\ Kept \in Nat
      BY <1>0, <1>5 DEF Keeping, Kept
    <2>2. Layout'
      BY <1>0, <1>5 DEF Layout, Ids, Current, Fallback, Steps
    <2>3. Kept' = work'.mesh
      BY <1>5 DEF Kept
    <2>4. descriptor # None => Current \in Ids
      BY DEF Layout
    <2> QED BY <1>0, <1>5, <2>1, <2>2, <2>3, <2>4 DEF Keeping, Current, Fallback, Steps
  <1>6. CASE ApplyRestore
    BY <1>0, <1>5, <1>6 DEF ApplyRestore, Editing
  <1>7. CASE CancelRestore
    BY <1>0, <1>5, <1>7 DEF CancelRestore, Editing, Kept, TypeOK
  <1>8. CASE Close
    BY <1>0, <1>5, <1>8 DEF Close, Kept, TypeOK
  <1>9. CASE Discard
    BY <1>0, <1>9, StoreFrame DEF Discard, Open
  <1>10. CASE Reopen
    <2>1. lock = None /\ save = None /\ descriptor # None /\ OnDisk # Broken /\ work' = OnDisk /\ preview' = None
      BY <1>0, <1>10 DEF Reopen
    <2>2. OnDisk.mesh \in Nat /\ OnDisk.mesh <= changes
      BY <1>0, <2>1, Restored DEF Layout
    <2>3. Layout'
      BY <1>0, <1>10, <2>1 DEF Reopen, Layout, Ids, Current, Fallback, Steps
    <2>4. CASE gens[Current].whole
      <3>1. OnDisk.mesh = gens[Current].mesh /\ promised' = promised
        BY <1>0, <1>10, <2>1, <2>4, Restored DEF Reopen, Keeping
      <3> QED BY <1>0, <1>10, <2>1, <2>2, <2>3, <2>4, <3>1 DEF Reopen, Keeping, Kept, Current, Fallback, Steps
    <2>5. CASE ~gens[Current].whole
      <3>1. Fallback # None /\ gens[Fallback].whole /\ OnDisk.mesh = gens[Fallback].mesh
        BY <2>1, <2>5, Restored
      <3>2. promised.before <= OnDisk.mesh
        BY <2>1, <3>1 DEF Keeping
      <3>3. promised'.last <= OnDisk.mesh /\ promised'.before <= promised'.last
        BY <1>0, <1>10, <2>2, <3>2 DEF Reopen, Keeping
      <3> QED BY <1>0, <1>10, <2>1, <2>2, <2>3, <2>5, <3>1, <3>3
              DEF Reopen, Keeping, Kept, Current, Fallback, Steps, TypeOK
    <2> QED BY <1>0, <2>1, <2>4, <2>5, Restored
  <1>11. ASSUME UNCHANGED <<session, work, preview, disk, promised, changes, nextGen>>,
                save' \in {save, None, "generation"}
         PROVE  Layout' /\ Keeping'
    BY <1>11, StoreFrame DEF Open
  <1>12. CASE Build
    BY <1>11, <1>12 DEF Build
  <1>13. CASE Duplicate
    BY <1>11, <1>13 DEF Duplicate
  <1>14. ASSUME NEW t \in Timers, Timer(t) PROVE Layout' /\ Keeping'
    BY <1>11, <1>14 DEF Timer, TimerFires, StartAutosave, LaunchWorker
  <1>15. ASSUME NEW w \in Workers, Worker(w) PROVE Layout' /\ Keeping'
    BY <1>11, <1>15 DEF Worker, WorkerEnters, WorkerReports
  <1>16. CASE WriteGeneration
    <2>1. save = "generation" /\ save' = "descriptor" /\ Open /\ preview = None
          /\ work.mesh <= changes /\ UNCHANGED <<session, work, preview, descriptor, promised, changes>>
      BY <1>0, <1>16 DEF WriteGeneration
    <2>2. Ids' = Ids \cup {nextGen} /\ nextGen' = nextGen + 1
      BY <1>16 DEF WriteGeneration, Ids
    <2>3. gens'[nextGen].mesh = work.mesh /\ gens'[nextGen].whole
      BY <1>16 DEF WriteGeneration
    <2>4. \A i \in Ids : i < nextGen /\ gens'[i] = gens[i]
      BY <1>0, <1>16 DEF WriteGeneration, Layout
    <2>5. descriptor # None => Current \in Ids /\ (Fallback # None => Fallback \in Ids)
      BY DEF Layout
    <2>6. Layout'
      BY <1>0, <2>1, <2>2, <2>3, <2>4, <2>5 DEF Layout, Current, Fallback
    <2> QED BY <2>1, <2>4, <2>5, <2>6 DEF Keeping, Kept, Current, Fallback, Open
  <1>17. CASE WriteDescriptor
    <2>1. save = "descriptor" /\ save' = "prune" /\ Open /\ preview = None
          /\ UNCHANGED <<session, work, preview, gens, promised, changes, nextGen>>
      BY <1>0, <1>17 DEF WriteDescriptor
    <2>2. descriptor' # None /\ Current' = nextGen - 1
          /\ Fallback' = IF descriptor = None THEN None ELSE Current
      <3>1. descriptor' = [current |-> nextGen - 1, previous |-> IF descriptor = None THEN None ELSE descriptor.current]
        BY <1>17 DEF WriteDescriptor
      <3>2. descriptor' # None
        BY <1>0, <3>1 DEF TypeOK, Pairs
      <3> QED BY <3>1, <3>2 DEF Current, Fallback
    <2>3. nextGen - 1 \in Ids /\ gens[nextGen - 1].mesh = work.mesh
          /\ (descriptor # None => Current \in Ids /\ Current < nextGen - 1)
      BY <2>1 DEF Layout
    <2>4. Layout'
      BY <2>1, <2>2, <2>3 DEF Layout, Ids
    <2>5. promised.last <= work.mesh /\ work.mesh <= changes
      BY <2>1 DEF Keeping, Kept
    <2>6. descriptor # None /\ gens[Current].whole => gens[Current].mesh >= promised.last /\ gens[Current].mesh >= promised.before
      BY <1>0, <2>3 DEF Keeping
    <2>7. descriptor = None => promised.last = 0 /\ promised.before = 0
      BY <1>0 DEF Keeping
    <2> QED BY <1>0, <2>1, <2>2, <2>3, <2>4, <2>5, <2>6, <2>7 DEF Keeping, Kept, Open
  <1>18. CASE PruneGenerations
    <2>1. save = "prune" /\ save' = "finish"
          /\ UNCHANGED <<session, work, preview, descriptor, promised, changes, nextGen>>
      BY <1>18 DEF PruneGenerations
    <2>2. Ids' \subseteq Ids /\ \A i \in Ids' : gens'[i] = gens[i]
      BY <1>18 DEF PruneGenerations, Ids
    <2>3. descriptor # None => Current \in Ids' /\ (Fallback # None => Fallback \in Ids')
      BY <1>0, <1>18 DEF PruneGenerations, Ids, Layout, Current, Fallback
    <2>4. Layout'
      BY <1>0, <2>1, <2>2, <2>3 DEF Layout, Current, Fallback
    <2>5. descriptor # None =>
            gens'[Current] = gens[Current] /\ (Fallback # None => gens'[Fallback] = gens[Fallback])
      BY <2>2, <2>3
    <2>6. Keeping /\ save \in {"prune", "finish"} /\ descriptor # None
      BY <2>1 DEF Layout
    <2>7. Current' = Current /\ Fallback' = Fallback /\ Kept' = Kept /\ (Open' <=> Open)
      BY <2>1 DEF Current, Fallback, Kept, Open
    <2> QED BY <2>1, <2>4, <2>5, <2>6, <2>7 DEF Keeping
  <1>19. CASE FinishSave
    <2>1. save = "finish" /\ save' = None /\ Open /\ preview = None /\ descriptor # None
          /\ gens[Current].mesh = work.mesh /\ Current \in Ids
          /\ UNCHANGED <<work, preview, gens, descriptor, changes, nextGen>>
      BY <1>0, <1>19 DEF FinishSave, Layout
    <2>2. promised'.last = work.mesh /\ promised'.before = promised.last
      BY <1>19 DEF FinishSave
    <2>3. Layout'
      BY <1>0, <2>1 DEF Layout, Ids, Current, Fallback
    <2>4. promised.last <= work.mesh /\ work.mesh <= changes
      BY <2>1 DEF Keeping, Kept
    <2>5. IF Fallback = None THEN promised.last = 0
          ELSE gens[Fallback].whole => gens[Fallback].mesh >= promised.last
      BY <2>1 DEF Keeping
    <2> QED BY <1>0, <2>1, <2>2, <2>3, <2>4, <2>5 DEF Keeping, Kept, Current, Fallback, Open
  <1>20. CASE SaveCancelled
    BY <1>11, <1>20 DEF SaveCancelled
  <1>21. CASE SaveFails
    BY <1>11, <1>21 DEF SaveFails
  <1>22. CASE CopyReads \/ CopyLists \/ CopyProject
    BY <1>11, <1>22 DEF CopyReads, CopyLists, CopyProject
  <1>23. CASE CopyGeneration
    BY <1>11, <1>23 DEF CopyGeneration
  <1>24. CASE RecordCopy \/ CopyFails
    BY <1>11, <1>24 DEF RecordCopy, CopyFails
  <1>25. CASE Damage
    <2>1. PICK i \in Ids : gens' = [gens EXCEPT ![i].whole = FALSE]
      BY <1>25 DEF Damage
    <2>2. Ids' = Ids /\ gens[i] \in Generations
      BY <2>1 DEF Ids, TypeOK
    <2>3. \A j \in Ids : gens'[j].mesh = gens[j].mesh /\ (gens'[j].whole => gens[j].whole)
      BY <2>1, <2>2, GenerationDamaged DEF TypeOK
    <2>4. descriptor # None => Current \in Ids /\ (Fallback # None => Fallback \in Ids)
      BY DEF Layout
    <2>5. Layout'
      BY <1>25, <2>2, <2>3, <2>4 DEF Damage, Layout, Current, Fallback
    <2> QED BY <1>25, <2>3, <2>4, <2>5 DEF Damage, Keeping, Kept, Current, Fallback, Open
  <1>26. CASE Crash
    BY <1>26, <1>0, StoreFrame DEF Crash, Open
  <1>27. CASE UNCHANGED vars
    BY <1>11, <1>27 DEF vars
  <1> QED BY <1>2, <1>3, <1>4, <1>6, <1>7, <1>8, <1>9, <1>10, <1>12, <1>13, <1>14, <1>15, <1>16, <1>17,
             <1>18, <1>19, <1>20, <1>21, <1>22, <1>23, <1>24, <1>25, <1>26, <1>27
          DEF Next, User, Saving, CopyStep

LEMMA KeysStep == TypeOK /\ TypeOK' /\ Locking /\ Store /\ [Next]_vars => Keys'
  <1> SUFFICES ASSUME TypeOK, TypeOK', Locking, Layout, Keeping, Keys, [Next]_vars PROVE Keys'
    BY DEF Store
  <1> USE NoneAssumption
  <1> USE DEF memory, threads, holding, disk, copying, bounds
  <1>0. /\ work.mesh \in Nat /\ revision \in Nat /\ saved \in Nat /\ requested \in Nat \cup {None}
        /\ lock # None => Open /\ preview = None
        /\ save # None => lock # None
        /\ None \notin {"generation", "descriptor", "prune", "finish"}
    BY DEF TypeOK, Locking, Steps
  <1>1. CASE Edit
    BY <1>0, <1>1 DEF Edit, Change, Editing, Schedule, Keys, Open
  <1>2. CASE ChangeView
    <2>1. work'.mesh = work.mesh /\ requested' = revision /\ Open /\ preview = None
          /\ UNCHANGED <<session, revision, saved, preview, gens, descriptor>>
      BY <1>2 DEF ChangeView, Change, Editing, Schedule, TypeOK
    <2> QED BY <1>0, <2>1 DEF Keys, SavedIs, Kept, Current, Open
  <1>3. ASSUME NEW shown \in BOOLEAN, PreviewRestore(shown) PROVE Keys'
    <2>1. Open /\ preview = None /\ revision' = revision + 1
          /\ UNCHANGED <<session, requested, saved, gens, descriptor>>
      BY <1>3 DEF PreviewRestore, Change, Editing, Unscheduled
    <2>2. Kept' = Kept /\ (preview' # None => preview'.pending = (requested # saved))
      <3>1. CASE ~shown
        BY <1>3, <2>1, <3>1 DEF PreviewRestore, Kept
      <3>2. CASE shown
        <4>1. [back |-> work.mesh, pending |-> requested # saved] \in Previews
          BY <1>0 DEF Previews
        <4>2. preview' = [back |-> work.mesh, pending |-> requested # saved]
          BY <1>3, <3>2 DEF PreviewRestore
        <4> QED BY <2>1, <4>1, <4>2 DEF Kept
      <3> QED BY <3>1, <3>2
    <2> QED BY <1>0, <2>1, <2>2 DEF Keys, SavedIs, Current, Open
  <1>4. CASE ApplyRestore
    BY <1>0, <1>4 DEF ApplyRestore, Editing, Schedule, Keys, Open
  <1>5. CASE CancelRestore
    <2>1. Open /\ preview # None /\ preview' = None /\ revision' = revision + 1 /\ work'.mesh = Kept
          /\ UNCHANGED <<session, saved, gens, descriptor>>
      BY <1>5 DEF CancelRestore, Editing, Kept, TypeOK
    <2>2. Kept' = Kept /\ saved < revision'
      BY <1>0, <2>1 DEF Kept, Keys
    <2>3. requested' = revision' \/ (requested' = requested /\ requested = saved)
      BY <1>5, <2>1 DEF CancelRestore, Schedule, Unscheduled, Keys
    <2> QED BY <1>0, <2>1, <2>2, <2>3 DEF Keys, SavedIs, Current, Open
  <1>6. CASE Close
    <2>1. Open /\ preview' = None /\ work'.mesh = Kept /\ UNCHANGED <<saved, gens, descriptor>>
      BY <1>6 DEF Close, Kept, TypeOK
    <2>2. Kept' = Kept
      BY <2>1 DEF Kept
    <2>3. CASE preview = None
      <3>1. revision' = revision /\ requested' = requested
            /\ (session' = session \/ (session' = "closed" /\ revision = saved))
        BY <1>6, <2>3 DEF Close
      <3> QED BY <1>0, <2>1, <2>2, <2>3, <3>1 DEF Keys, SavedIs, Current, Open, Kept
    <2>4. CASE preview # None
      <3>1. revision' = revision + 1 /\ saved < revision
            /\ (requested' = revision' \/ (requested' = requested /\ ~preview.pending))
        BY <1>6, <2>4 DEF Close, Keys
      <3>2. session' = session
        BY <1>0, <1>6, <3>1 DEF Close
      <3> QED BY <1>0, <2>1, <2>2, <2>4, <3>1, <3>2 DEF Keys, SavedIs, Current, Open
    <2> QED BY <2>3, <2>4
  <1>7. CASE Discard
    BY <1>7, KeysFrame DEF Discard
  <1>8. CASE Reopen
    <2>1. /\ session' = "open" /\ work' = OnDisk /\ preview' = None /\ requested' = None
          /\ revision' = 0 /\ saved' = 0 /\ descriptor # None /\ UNCHANGED <<gens, descriptor>>
      BY <1>8 DEF Reopen
    <2>2. gens[Current].whole => OnDisk.mesh = gens[Current].mesh
      BY <2>1, Restored
    <2> QED BY <1>0, <2>1, <2>2 DEF Keys, SavedIs, Current, Open
  <1>9. CASE Build
    <2>1. Open /\ preview = None /\ (requested' = requested \/ requested' = revision)
          /\ UNCHANGED <<session, work, preview, revision, saved, gens, descriptor>>
      BY <1>9 DEF Build
    <2> QED BY <1>0, <2>1 DEF Keys, SavedIs, Kept, Current, Open
  <1>10. CASE Duplicate
    BY <1>10, KeysFrame DEF Duplicate
  <1>11. ASSUME NEW t \in Timers, Timer(t) PROVE Keys'
    BY <1>11, KeysFrame DEF Timer, TimerFires, StartAutosave, LaunchWorker
  <1>12. ASSUME NEW w \in Workers, Worker(w) PROVE Keys'
    BY <1>12, KeysFrame DEF Worker, WorkerEnters, WorkerReports
  <1>13. CASE WriteGeneration
    <2>1. descriptor # None => gens'[Current] = gens[Current]
      <3>1. descriptor # None => Current \in Ids /\ Current # nextGen
        BY DEF Layout, TypeOK
      <3> QED BY <1>13, <3>1 DEF WriteGeneration
    <2>2. UNCHANGED <<session, work, preview, revision, requested, saved, descriptor>>
      BY <1>13 DEF WriteGeneration
    <2> QED BY <2>1, <2>2 DEF Keys, SavedIs, Kept, Current, Open
  <1>14. CASE WriteDescriptor
    <2>1. /\ save = "descriptor" /\ Open /\ preview = None
          /\ UNCHANGED <<session, work, preview, revision, requested, saved, gens>>
      BY <1>0, <1>14 DEF WriteDescriptor
    <2>2. descriptor'.current = nextGen - 1 /\ descriptor' # None /\ gens[nextGen - 1].mesh = work.mesh
      <3>1. descriptor' = [current |-> nextGen - 1,
                           previous |-> IF descriptor = None THEN None ELSE descriptor.current]
        BY <1>14 DEF WriteDescriptor
      <3> QED BY <2>1, <3>1 DEF TypeOK, Pairs, Layout
    <2>3. SavedIs(work.mesh)' /\ Kept' = work.mesh
      BY <2>1, <2>2 DEF SavedIs, Current, Kept
    <2> QED BY <2>1, <2>3 DEF Keys, Open
  <1>15. CASE PruneGenerations
    <2>1. /\ save = "prune"
          /\ UNCHANGED <<session, work, preview, revision, requested, saved, descriptor>>
      BY <1>15 DEF PruneGenerations
    <2>2. descriptor # None /\ Current \in Ids /\ (Fallback # None => Fallback < Current)
      BY <2>1 DEF Layout
    <2>3. Ids \subseteq Nat /\ (Fallback # None => Fallback \in Nat)
      BY <2>2 DEF TypeOK, Pairs, Fallback
    <2>4. gens'[Current] = gens[Current]
      BY <1>15, <2>2, <2>3 DEF PruneGenerations, Ids, Current, Fallback
    <2> QED BY <2>1, <2>4 DEF Keys, SavedIs, Kept, Current, Open
  <1>16. CASE FinishSave
    <2>1. /\ save = "finish" /\ Open /\ preview = None /\ saved' = revision
          /\ session' \in {session, "closed"}
          /\ UNCHANGED <<work, preview, revision, requested, gens, descriptor>>
      BY <1>0, <1>16 DEF FinishSave
    <2>2. SavedIs(work.mesh)
      BY <2>1 DEF Layout, SavedIs
    <2> QED BY <1>0, <2>1, <2>2 DEF Keys, SavedIs, Kept, Current, Open
  <1>17. CASE SaveCancelled
    BY <1>17, KeysFrame DEF SaveCancelled
  <1>18. CASE SaveFails
    BY <1>18, KeysFrame DEF SaveFails
  <1>19. CASE CopyReads \/ CopyLists \/ CopyProject
    BY <1>19, KeysFrame DEF CopyReads, CopyLists, CopyProject
  <1>20. CASE CopyGeneration
    BY <1>20, KeysFrame DEF CopyGeneration
  <1>21. CASE RecordCopy \/ CopyFails
    BY <1>21, KeysFrame DEF RecordCopy, CopyFails
  <1>22. CASE Damage
    <2>1. PICK i \in Ids : gens' = [gens EXCEPT ![i].whole = FALSE]
      BY <1>22 DEF Damage
    <2>2. \A j \in Ids : gens'[j].mesh = gens[j].mesh /\ (gens'[j].whole => gens[j].whole)
      BY <2>1, GenerationDamaged DEF TypeOK, Ids
    <2>3. descriptor # None => Current \in Ids
      BY DEF Layout
    <2>4. UNCHANGED <<session, work, preview, revision, requested, saved, descriptor>>
      BY <1>22 DEF Damage
    <2> QED BY <2>2, <2>3, <2>4 DEF Keys, SavedIs, Kept, Current, Open
  <1>23. CASE Crash
    BY <1>23, KeysFrame DEF Crash
  <1>24. CASE UNCHANGED vars
    BY <1>24, KeysFrame DEF vars
  <1> QED BY <1>1, <1>2, <1>3, <1>4, <1>5, <1>6, <1>7, <1>8, <1>9, <1>10, <1>11, <1>12, <1>13,
             <1>14, <1>15, <1>16, <1>17, <1>18, <1>19, <1>20, <1>21, <1>22, <1>23, <1>24
          DEF Next, User, Saving, CopyStep

LEMMA StoreHolds == Spec => [](TypeOK /\ Locking /\ Store)
  <1>1. Init => TypeOK /\ Locking /\ Store
    <2> SUFFICES ASSUME Init PROVE TypeOK /\ Locking /\ Store
      OBVIOUS
    <2>1. Ids = {} /\ Kept = 0
      BY DEF Init, Ids, Nothing, Kept
    <2>2. TypeOK /\ Locking
      BY InitTyped, NoneAssumption DEF Init, Locking
    <2>3. None \notin {"descriptor", "prune", "finish"}
      BY NoneAssumption DEF Steps
    <2>4. Layout
      BY <2>1, <2>3 DEF Init, Layout
    <2>5. Keeping
      BY <2>1, <2>3 DEF Init, Keeping, Open
    <2>6. Keys
      BY <2>1, NoneAssumption DEF Init, Keys, SavedIs, Open
    <2> QED BY <2>2, <2>4, <2>5, <2>6 DEF Store
  <1>2. (TypeOK /\ Locking /\ Store) /\ [Next]_vars => (TypeOK /\ Locking /\ Store)'
    BY TypeStep, LockingStep, StoreStep, KeysStep DEF Store
  <1> QED BY <1>1, <1>2, PTL DEF Spec

(* Whatever fails, dies or is cancelled afterwards, a save that was reported *)
(* complete stays restorable, and with one generation damaged the save       *)
(* before it (save_mesh_layer_project's current and previous generations).   *)
THEOREM DraftAlwaysKept == Spec => []DraftKept
  <1>1. TypeOK /\ Store => DraftKept
    <2> SUFFICES ASSUME TypeOK, Layout, Keeping PROVE DraftKept
      BY DEF Store
    <2>1. ASSUME ~Damaged PROVE OnDisk # Broken /\ OnDisk.mesh >= promised.last
      BY <2>1, Restored DEF Damaged, Keeping, TypeOK
    <2>2. ASSUME OneDamaged, promised.before # 0
          PROVE  OnDisk # Broken /\ OnDisk.mesh >= promised.before
      <3>1. descriptor # None /\ Fallback # None /\ Current \in Ids /\ Fallback \in Ids /\ Fallback < Current
        BY <2>2 DEF Keeping, Layout, TypeOK
      <3>2. promised.before <= promised.last /\ promised.before \in Nat /\ promised.last \in Nat
            /\ \A i \in Ids : gens[i].mesh \in Nat
        BY DEF Keeping, TypeOK, Generations
      <3>3. CASE gens[Current].whole
        BY <3>1, <3>2, <3>3, Restored DEF Keeping
      <3>4. CASE ~gens[Current].whole
        <4>1. Current # Fallback
          BY <3>1 DEF TypeOK
        <4>2. gens[Fallback].whole
          BY <2>2, <3>1, <3>4, <4>1 DEF OneDamaged
        <4> QED BY <3>1, <3>2, <3>4, <4>2, Restored DEF Keeping
      <3> QED BY <3>3, <3>4
    <2> QED BY <2>1, <2>2 DEF DraftKept
  <1> QED BY <1>1, StoreHolds, PTL

(* A session that closed without being told to discard is on disk            *)
(* (close_rust_mesh_session saves what the keys say is not saved).           *)
THEOREM ClosedSessionsSaved == Spec => []ClosedMeansSaved
  <1>1. TypeOK /\ Store => ClosedMeansSaved
    BY Restored DEF Store, Keys, SavedIs, ClosedMeansSaved, Damaged
  <1> QED BY <1>1, StoreHolds, PTL
-----------------------------------------------------------------------------
(* Every step of a copy keeps what is copied and why. *)
LEMMA CopyKeeps ==
    ASSUME TypeOK, copy' # None,
           CopyReads \/ CopyLists \/ CopyGeneration \/ CopyProject \/ WriteDescriptor
    PROVE  copy # None /\ copy'.kind = copy.kind /\ copy'.of = copy.of
  <1>1. copy # None => copy \in Copies
    BY DEF TypeOK
  <1>2. CASE CopyReads
    BY <1>1, <1>2 DEF CopyReads, Copying, Copies
  <1>3. CASE CopyLists
    BY <1>1, <1>3 DEF CopyLists, Copying, Copies
  <1>4. CASE CopyGeneration
    BY <1>1, <1>4 DEF CopyGeneration, Copying, NoCopy, Copies
  <1>5. CASE CopyProject
    BY <1>1, <1>5 DEF CopyProject, Copying, Copies
  <1>6. CASE WriteDescriptor
    BY <1>1, <1>6 DEF WriteDescriptor, Copies
  <1> QED BY <1>2, <1>3, <1>4, <1>5, <1>6

LEMMA BuiltStep == TypeOK /\ Locking /\ Store /\ Built /\ [Next]_vars => Built'
  <1> SUFFICES ASSUME TypeOK, Locking, Layout, Built, [Next]_vars PROVE Built'
    BY DEF Store
  <1> USE NoneAssumption
  <1> USE DEF memory, threads, holding, disk, copying, bounds
  <1>0. /\ copy # None /\ copy.kind = "built" => lock = "build"
        /\ None # "build" /\ "build" \notin Workers
        /\ None \notin {"generation", "descriptor", "prune", "finish"}
    BY DEF Locking, Steps
  <1>1. ASSUME lock = None, copy' = copy PROVE Built'
    BY <1>0, <1>1 DEF Built
  <1>2. ASSUME copy' = copy, UNCHANGED <<work, saved, revision, descriptor, save>> PROVE Built'
    BY <1>2 DEF Built
  <1>3. CASE Edit \/ ChangeView \/ ApplyRestore \/ CancelRestore \/ \E shown \in BOOLEAN : PreviewRestore(shown)
    BY <1>1, <1>3 DEF Edit, ChangeView, ApplyRestore, CancelRestore, PreviewRestore, Change, Editing
  <1>4. CASE Close \/ Discard \/ Reopen
    BY <1>1, <1>4 DEF Close, Discard, Reopen
  <1>5. CASE Build
    <2>1. copy'.of = work.mesh /\ copy'.step = "read" /\ work' = work
      BY <1>5 DEF Build, NewCopy
    <2>2. save = None /\ descriptor' = descriptor /\ saved' = saved /\ revision' = revision
      BY <1>5 DEF Build, Locking
    <2> QED BY <1>0, <1>5, <2>1, <2>2 DEF Build, Built
  <1>6. CASE Duplicate
    BY <1>6 DEF Duplicate, NewCopy, Built
  <1>7. CASE \E t \in Timers : Timer(t)
    BY <1>2, <1>7 DEF Timer, TimerFires, StartAutosave, LaunchWorker
  <1>8. CASE \E w \in Workers : Worker(w)
    BY <1>1, <1>8 DEF Worker, WorkerEnters, WorkerReports
  <1>9. CASE WriteGeneration
    BY <1>0, <1>9 DEF WriteGeneration, Built
  <1>10. CASE WriteDescriptor
    <2>1. copy # None => copy'.step = copy.step
      <3>1. copy # None => copy \in Copies
        BY DEF TypeOK
      <3> QED BY <1>10, <3>1 DEF WriteDescriptor, Copies
    <2>2. copy = None => copy' = None
      BY <1>10 DEF WriteDescriptor
    <2>3. save = "descriptor" /\ save' = "prune" /\ work' = work
      BY <1>10 DEF WriteDescriptor
    <2> QED BY <1>0, <1>10, <2>1, <2>2, <2>3, CopyKeeps DEF Built
  <1>11. CASE PruneGenerations
    BY <1>0, <1>11 DEF PruneGenerations, Built
  <1>12. CASE FinishSave
    BY <1>0, <1>12 DEF FinishSave, Built, Layout
  <1>13. CASE SaveCancelled
    BY <1>0, <1>13 DEF SaveCancelled, Stoppable, Built
  <1>14. CASE SaveFails
    BY <1>0, <1>14 DEF SaveFails, NoCopy, Built
  <1>15. CASE CopyReads \/ CopyLists \/ CopyGeneration \/ CopyProject
    <2>1. UNCHANGED <<work, saved, revision, descriptor, save>> /\ (copy.kind = "built" => save = None)
      BY <1>15 DEF CopyReads, CopyLists, CopyGeneration, CopyProject, Copying
    <2> QED BY <1>15, <2>1, CopyKeeps DEF Built
  <1>16. CASE RecordCopy \/ CopyFails \/ Crash
    BY <1>16 DEF RecordCopy, CopyFails, Crash, NoCopy, Built
  <1>17. CASE Damage
    BY <1>2, <1>17 DEF Damage
  <1>18. CASE UNCHANGED vars
    BY <1>2, <1>18 DEF vars
  <1> QED BY <1>3, <1>4, <1>5, <1>6, <1>7, <1>8, <1>9, <1>10, <1>11, <1>12, <1>13, <1>14, <1>15, <1>16,
             <1>17, <1>18
          DEF Next, User, Saving, CopyStep

LEMMA NoticedStep ==
    TypeOK /\ TypeOK' /\ Locking /\ Store /\ Store' /\ Built /\ Noticed /\ [Next]_vars => Noticed'
  <1> SUFFICES ASSUME TypeOK, TypeOK', Locking, Layout, Keys, Keys', Built, Noticed, [Next]_vars
               PROVE  Noticed'
    BY DEF Store
  <1> USE NoneAssumption
  <1> USE DEF memory, threads, holding, disk, copying, bounds
  <1>0. \A w \in Workers : lock = w => workers[w] # None /\ workers[w].stage = "saving" /\ workers[w].key = requested
    BY DEF Locking
  <1>1. ASSUME NEW t \in Timers, timers'[t] # "none" PROVE Noticed'
    BY <1>1 DEF Noticed, Live
  <1>2. ASSUME CanArm, \E rev \in Nat : Schedule(rev) PROVE Noticed'
    BY <1>1, <1>2, SchedulePreserves
  <1>3. ASSUME ~(Open /\ preview = None)' PROVE Noticed'
    BY <1>3 DEF Noticed
  <1>4. ASSUME UNCHANGED <<session, preview, work, gens, descriptor, timers, workers, requested>>,
               error => error', warned => warned', lock \in {"close", "build"} => lock' = lock
        PROVE  Noticed'
    BY <1>4 DEF Noticed, Live, SavedIs, Current, Open
  <1>5. ASSUME SavedIs(work.mesh)' PROVE Noticed'
    BY <1>5 DEF Noticed
  <1>6. CASE Edit
    BY <1>2, <1>6 DEF Edit, Change, Editing, TypeOK
  <1>7. CASE ChangeView
    BY <1>2, <1>7 DEF ChangeView, Change, Editing, TypeOK
  <1>8. ASSUME NEW shown \in BOOLEAN, PreviewRestore(shown) PROVE Noticed'
    <2>1. CASE shown
      <3>1. [back |-> work.mesh, pending |-> requested # saved] \in Previews
        BY DEF Previews, TypeOK
      <3> QED BY <1>3, <1>8, <2>1, <3>1 DEF PreviewRestore
    <2>2. CASE ~shown
      BY <1>4, <1>8, <2>2 DEF PreviewRestore, Unscheduled
    <2> QED BY <2>1, <2>2
  <1>9. CASE ApplyRestore
    BY <1>2, <1>9 DEF ApplyRestore, Editing, TypeOK
  <1>10. CASE CancelRestore
    <2>1. CASE preview.pending
      BY <1>2, <1>10, <2>1 DEF CancelRestore, Editing, TypeOK
    <2>2. CASE ~preview.pending
      <3>1. Open /\ requested = saved /\ work'.mesh = Kept /\ UNCHANGED <<gens, descriptor>>
        BY <1>10, <2>2 DEF CancelRestore, Editing, Keys, Kept, TypeOK
      <3>2. SavedIs(Kept)
        BY <3>1 DEF Keys
      <3> QED BY <1>5, <3>1, <3>2 DEF SavedIs, Current
    <2> QED BY <2>1, <2>2
  <1>11. CASE Close
    <2>1. CASE lock' = "close"
      BY <2>1 DEF Noticed, Live
    <2>2. CASE session' = "closed"
      BY <1>3, <2>2 DEF Open
    <2> QED BY <1>11, <2>1, <2>2 DEF Close
  <1>12. CASE Discard \/ Crash
    BY <1>3, <1>12 DEF Discard, Crash, Open
  <1>13. CASE Reopen
    <2>1. session' = "open" /\ saved' = revision'
      BY <1>13 DEF Reopen
    <2> QED BY <1>5, <2>1 DEF Keys
  <1>14. CASE Build
    BY <1>14 DEF Build, Noticed, Live
  <1>15. CASE Duplicate
    BY <1>4, <1>15 DEF Duplicate
  <1>16. ASSUME NEW t \in Timers, Timer(t) PROVE Noticed'
    <2>1. CASE TimerFires(t)
      <3>1. timers'[t] = "called"
        BY <2>1 DEF TimerFires, TypeOK
      <3> QED BY <1>1, <3>1
    <2>2. CASE StartAutosave(t)
      <3>1. CASE ~Open
        BY <1>3, <2>2, <3>1 DEF StartAutosave, Open
      <3>2. CASE Open
        <4>1. timers'[t] \in {"armed", "launching"}
          BY <2>2, <3>2 DEF StartAutosave, TypeOK
        <4> QED BY <1>1, <4>1
      <3> QED BY <3>1, <3>2
    <2>3. CASE LaunchWorker(t)
      <3>1. PICK w \in Workers : workers'[w] = [key |-> requested, stage |-> "waiting", stop |-> FALSE]
        BY <2>3 DEF LaunchWorker, TypeOK
      <3>2. requested' = requested /\ workers'[w] # None
        <4>1. [key |-> requested, stage |-> "waiting", stop |-> FALSE] \in Runs
          BY DEF TypeOK, Runs
        <4> QED BY <2>3, <3>1, <4>1 DEF LaunchWorker
      <3> QED BY <3>1, <3>2 DEF Noticed, Live
    <2> QED BY <1>16, <2>1, <2>2, <2>3 DEF Timer
  <1>17. ASSUME NEW w \in Workers,
                UNCHANGED <<session, preview, work, gens, descriptor, timers, requested, warned>>,
                error => error', lock \notin {"close", "build"},
                \A v \in Workers \ {w} : workers'[v] = workers[v],
                workers[w] # None /\ workers[w].key = requested /\ (workers[w].stage = "failed" \/ ~workers[w].stop) =>
                    \/ error'
                    \/ /\ workers'[w] # None /\ workers'[w].key = requested
                       /\ workers'[w].stage = "failed" \/ ~workers'[w].stop
         PROVE  Noticed'
    <2>1. Noticed => Noticed'
      BY <1>17 DEF Noticed, Live, SavedIs, Current, Open
    <2> QED BY <2>1
  <1>18. ASSUME NEW w \in Workers, Worker(w) PROVE Noticed'
    <2>1. CASE WorkerEnters(w)
      <3>1. CASE Superseded(w)
        <4>1. CASE ~Open \/ preview # None
          BY <1>3, <2>1, <4>1 DEF WorkerEnters, Open
        <4>2. CASE workers[w].key # requested
          BY <1>17, <2>1, <3>1, <4>2 DEF WorkerEnters, TypeOK
        <4> QED BY <3>1, <4>1, <4>2 DEF Superseded
      <3>2. CASE ~Superseded(w)
        <4>1. workers[w] \in Runs /\ workers' = [workers EXCEPT ![w] = [workers[w] EXCEPT !.stage = "saving"]]
          BY <2>1, <3>2 DEF WorkerEnters, TypeOK
        <4>2. workers'[w] \in Runs /\ workers'[w].key = workers[w].key /\ workers'[w].stop = workers[w].stop
          <5>1. workers'[w] = [workers[w] EXCEPT !.stage = "saving"]
            BY <4>1 DEF TypeOK
          <5> QED BY <4>1, <5>1, RunMoved
        <4>3. workers[w].stage = "waiting" /\ lock = None
          BY <2>1 DEF WorkerEnters
        <4>4. \A v \in Workers \ {w} : workers'[v] = workers[v]
          BY <4>1 DEF TypeOK
        <4> QED BY <1>17, <2>1, <4>2, <4>3, <4>4 DEF WorkerEnters
      <3> QED BY <3>1, <3>2
    <2>2. CASE WorkerReports(w)
      BY <1>17, <2>2 DEF WorkerReports, TypeOK
    <2> QED BY <1>18, <2>1, <2>2 DEF Worker
  <1>19. CASE WriteGeneration
    <2>1. descriptor # None => Current \in Ids /\ Current # nextGen
      BY DEF Layout, TypeOK
    <2>2. descriptor # None => gens'[Current] = gens[Current]
      BY <1>19, <2>1 DEF WriteGeneration
    <2> QED BY <1>19, <2>2 DEF WriteGeneration, Noticed, Live, SavedIs, Current, Open
  <1>20. CASE WriteDescriptor
    <2>1. descriptor' = [current |-> nextGen - 1,
                         previous |-> IF descriptor = None THEN None ELSE descriptor.current]
          /\ save = "descriptor" /\ UNCHANGED <<gens, work>>
      BY <1>20 DEF WriteDescriptor
    <2>2. descriptor' # None /\ gens[nextGen - 1].mesh = work.mesh
      BY <2>1 DEF TypeOK, Pairs, Layout
    <2> QED BY <1>5, <2>1, <2>2 DEF SavedIs, Current
  <1>21. CASE PruneGenerations
    <2>1. /\ save = "prune" /\ save # None
          /\ UNCHANGED <<session, work, preview, requested, error, warned, threads, lock, descriptor>>
      BY <1>21 DEF PruneGenerations, Steps
    <2>2. gens[Current].mesh = work.mesh /\ Current \in Ids /\ (Fallback # None => Fallback < Current)
      BY <2>1 DEF Layout
    <2>3. Ids \subseteq Nat /\ (Fallback # None => Fallback \in Nat) /\ descriptor # None
      BY <2>1, <2>2 DEF TypeOK, Pairs, Fallback, Layout
    <2>4. gens'[Current] = gens[Current]
      BY <1>21, <2>2, <2>3 DEF PruneGenerations, Ids, Current, Fallback
    <2> QED BY <1>5, <2>1, <2>2, <2>3, <2>4 DEF SavedIs, Current
  <1>22. CASE FinishSave
    <2>1. save = "finish" /\ UNCHANGED <<work, gens, descriptor>>
      BY <1>22 DEF FinishSave
    <2> QED BY <1>5, <2>1 DEF Layout, SavedIs, Current
  <1>23. CASE SaveCancelled
    <2>1. lock \in Workers /\ workers[lock].stop /\ lock \notin {"close", "build"}
      BY <1>23 DEF SaveCancelled, Stoppable
    <2>2. workers[lock].stage = "saving"
      BY <1>0, <2>1
    <2> QED BY <1>17, <1>23, <2>1, <2>2 DEF SaveCancelled, TypeOK
  <1>24. CASE SaveFails
    <2>1. CASE lock \in Workers
      <3>1. workers[lock] \in Runs /\ workers[lock].key = requested /\ lock \notin {"close", "build"}
        BY <1>0, <2>1 DEF TypeOK
      <3>2. workers' = [workers EXCEPT ![lock] = [workers[lock] EXCEPT !.stage = "failed"]]
        BY <1>24, <2>1 DEF SaveFails
      <3>3. workers'[lock] \in Runs /\ workers'[lock].stage = "failed" /\ workers'[lock].key = requested
        <4>1. workers'[lock] = [workers[lock] EXCEPT !.stage = "failed"]
          BY <2>1, <3>2 DEF TypeOK
        <4> QED BY <3>1, <4>1, RunMoved
      <3> QED BY <1>24, <2>1, <3>3 DEF SaveFails, Noticed, Live
    <2>2. CASE lock \notin Workers
      <3>1. lock \in {"close", "build"}
        BY <1>24, <2>2 DEF SaveFails, Locking, TypeOK, Steps
      <3> QED BY <1>24, <3>1 DEF SaveFails, Noticed, Live
    <2> QED BY <2>1, <2>2
  <1>25. CASE CopyReads \/ CopyLists \/ CopyProject
    BY <1>4, <1>25 DEF CopyReads, CopyLists, CopyProject
  <1>26. CASE CopyGeneration \/ RecordCopy \/ CopyFails
    <2>1. /\ copy # None /\ (copy.kind = "built" => lock = "build" /\ save = None)
          /\ lock' = lock \/ copy.kind = "built"
          /\ UNCHANGED <<session, work, preview, requested, revision, saved, error, warned, threads, gens, descriptor>>
      BY <1>26 DEF CopyGeneration, RecordCopy, CopyFails, Copying
    <2>2. CASE lock' = lock
      BY <1>4, <2>1, <2>2
    <2>3. CASE copy.kind = "built"
      <3>1. saved = revision /\ Open
        BY <2>1, <2>3 DEF Built, Locking
      <3> QED BY <1>5, <2>1, <3>1 DEF Keys, SavedIs, Current, Open
    <2> QED BY <2>1, <2>2, <2>3
  <1>27. CASE Damage
    <2>1. PICK i \in Ids : gens' = [gens EXCEPT ![i].whole = FALSE]
      BY <1>27 DEF Damage
    <2>2. \A j \in Ids : gens'[j].mesh = gens[j].mesh /\ (gens'[j].whole => gens[j].whole)
      BY <2>1, GenerationDamaged DEF TypeOK, Ids
    <2>3. descriptor # None => Current \in Ids
      BY DEF Layout
    <2>4. SavedIs(work.mesh) => SavedIs(work.mesh)'
      BY <1>27, <2>2, <2>3 DEF Damage, SavedIs, Current
    <2> QED BY <1>27, <2>4 DEF Damage, Noticed, Live, Open
  <1>28. CASE UNCHANGED vars
    BY <1>4, <1>28 DEF vars
  <1> QED BY <1>6, <1>7, <1>8, <1>9, <1>10, <1>11, <1>12, <1>13, <1>14, <1>15, <1>16, <1>18, <1>19, <1>20,
             <1>21, <1>22, <1>23, <1>24, <1>25, <1>26, <1>27, <1>28
          DEF Next, User, Saving, CopyStep

(* While a session is open, a mesh that is not on disk is on its way there   *)
(* or shown as not saved (mesh_editor_autosave.py: the timer, the worker it  *)
(* starts and the errors both report).                                       *)
THEOREM NeverSilentlyUnsaved == Spec => []NothingSilentlyUnsaved
  <1>1. Init => Built /\ Noticed
    <2> SUFFICES ASSUME Init PROVE Built /\ Noticed
      OBVIOUS
    <2> QED BY DEF Init, Built, Noticed, SavedIs
  <1>2. (TypeOK /\ Locking /\ Store)' /\ (TypeOK /\ Locking /\ Store) /\ (Built /\ Noticed) /\ [Next]_vars
        => (Built /\ Noticed)'
    BY BuiltStep, NoticedStep
  <1>3. TypeOK /\ Store /\ Noticed => NothingSilentlyUnsaved
    <2> SUFFICES ASSUME TypeOK, Layout, Noticed, Open, preview = None, ~Damaged, OnDisk.mesh # work.mesh
                 PROVE  Live
      BY NoneAssumption DEF Store, NothingSilentlyUnsaved, Live
    <2>1. ~SavedIs(work.mesh)
      BY Restored DEF SavedIs, Damaged, Layout
    <2> QED BY <2>1 DEF Noticed
  <1> QED BY <1>1, <1>2, <1>3, StoreHolds, PTL DEF Spec
-----------------------------------------------------------------------------
LEMMA CopiedStep ==
    TypeOK /\ TypeOK' /\ Locking /\ Store /\ Store' /\ Built /\ Copied /\ [Next]_vars => Copied'
  <1> SUFFICES ASSUME TypeOK, TypeOK', Locking, Layout, Layout', Keeping, Built, Copied, [Next]_vars
               PROVE  Copied'
    BY DEF Store
  <1> USE NoneAssumption
  <1> USE DEF memory, threads, holding, disk, copying, bounds
  <1>0. /\ nextGen \in Nat /\ DOMAIN took \subseteq Nat
        /\ copy # None => copy \in Copies
        /\ \A i \in Ids : i < nextGen /\ i \in Nat /\ gens[i] \in Generations /\ gens[i].mesh \in Nat
        /\ descriptor # None => Current \in Ids /\ (Fallback # None => Fallback \in Ids /\ Fallback # Current)
    BY DEF TypeOK, Layout, Generations
  <1>1. ASSUME UNCHANGED <<copy, took, gens, descriptor, nextGen>> PROVE Copied'
    BY <1>1 DEF Copied, Anchor, Current, Fallback, Ids
  <1>2. ASSUME copy' = None PROVE Copied'
    BY <1>2 DEF Copied
  <1>3. CASE Edit \/ ChangeView \/ ApplyRestore \/ CancelRestore \/ \E shown \in BOOLEAN : PreviewRestore(shown)
    BY <1>1, <1>3 DEF Edit, ChangeView, ApplyRestore, CancelRestore, PreviewRestore, Change, Editing
  <1>4. CASE Close \/ Discard \/ Reopen
    BY <1>1, <1>4 DEF Close, Discard, Reopen
  <1>5. CASE Build
    <2>1. copy'.kind = "built" /\ copy'.step = "read" /\ DOMAIN took' = {}
      BY <1>5 DEF Build, NewCopy, Nothing
    <2> QED BY <2>1 DEF Copied
  <1>6. CASE Duplicate
    <2>1. copy'.kind = "duplicate" /\ copy'.step = "read" /\ copy'.saves = 0 /\ copy'.of = OnDisk.mesh
          /\ DOMAIN took' = {} /\ descriptor # None /\ UNCHANGED <<gens, descriptor>>
      BY <1>6 DEF Duplicate, NewCopy, Nothing
    <2>2. gens[Current].whole => OnDisk.mesh \in Nat /\ gens[Current].mesh >= OnDisk.mesh
      BY <1>0, <2>1, Restored
    <2> QED BY <2>1, <2>2 DEF Copied, Current
  <1>7. CASE \E t \in Timers : Timer(t)
    BY <1>1, <1>7 DEF Timer, TimerFires, StartAutosave, LaunchWorker
  <1>8. CASE \E w \in Workers : Worker(w)
    BY <1>1, <1>8 DEF Worker, WorkerEnters, WorkerReports
  <1>9. CASE WriteGeneration
    <2>1. UNCHANGED <<copy, took, descriptor>> /\ nextGen' = nextGen + 1 /\ Ids' = Ids \cup {nextGen}
          /\ \A i \in Ids : gens'[i] = gens[i]
      BY <1>0, <1>9 DEF WriteGeneration, Ids
    <2>2. descriptor # None => gens'[Current] = gens[Current] /\ (Fallback # None => gens'[Fallback] = gens[Fallback])
      BY <1>0, <2>1
    <2>3. Anchor' = Anchor /\ Current' = Current /\ Fallback' = Fallback
      BY <2>1 DEF Anchor, Current, Fallback
    <2>4. copy # None => \A i \in DOMAIN took : i < nextGen
      BY DEF Copied
    <2>5. ASSUME copy # None
          PROVE  \A i \in DOMAIN took : i < nextGen' /\ (i \in Ids' =>
                    took[i].mesh = gens'[i].mesh /\ (gens'[i].whole => took[i].whole))
      BY <1>0, <2>1, <2>4, <2>5 DEF Copied
    <2> QED BY <2>1, <2>2, <2>3, <2>5 DEF Copied
  <1>10. CASE WriteDescriptor
    <2>1. /\ save = "descriptor" /\ save # None /\ save' = "prune" /\ Open /\ preview = None
          /\ UNCHANGED <<took, gens, nextGen, work>>
      BY <1>10 DEF WriteDescriptor, Locking, Steps
    <2>2. descriptor' # None /\ Current' = nextGen - 1 /\ Fallback' = IF descriptor = None THEN None ELSE Current
      <3>1. descriptor' = [current |-> nextGen - 1, previous |-> IF descriptor = None THEN None ELSE descriptor.current]
        BY <1>10 DEF WriteDescriptor
      <3>2. descriptor' # None
        BY <3>1 DEF TypeOK, Pairs
      <3> QED BY <3>1, <3>2 DEF Current, Fallback
    <2>3. ASSUME copy # None
          PROVE  /\ copy'.step = copy.step /\ copy'.keep = copy.keep /\ copy'.pair = copy.pair
                 /\ copy'.saves = IF copy.saves < 2 THEN copy.saves + 1 ELSE copy.saves
                 /\ copy'.kind = copy.kind /\ copy'.of = copy.of /\ copy.saves \in 0 .. 2
      BY <1>0, <1>10, <2>3 DEF WriteDescriptor, Copies
    <2>4. \/ copy' = None
          \/ /\ copy # None
             /\ \A i \in DOMAIN took' : i < nextGen' /\ (i \in Ids' =>
                    took'[i].mesh = gens'[i].mesh /\ (gens'[i].whole => took'[i].whole))
      BY <1>10, <2>1 DEF WriteDescriptor, Copied, Ids
    <2>5. CASE copy # None /\ copy.kind = "built"
      <3>1. copy'.step = "read" /\ copy'.kind = "built"
        BY <2>1, <2>3, <2>5 DEF Built
      <3> QED BY <2>4, <3>1 DEF Copied
    <2>6. CASE copy # None /\ copy.kind = "duplicate" /\ copy.saves = 0
      <3>1. /\ descriptor # None /\ Fallback' = Current /\ Fallback' # None /\ copy'.saves = 1
            /\ copy'.kind = "duplicate" /\ Anchor = Current
        BY <1>0, <2>2, <2>3, <2>6 DEF Copied, Anchor, TypeOK
      <3>2. Anchor' = Current
        BY <3>1 DEF Anchor
      <3>3. /\ gens[Current].whole =>
                copy.of \in Nat /\ gens[Current].mesh >= copy.of /\ gens[Current].mesh <= work.mesh
            /\ gens[nextGen - 1].mesh = work.mesh /\ Current # nextGen - 1
        BY <2>1, <2>6, <3>1 DEF Copied, Keeping, Layout, Kept, TypeOK
      <3>4. gens[Current].mesh \in Nat /\ work.mesh \in Nat
        BY <1>0, <2>6, <3>1 DEF TypeOK
      <3>5. gens[Current].whole => gens[Current].mesh >= copy.of /\ gens[nextGen - 1].mesh >= copy.of
        BY <3>3, <3>4
      <3>6. /\ copy.step = "list" => Current \in copy.keep
            /\ copy.step = "files" => Current \in copy.keep \cup DOMAIN took
            /\ copy.step = "record" => Current \in DOMAIN took /\ copy.pair # None /\ copy.pair.current = Current
        BY <2>6, <3>1 DEF Copied, Current
      <3> QED BY <2>1, <2>2, <2>3, <2>4, <2>6, <3>1, <3>2, <3>3, <3>5, <3>6 DEF Copied
    <2>7. CASE copy # None /\ copy.kind = "duplicate" /\ copy.saves # 0
      <3>1. copy'.saves = 2 /\ copy'.kind = "duplicate"
        BY <2>3, <2>7
      <3> QED BY <2>2, <2>4, <3>1 DEF Copied
    <2>8. CASE copy = None
      BY <1>2, <1>10, <2>8 DEF WriteDescriptor
    <2> QED BY <1>0, <2>5, <2>6, <2>7, <2>8 DEF Copies
  <1>11. CASE PruneGenerations
    <2>1. save = "prune" /\ UNCHANGED <<copy, took, descriptor, nextGen>>
      BY <1>11 DEF PruneGenerations
    <2>2. Ids' \subseteq Ids /\ \A i \in Ids' : gens'[i] = gens[i]
      BY <1>11 DEF PruneGenerations, Ids
    <2>3. descriptor # None => Current \in Ids' /\ (Fallback # None => Fallback \in Ids')
      BY <2>1 DEF Layout, Current, Fallback, Ids
    <2>4. descriptor # None => gens'[Current] = gens[Current] /\ (Fallback # None => gens'[Fallback] = gens[Fallback])
      BY <2>2, <2>3
    <2>5. Anchor' = Anchor /\ Current' = Current /\ Fallback' = Fallback
      BY <2>1 DEF Anchor, Current, Fallback
    <2> QED BY <2>1, <2>2, <2>4, <2>5 DEF Copied
  <1>12. CASE FinishSave \/ SaveCancelled
    BY <1>1, <1>12 DEF FinishSave, SaveCancelled
  <1>13. CASE SaveFails
    BY <1>1, <1>2, <1>13 DEF SaveFails, NoCopy
  <1>14. CASE CopyReads
    <2>1. copy # None /\ copy \in Copies /\ descriptor # None
      BY <1>0, <1>14 DEF CopyReads, Copying, Built, Copied, Copies
    <2>2. Anchor \in NamedBy(descriptor)
      BY <2>1 DEF Anchor, NamedBy, Copied, Current, Fallback, TypeOK, Pairs
    <2>3. copy'.step = "list" /\ copy'.keep = NamedBy(descriptor) /\ copy'.kind = copy.kind
          /\ copy'.saves = copy.saves /\ copy'.of = copy.of /\ UNCHANGED <<took, gens, descriptor, nextGen>>
      BY <1>14, <2>1 DEF CopyReads, Copies
    <2>4. Anchor' = Anchor
      BY <2>3 DEF Anchor, Current, Fallback
    <2> QED BY <2>1, <2>2, <2>3, <2>4 DEF Copied, Current, Fallback, Ids
  <1>15. CASE CopyLists
    <2>1. copy # None /\ copy \in Copies /\ copy.step = "list" /\ descriptor # None
      BY <1>0, <1>15 DEF CopyLists, Copying, Built, Copied, Copies
    <2>2. (copy.kind = "duplicate" => copy.saves < 2) => Anchor \in copy.keep \cap Ids
      BY <1>0, <2>1 DEF Anchor, Copied
    <2>3. copy'.step = "files" /\ copy'.keep = copy.keep \cap Ids /\ copy'.kind = copy.kind
          /\ copy'.saves = copy.saves /\ copy'.of = copy.of /\ UNCHANGED <<took, gens, descriptor, nextGen>>
      BY <1>15, <2>1 DEF CopyLists, Copies
    <2>4. Anchor' = Anchor
      BY <2>3 DEF Anchor, Current, Fallback
    <2> QED BY <2>1, <2>2, <2>3, <2>4 DEF Copied, Current, Fallback, Ids
  <1>16. CASE CopyGeneration
    <2> DEFINE id == CHOOSE i \in copy.keep : \A j \in copy.keep : i <= j
    <2>1. copy # None /\ copy \in Copies /\ copy.step = "files"
      BY <1>0, <1>16 DEF CopyGeneration, Copying
    <2>2. CASE id \in Ids
      <3>1. copy' = [copy EXCEPT !.keep = @ \ {id}]
        BY <1>16, <2>2 DEF CopyGeneration
      <3>2. took' = [i \in DOMAIN took \cup {id} |-> IF i = id THEN gens[id] ELSE took[i]]
        BY <1>16, <2>2 DEF CopyGeneration
      <3>3. UNCHANGED <<gens, descriptor, nextGen>>
        BY <1>16 DEF CopyGeneration
      <3> HIDE DEF id
      <3>4. copy'.step = "files" /\ copy'.keep = copy.keep \ {id} /\ copy'.kind = copy.kind
            /\ copy'.saves = copy.saves /\ copy'.of = copy.of
        BY <2>1, <3>1 DEF Copies
      <3>5. DOMAIN took' = DOMAIN took \cup {id} /\ took'[id] = gens[id]
            /\ \A i \in DOMAIN took : i # id => took'[i] = took[i]
        BY <3>2
      <3>6. Anchor' = Anchor
        BY <3>3, <3>4 DEF Anchor, Current, Fallback
      <3>7. \A i \in DOMAIN took' : i < nextGen /\ (i \in Ids =>
                took'[i].mesh = gens[i].mesh /\ (gens[i].whole => took'[i].whole))
        BY <1>0, <2>1, <2>2, <3>5 DEF Copied
      <3>8. (copy.kind = "duplicate" => copy.saves < 2) => Anchor \in copy'.keep \cup DOMAIN took'
        BY <2>1, <3>4, <3>5 DEF Copied
      <3> QED BY <2>1, <3>3, <3>4, <3>6, <3>7, <3>8 DEF Copied, Current, Fallback, Ids
    <2>3. CASE id \notin Ids
      BY <1>2, <1>16, <2>3 DEF CopyGeneration, NoCopy
    <2> QED BY <2>2, <2>3
  <1>17. CASE CopyProject
    <2>1. copy # None /\ copy \in Copies /\ copy.step = "files" /\ copy.keep = {} /\ descriptor # None
          /\ descriptor \in Pairs
      BY <1>0, <1>17 DEF CopyProject, Copying, Built, Copied, Copies, TypeOK
    <2>2. copy'.step = "record" /\ copy'.pair = descriptor /\ copy'.kind = copy.kind
          /\ copy'.saves = copy.saves /\ copy'.of = copy.of /\ UNCHANGED <<took, gens, descriptor, nextGen>>
      BY <1>17, <2>1 DEF CopyProject, Copies
    <2>3. Anchor' = Anchor
      BY <2>2 DEF Anchor, Current, Fallback
    <2>4. (copy.kind = "duplicate" => copy.saves < 2) => Anchor \in DOMAIN took
      BY <2>1 DEF Copied
    <2> QED BY <2>1, <2>2, <2>3, <2>4 DEF Copied, Current, Fallback, Ids
  <1>18. CASE RecordCopy \/ CopyFails \/ Crash
    BY <1>2, <1>18 DEF RecordCopy, CopyFails, Crash, NoCopy
  <1>19. CASE Damage
    <2>1. PICK i \in Ids : gens' = [gens EXCEPT ![i].whole = FALSE]
      BY <1>19 DEF Damage
    <2>2. Ids' = Ids
      BY <2>1 DEF Ids
    <2>3. \A j \in Ids : gens'[j].mesh = gens[j].mesh /\ (gens'[j].whole => gens[j].whole)
      BY <1>0, <2>1, GenerationDamaged DEF Ids
    <2>4. UNCHANGED <<copy, took, descriptor, nextGen>>
      BY <1>19 DEF Damage
    <2>5. Anchor' = Anchor /\ Current' = Current /\ Fallback' = Fallback
      BY <2>4 DEF Anchor, Current, Fallback
    <2> QED BY <1>0, <2>2, <2>3, <2>4, <2>5 DEF Copied
  <1>20. CASE UNCHANGED vars
    BY <1>1, <1>20 DEF vars
  <1> QED BY <1>3, <1>4, <1>5, <1>6, <1>7, <1>8, <1>9, <1>10, <1>11, <1>12, <1>13, <1>14, <1>15, <1>16,
             <1>17, <1>18, <1>19, <1>20
          DEF Next, User, Saving, CopyStep

(* What is frozen beside a built mod is what was built, and a duplicate opens *)
(* no older than its draft unless two saves completed while it was copied     *)
(* (copy_mesh_layer_project's two generations, the project file last).        *)
THEOREM CopiesAlwaysLoad == Spec => []CopiesLoad
  <1>1. Init => Built /\ Copied
    BY DEF Init, Built, Copied
  <1>2. (TypeOK /\ Locking /\ Store)' /\ (TypeOK /\ Locking /\ Store) /\ (Built /\ Copied) /\ [Next]_vars
        => (Built /\ Copied)'
    BY BuiltStep, CopiedStep
  <1>3. TypeOK /\ Locking /\ Store /\ Built /\ Copied => CopiesLoad
    <2> SUFFICES ASSUME TypeOK, Locking, Layout, Keys, Built, Copied,
                        copy # None, copy.step = "record", ~Damaged,
                        copy.kind = "built" \/ copy.saves < 2
                 PROVE  LET restored == Restores(copy.pair, took)
                        IN  IF copy.kind = "built" THEN restored.mesh = copy.of
                            ELSE restored # Broken /\ restored.mesh >= copy.of
      BY DEF Store, CopiesLoad
    <2>1. copy \in Copies /\ copy.kind \in {"built", "duplicate"}
      BY DEF TypeOK, Copies
    <2>2. /\ Anchor \in DOMAIN took /\ copy.pair # None
          /\ copy.pair = descriptor \/ (Anchor # Current /\ copy.pair.current = Anchor)
      BY <2>1 DEF Copied
    <2>3. \A i \in Ids : gens[i].whole
      BY DEF Damaged
    <2>4. \A i \in DOMAIN took \cap Ids : took[i].whole /\ took[i].mesh = gens[i].mesh /\ took[i].mesh \in Nat
      BY <2>3 DEF Copied, TypeOK, Generations
    <2>5. descriptor # None => Current \in Ids /\ (Fallback # None => Fallback \in Ids)
      BY DEF Layout
    <2>6. ASSUME NEW i \in DOMAIN took \cap Ids, copy.pair.current = i
          PROVE  Restores(copy.pair, took) # Broken /\ Restores(copy.pair, took).mesh = gens[i].mesh
      BY <2>2, <2>4, <2>6, NoneAssumption DEF Restores, Intact, Broken
    <2>7. CASE copy.kind = "built"
      <3>1. save = None /\ saved = revision /\ descriptor # None /\ copy.of = work.mesh /\ Open
        BY <2>7, NoneAssumption DEF Built, Locking
      <3>2. gens[Current].mesh = work.mesh
        BY <2>3, <2>5, <3>1 DEF Keys, SavedIs, Open
      <3>3. Anchor = Current /\ copy.pair.current = Current
        BY <2>2, <2>7 DEF Anchor, Current
      <3> QED BY <2>2, <2>5, <2>6, <2>7, <3>1, <3>2, <3>3
    <2>8. CASE copy.kind = "duplicate" /\ copy.saves = 0
      <3>1. descriptor # None /\ gens[Current].mesh >= copy.of
        BY <2>3, <2>5, <2>8 DEF Copied
      <3>2. Anchor = Current /\ copy.pair.current = Current
        BY <2>2, <2>8 DEF Anchor, Current
      <3> QED BY <2>2, <2>5, <2>6, <2>8, <3>1, <3>2
    <2>9. CASE copy.kind = "duplicate" /\ copy.saves = 1
      <3>1. /\ descriptor # None /\ Fallback # None /\ Fallback \in Ids /\ Current \in Ids
            /\ gens[Fallback].mesh >= copy.of /\ gens[Current].mesh >= copy.of
        BY <2>3, <2>5, <2>9 DEF Copied
      <3>2. Anchor = Fallback /\ Fallback \in DOMAIN took
        BY <2>2, <2>9 DEF Anchor
      <3>3. CASE copy.pair.current = Fallback
        BY <2>6, <2>9, <3>1, <3>2, <3>3
      <3>4. CASE copy.pair = descriptor /\ Current \in DOMAIN took
        BY <2>6, <2>9, <3>1, <3>4 DEF Current
      <3>5. CASE copy.pair = descriptor /\ Current \notin DOMAIN took
        <4>1. Restores(copy.pair, took).mesh = gens[Fallback].mesh /\ Restores(copy.pair, took) # Broken
          BY <2>2, <2>4, <3>1, <3>2, <3>5, NoneAssumption DEF Restores, Intact, Broken, Current, Fallback
        <4> QED BY <2>9, <3>1, <4>1
      <3> QED BY <2>2, <3>2, <3>3, <3>4, <3>5
    <2> QED BY <2>1, <2>7, <2>8, <2>9 DEF Copies
  <1> QED BY <1>1, <1>2, <1>3, StoreHolds, PTL DEF Spec
==============================================================================
