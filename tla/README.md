# CDMW: specifications of its concurrent and recoverable parts

Crimson Desert Mod Workbench (CDMW) is a Windows desktop application for making
mods. Much of it reads archives, edits meshes, textures and tables, and writes
packages into a workspace folder; that part computes data from data. These
modules specify the rest, the parts in which threads, processes, files and
failures meet:

- what changes a game installation: the game's own archives, the overlay archive
  mounted next to them, the ledgers that say which item identity belongs to whom,
  and the private view that a virtual session serves;
- what keeps the work of the Mesh Editor: the autosaved drafts of its sessions,
  and the materials it publishes to a renderer in another process;
- the archive helper, a worker process with a client and a service in front of it
  that answer the user interface in spite of crashes, stalls and restarts.

They are written with locks, journals, generations, witnesses, retries and
rollbacks, and they are where tests reach least. The modules state what they do
in TLA+, TLC checks it on small instances, and TLAPS proves what should hold for
every instance.

Paths below are relative to `src/cdmw/` unless they start with `src/`.

Contents: [inventory](#1-inventory), [modules](#2-modules-and-the-code),
[runs](#3-runs-bounds-and-what-they-show), [fairness](#4-fairness),
[proofs](#5-proofs), [findings](#6-findings), [limits](#7-not-modelled-and-why),
[plan](#8-plan).

## 1. Inventory

### Parts that change an installation

| Part | State it keeps | Operations | What makes it hard |
|---|---|---|---|
| **Identity ledgers and virtual profile**: `services/virtual_loader_state.py`, `services/independent_item_install.py`, `services/virtual_loader_composition.py`, `services/dmm_send.py` (`_keep_identities`) | registry `.cdmw/independent-items.json`, profile `.cdmw/virtual-loader/profile.json`, `transaction.json`, a directory, a manifest and a recovery witness per generation | observe, compose, recheck, `publish_profile`, `recover_profile`, item install and removal, identity deletion, the reservations a send to DMM keeps | two files that must change together; prepared without a lock while other processes publish; failures after the effect; death between two writes; files edited by other programs; a send that replaces the registry without the lane |
| **Installation lane**: `services/installation_lane.py` | one lock file per installation, `_local.held` per thread, the presence of a journal | enter, re-enter, refuse, recover, leave | nesting of contexts, several installations taken in either order, an interrupted transaction that must be isolated |
| **Application shutdown**: `services/application_shutdown_service.py`, `ui/shell/close_controller.py` | admitted writes, the shutdown deadline, the window's close state | `archive_write_scope`, close, accept, the watchdog's exit | a write that starts while the window closes; workers and event loops that hang |
| **Overlay change and rollback**: `services/overlay_target_recovery.py` | `mutation-journal.json`, preserved originals, the contents known last per target | `mutate`, `commit`, `rollback` | a writer that fails after its effect; a journal that cannot be saved; foreign writes between two looks |
| **Overlay plans**: `services/archive_overlay_install.py`, `archive_overlay_manager.py`, `archive_overlay_migration.py`, `independent_item_install.py` | archive directory, mount list, `overlays.json`, layer journals, ledgers | install, change and remove layers, remove the overlay, migrate, retire, delete an identity | the order of writes: a mount list must never name an archive that is not there |
| **Archive patching**: `core/archive_patching.py`, `core/archive_entry_addition.py`, `services/archive_mutation_service.py` | PAZ files, `0.pamt` indexes, `meta/0.papgt`, loose `0.pathc`, backups with manifests | `apply_patch`, `restore_backup` | a chain of checksums over three levels of files, appends that stop halfway, cancellation, a restore that is itself interrupted |

### Parts that keep and show the work in progress

| Part | State it keeps | Operations | What makes it hard |
|---|---|---|---|
| **Mesh drafts**: `services/mesh_service.py`, `mesh_layer_project_service.py`, `mesh_saved_work_service.py`, `mesh_service_refit_recovery.py`, `workers/mesh_editor_workers.py` | the session's revision, the key requested and the key saved, timers, worker threads, `export_lock`; on disk the generations of a project and `mesh_layer_project.json` | edit, show and hide parts, preview and apply a shape restore, autosave, close, discard, reopen, freeze for a built mod, duplicate | timers that fired cannot be cancelled; threads that wait for a lock until they are out of date; pruning next to copying; a save that fails or dies between two files |
| **Mesh material publication**: `services/mesh_material_publication.py`, `ui/mesh_editor/tab_dotnet_*.py` | the active, queued and unacknowledged publications, a compiler thread, per-pane counters of what was wanted and what was applied | ask, compile, publish, acknowledge, flush, renderer restart, package boundary, session stop | results, acknowledgements and events of earlier renderers and packages arriving late; work put off until an answer that may never come |
| **Archive helper and its client**: `ui/shell/archive_backend_client.py` | one process, pending and queued requests, the least accepted generation, restart and abort state | start, handshake, submit, cancel, invalidate, read, notice the exit, restart, abort, shut down | replies still unread after the process ended; callbacks that call back; kills that take time |
| **Archive catalogue service**: `services/archive_catalogue_service.py` | logical requests with attempts and deadlines, sessions, their fingerprints, sessions being reopened | open, read, export, cancel, invalidate, retry, reopen, watchdog, shut down | a retry that must not repeat an effect, a session that must be opened again over the same archives, supersession in the middle of it |

How they interact:

- A change of overlays, a patch and a publication each run inside
  `archive_write_scope` (counted for shutdown) and then inside
  `installation_lane` (exclusive among threads and processes). A rollback enters
  both again from within; a failed publication calls the recovery that is
  allowed in over its own journal.
- Item installs and deletions prepare against the ledgers and the overlay index
  that `_observe_state` recorded, and their publication compares these bytes
  again inside the lane. A send to DMM prepares in the same way, but when its mod
  is ready it replaces the registry without the lane, without looking for a
  journal and without comparing anything.
- Overlay changes are sequences of writers handed to `OverlayTargetRecovery`.
  Some callers also make a full backup first, and hand over the
  `restore_backup` of the archive service to be called by the rollback.
- Launching a virtual session checks the profile inside the lane, gives the lane
  back, and starts a native host that takes the lane itself.

- The catalogue service owns the client and is called back by it: every signal
  the client emits is handled inside the call that emits it. The service's
  logical requests outlive the transport requests of the client.
- A mesh session, its autosave threads and the builder of a mod share one
  `export_lock`; timers and the duplication of a draft do not take it, and meet
  the saves on disk. A built mod freezes the draft it was built from.
- The Mesh Editor tab asks the publication coordinator, hands compiles to one
  thread at a time, and talks to a renderer process in messages and events.

### Parts that are not modelled yet

Session launch and runtime setup (`virtual_loader_runtime.py`); session receipts
(`virtual_loader_receipts.py`); save backups; the atomic publication of several
files (`core/atomic_file.py`); mesh history and resident transactions
(`mesh_service_history.py`, `mesh_service_resident_transaction.py`); preview
sessions (`ui/preview/dotnet_session.py`); the single instance guard and the reaper
of orphaned helpers; the device test runner. Each keeps state; section 8 says which
module of the plan will cover it.

### Parts that are outside the modelling

Codecs and tables (`domain/`, `modding/`, the format modules of `core/`),
rendering, widgets, localization, texture batches, diagnostics, native helpers,
developer tools. They compute data from data, or only show it. Where a modelled
part relies on a format (the mount list's record order, the place of a checksum)
the module models that fact of the format.

### What correctness means here

- Ledgers: whoever uses an identity finds it reserved, for no layer but its owner;
  both ledgers change in one step as readers see it, without lost updates; an
  interrupted publication can always be decided and is settled; what the caller is
  told is what the files say; a file that another program replaced is never
  overwritten; a registry that was accepted is accepted after a send.
- Lane and shutdown: one thread per installation; only the right operation works
  over an interrupted journal; every lane is given back; no exit cuts a write;
  a closed window ends.
- Overlay changes: evidence before effect; a truthful journal; originals kept as
  long as they may be needed; foreign contents spared; a rollback that gives up
  only when something else failed; no mounted archive without its files.
- Patching: every entry of every index on disk is readable at every moment;
  success, failure and restore mean exactly what they say; a backup covers what
  may have to be taken back; the checksum chain is linked after a clean end.
- Mesh drafts: a completed save stays restorable whatever comes later; a closed
  session is on disk; an unsaved mesh is on its way there or shown as unsaved; a
  copy of a draft opens.
- Materials: a pane called textured is textured; no compile runs that nobody
  wants; what is queued is compiled; what was put off has something to wait for.
- Archive helper and catalogue: a request is answered or refused, once; exports
  are sent once; a recovered read is of the archives it was asked of; there is
  one worker, and none after the shutdown.

## 2. Modules and the code

    LedgerStore            what readers of the ledgers are promised
      ^ implemented by
    VirtualProfile         virtual_loader_state.py and its callers, file by file
    InstallLane            installation_lane.py, application_shutdown_service.py
    RecoverableChange      what a confirmed change to several files promises
      ^ implemented by
    OverlayRecovery        overlay_target_recovery.py, for any plan
      ^ extended by
    OverlayPlans           the plans of the callers
    ArchivePatch           archive_patching.py under archive_mutation_service.py
    MeshDraft              autosave, close and copies of mesh sessions
    MaterialPublication    publication coordinator, compiler thread, tab, renderer
    BackendClient          the archive helper process and its client
      ^ composed with
    CatalogueService       the service in front of it, as the interface sees it

    LedgerStoreProofs, VirtualProfileProofs, InstallLaneProofs,
    OverlayRecoveryProofs (with OverlayPlans), ArchivePatchProofs,
    MeshDraftProofs, MaterialPublicationProofs, CatalogueProofs
                                                theorems
    MC*                                         values of the constants for TLC

`PROJECT.json` maps every definition to the lines it stands for.

**LedgerStore.** One variable, `store`: registry, profile, and which overlay layer
owns which identity. One atomic action per change: `Publish` (a virtual profile),
`ArchiveInstall` and `ArchiveRemove` (an overlay layer with an identity), `Forget`
(identity deletion). A package's keys and contents are one value, its *binding*.
`VirtualLoading` is the constant `VIRTUAL_LOADING_ENABLED` (`constants.py:13`):
`Publish` refuses what an overlay layer owns only while it is TRUE.

**VirtualProfile.** The same ledgers as files, with the journal, and per process
(`Procs`) a program counter through preparation (`ObserveIndex`,
`ObserveRegistry`, `ObserveProfile`, `LoadRegistry`, `Compose`,
`RecheckPreparation`; no lock is held, so anything may happen between them) and
publication (`EnterLane`, `StageGeneration`, `WriteManifest`, `WriteWitness`,
`WriteJournal`, `WriteRegistry`, `WriteProfile`, `UnlinkJournal`), and through
recovery (`SelectSide`, `RestoreRegistry`, `RestoreProfile`, `VerifyRecovered`,
`UnlinkRecovered`, and `JudgeMissingJournal` and `Finish` where a publication looks
at what became of it), started by a user or by a failed publication. Every file
operation succeeds, fails before its effect or fails after it. `Crash` drops a
process and its lane between any two steps. `Edit` is another program that
changes a ledger, a manifest, a generation or a witness while no CDMW process
holds the lane, or while one is about to recover. `KeepIdentities` is a send to DMM
(`dmm_send.py:223-283`): from a composition like any other it replaces the registry,
whoever holds the lane and whatever was written since. Both are bounded by
`MaxStrays`; `Undisturbed` says that neither has happened, and what the code keeps
only until then is stated under it. `ArchiveInstall`, `ArchiveRemove` and `Forget` are the effects on
the ledgers of overlay changes, which OverlayRecovery models in detail and which
are atomic here. `Visible` is what the files say to a reader; it is the
refinement mapping to LedgerStore.

As released `VIRTUAL_LOADING_ENABLED` is False (the tests set it, `tests/conftest.py:21`).
`resolve_items` then passes over a layer that owns the package
(`independent_item_install.py:608-612`) and rewrites the package's row with no layer
(721-722), while `overlays.json` goes on listing the layer; `load_registry` refuses
this registry until the layer is removed (138-141). Publication and recovery of the
profile are reached from `ui/new_item/virtual_loader_page.py` only, which is shown
when the flag is set; composition, sends, and the changes of layers and identities
are there without it. The runs set `VirtualLoading` to FALSE: that only takes a
conjunct from the guard of `Compose`, so it has every behaviour of TRUE, and what
TLC finds to hold of it holds of both. The theorems are proved for both.

**InstallLane.** An operation is the sequence of contexts its function enters:
`Scope` (archive_write_scope), `Lane(r)`, `RecoveryLane(r)`. `Operations` lists
the sequences callers use, `Extended` those that a rollback or a recovery nested
in a transaction adds. `lock` is the lock file, `held` the thread-local set,
`owning` the frames that locked a file (and unlock it on leaving), `admitted` the
counted writes. `Close`, `AcceptClose` and `Quit` are the window's way out,
`GraceExpires` and `WatchdogExit` the watchdog's. A thread may fail in its body
or at any entry, and unwinds.

**RecoverableChange / OverlayRecovery / OverlayPlans.** RecoverableChange keeps
four facts: all files new, all files old, evidence on disk, the answer given.
OverlayRecovery is the algorithm of `OverlayTargetRecovery`, parameterised by a
*plan*: contents before, steps, where the caller may stop, whether it has a full
backup, whether its restore is confirmed. Every step is announced in the journal
(`Announce`), carried out (`Operate`), verified (`Verify`) and recorded
(`Record`); the rollback surveys, restores, unlinks, verifies and settles. Every
save and every writer fails before or after its effect; `Meddle` is a foreign
program that knows no lane. Contents are "old", "older" (an older backup's), "new",
missing or foreign; that is all the code compares. OverlayPlans gives ten plans of
six callers, with the order of their writes.

**ArchivePatch.** Two directories with three PAZ files, their indexes and the
mount list. A checksum is represented by the contents it is computed from, so a
stale checksum is one that differs from the file. A patch makes its backup, then
takes one directory after the other: it appends payloads (possibly torn) and
writes the index. The mount list follows once for all of them, then the loose
index file, and the changed entries are read back. Any failure or cancellation
restores the backup in manifest order (`Precedes`), first inside
`_run_archive_mutation`, then once more in the service, as their `except` blocks do.
`RestoreBackup` is the user's restore of any earlier patch that is not undone yet;
`inOrder` records whether each was that of the latest one.

**MeshDraft.** One session at a time, reopened after it closed or the program
died. `work` is what it holds, reduced to a mesh and the View ticks; `revision`,
`requested` and `saved` are the autosave's keys. `Timers` are `threading.Timer`s:
armed, called (cancelling no longer helps) or launching a thread. `Workers` are the
autosave threads: waiting for `lock` (the export lock), saving, or about to report
a failure. A save has four durable steps, `WriteGeneration`, `WriteDescriptor`,
`PruneGenerations` and `FinishSave`, whoever holds the lock: a worker, `Close` or
`Build`. It fails, is cancelled or dies between any two; a generation may be damaged
on disk. A copy of the draft (`Build` under the lock, `Duplicate` without it) reads
the project file, lists the folder, copies the generations the project named, the
oldest first, and the project file last. `Restores` is what opening a draft yields.
`promised` records what completed saves reported, and is compared, never used.

**MaterialPublication.** `pub` is the coordinator (one active publication, a queue,
those waiting for an acknowledgement; a queued request carries its place, and the
next one is that of the least place), `compiler` the one thread that compiles,
`tab` the counters per pane (desired, completed, applied), `posted` the callbacks
waiting in the main loop, `host` the renderer as the tab knows it, `renderer`,
`pipe` and `replies` the other process, modelled from the messages the tab sends
and the events it accepts. The path exists only for a helper that declares
`resident_material_updates_v2` (`tab_shell.py:281`); the Rust renderer of
`src/tools/rust_mesh_lab` does not, so the renderer here is an external one.

**BackendClient / CatalogueService.** Client and worker are one record,
`transport`, and the service is another, `service`. Each method of the client is an
operator from transport to transport that adds the signals it emits, because methods
run to completion on the main loop and call one another. What runs on the main loop
is a *call*: its signals are heard one after the other (`HearEnding`, `HearCrashed`,
`HearReady`), then the sessions that are due are opened again (`StartReopen`), then
the requests that have theirs again are sent (`Resume`), then the client goes on where
it left off (`FlushNow`, `ReadOn`); these are small steps (`CallGoesOn`), and nothing
else happens on the main loop, or in the worker, before they are done (`AtRest`). The
order among the signals of one call is left open. A request's *wire* is its number
and its attempt; a session is named after the request that opened it and carries the
version of the archives it was opened over, its fingerprint. The worker answers in any
order, dies at any time, or keeps quiet; the interface asks, cancels, starts a new
generation and shuts down. The queue of the client is a set: all of it is written, or
all of it fails.

## 3. Runs, bounds and what they show

All bounds are constants and appear in guards; a bound stops an action, it never
hides a state.

| Run | Instance | Shows |
|---|---|---|
| `profile` | 2 processes, 1 identity, 1 binding, 2 generations, 1 overlay layer, 1 failure, 1 death, 1 write without the lane, virtual loading off, fairness | until a file is written without the lane: the ledgers agree whenever no journal is left, every owner finds its reservation, a journal can always be decided and is settled, the files implement LedgerStore. With it, too: a replaced ledger is not overwritten, a journal is closed over verified ledgers only, and (but for a send) the outcome reported is what the files say |
| `profile_sends` | 1 process, 1 identity, 1 overlay layer, 1 send | violation: see finding 5 |
| `profile_dirty_read` | 2 processes, 1 identity, 2 generations, 1 failure | violation: see finding 1 |
| `lane` | 2 threads of one window, 2 installations, 1 death, fairness | exclusion, isolation of journals, lanes given back, exits that spare writes, a closed window ends |
| `overlay_changes` | all ten plans, 2 failures, 1 foreign write, a crash anywhere | evidence, truthful journal, originals, mounted archives whole, foreign contents spared, rollbacks that give up only on a failure, the promise of RecoverableChange |
| `overlay_identity` | identity deletion, 2 failures | violation: see finding 2 |
| `patch` | 2 directories, 3 PAZ files, 3 requests, 2 patches, 2 failures, 1 death, restores in any order | exact outcomes and covering backups; readable entries and linked checksums until a restore is made below a later patch |
| `patch_overlay` | the same with an overlay mounted | violation: see finding 3 |
| `drafts` | 2 edits, 1 copy, 2 sessions, 1 mishap (failure, damage or death), 2 timers, 2 threads, fairness | saves stay restorable, closed sessions are saved, nothing is silently unsaved, copies open, every edit reaches the disk or an error |
| `materials` | imported and reference kinds, 3 numbered requests, 1 geometry edit, 2 textures, 1 restart or package, 1 fault, fairness | textured panes are textured, no orphaned compile, a gate that has its key, a queue that drains |
| `catalogue` | 3 operations, 1 session, 2 requests, 2 generations, 1 death, 1 fault, 1 change of the archives, fairness | nobody forgotten, nothing replayed, answers that fit, one worker, everything settles, shutdown leaves no worker |
| `catalogue_reopening` | the same | violation: see finding 4 |

Why these bounds are enough for the cases the properties are about:

- *Two processes, two generations.* A lost update needs one publication between
  the observation and the publication of another. One fault and one death let a
  publication fail in any step, then a recovery of another process be interrupted
  or meet the remains. `MaxGen` = 2 is what two publications use; a third adds
  interleavings of the same pairs.
- *`FirstToPrepare`* in `MCVirtualProfile` lets the process p1 be the first that
  prepares. The specification, its fairness and its properties treat all processes
  alike, so every behaviour is one of these with the processes renamed; unlike TLC's
  symmetry sets this is sound for liveness, too.
- *One identity in `profile`.* A selection has it or not, and a layer claims it by
  another way; what one identity's row says does not bear on another's. Ledgers
  change as a whole, so updates are lost in one as in many. The theorems of section 5
  hold for any number of identities.
- *One write without the lane.* By another program or by a send, at any moment at
  which one can happen; whatever is promised only until then is stated so, and what
  is promised beyond it is about what recovery does with this one change.
- *Two threads and two installations in `lane`.* The threads differ in `Tracked`
  (a QThread the window waits for, an executor thread the interpreter joins) and
  take the lanes in either order. The theorems in section 5 drop the bounds
  altogether: they hold for any number of processes, threads and installations.
- *Two failures in `overlay_changes` and `patch`.* The first starts a rollback,
  the second interrupts it. A third could only interrupt a rollback that has
  already given up.
- *Two patches.* A restore of the first below the second is the shortest history
  in which a backup is stale, and it is part of the run.
- *Two timers, two threads in `drafts`.* One timer that is late and one that was
  armed meanwhile; one thread that is out of date and one that is not. Two edits
  make a first save and one that supersedes it; two sessions are one that ends and
  one that reads what it left. One mishap is what the code promises to survive;
  with two the invariants hold as well (checked apart from the liveness property),
  and the theorems drop every one of these bounds.
- *Two requests in `catalogue`.* One may supersede, cancel or share a session with
  the other. It starts with nothing asked, or with one archive opened, which
  saves the requests for what happens afterwards. The watchdog fires only for a
  request whose worker has nothing to read and no start under way: the main loop
  keeps up within five minutes. A change of the archives is seen when they are
  opened, as the fingerprint is taken then.
- *Three numbered requests in `materials`.* One active, one queued, one waiting
  for its acknowledgement; a restart or a new package may come between any two.
  `MaxPublish` stops only the asking: what the tab itself asks for afterwards is
  numbered still. The imported and the reference kind update one pane each, and so
  can displace one another; "paired" updates both panes at once, and the theorems
  cover it with the other two.
- Deadlock checking is off where the system stops in a final state
  (a change that ended, a bound that was used up, a window that was closed, an
interface that stopped asking).

Each property has a mutant: a plausible slip in one mapped definition (a guard
dropped, an order swapped, evidence left in memory) that makes its run fail.

## 4. Fairness

`VirtualProfile!FairSpec` (used for `JournalSettled`): a process ends what it has
begun, a preparation, a publication or a recovery (each is a finite sequence of
steps, so that it rests again and again is what weak fairness of these steps
amounts to), and, since every ordinary operation is refused while a journal is
there, a user who wants anything at all asks for a recovery again and again. This is
strong fairness, because a user may also try a preparation in between, which is
refused. Nothing is assumed of preparing or starting a publication, of failures or
of deaths. The property excepts a write without the lane (`~Undisturbed`): it may
replace a ledger or remove the evidence, and then the code refuses for good, as it
should.

`InstallLane!FairSpec` (used for `CloseEnds`): a thread inside a write scope
makes progress, and the watchdog thread, which has a deadline of its own, fires.
Nothing is assumed of threads outside the write scope, of the event loop or of
the window: they may hang forever, and the window still ends.

`MeshDraft!FairSpec` (used for `EditsReachDisk`): while timers are armed some timer
goes on, while autosave threads can go on some thread does, and saving and copying,
once begun, go on. This is less than fairness to every thread, and enough. The user
owes nothing: neither another edit, nor Apply or Cancel, nor closing. The property
ends where the code ends its promise: at an error shown, a session that is no
longer open, a shape preview that waits for its answer, or a damaged disk.

`MaterialPublication!FairSpec` (used for `QueueDrains`): the compiler thread ends,
and the main loop runs what is posted to it. The renderer owes nothing, so no
answer of it may be needed to drain the queue. `SlotLost` excepts what the code
does not promise: see the observations in section 6. Where a lost slot matters to
the panes, `GateHasKey` speaks: a newest publication that is active and updates the
editable pane has a compiler thread that has yet to leave, so it is sent anew before
its slot can be lost.

`CatalogueService!Fairness` (used for `Settles` and `ShutsDown`): the main loop goes
on while it has something to do (this is weak fairness of `MainLoop`, with its
enabling condition written out as `Busy`, which TLC evaluates faster), and a process
that was told to end ends or is killed. Nothing is assumed of a worker that is left
alone, nor of the user. Both properties say "from some time on", because the
interface asks finitely often.

## 5. Proofs

`LedgerStoreProofs` (any identities, bindings, generations and layers, from the
assumption `NoneApart` that `None` is not one of the other values). LedgerStore is
the target of VirtualProfile's refinement and has no run of its own:

- `TypeCorrect`: `Spec => []TypeOK`, with one lemma per kind of update.
- `ReservationsKept`: `Spec => []OwnersReserved`, for both values of `VirtualLoading`.
  It is inductive together with `TypeOK`. A layer's row may have lost its layer to a
  publication that passed over it, but it never names another one and never goes
  while the layer is there; that the served and the owned identities are disjoint
  holds only while virtual loading is on, and is not claimed.

`VirtualProfileProofs` (any processes, identities and bindings, any number of
generations, layers, failures, deaths and writes without the lane, from
`BoundsAssumption`, that the bounds are numbers, `FlagAssumption`, that
`VirtualLoading` is TRUE or FALSE, and `NoneAssumption`, that `None` is none of the
values it stands next to):

- `TypeCorrect` already needs `Control`: who is past `EnterLane` holds the lane,
  who prepares or publishes has a plan, and whether a journal is there.
- A send replaces the registry under all that follows. So the rest is proved of
  `Laned`, every step but a send, and is invariant until the first send (`Reached`:
  type and control always, `IInv` while `sends = 0`).
- `LedgersAlwaysAgree`, `RecoveryAlwaysDecides` and `OwnersAlwaysReserved` follow from
  `AlwaysSound`: without a journal the ledgers would load; with one, both sides of
  it would. It is inductive only with the rest of `IInv`. `Prepared` says what a
  plan is worth without a lock: its profile fits its registry, and that registry
  reserves every layer's identity for it or for none (`Reserved`) whenever the
  overlay index still is the one that was observed. Layers are
  numbered by a counter that never goes back, so an index of as many layers has
  at most lost owners; without that, an index that was changed and changed back
  would pass the comparison of bytes. `FilesKept` says that generations in use
  are on disk. `Transacting` ties ledgers, journal, manifest and witness to the
  step the lane's holder is at. An edit by another program breaks `AlwaysSound`
  but not `IInv`.
- `ForeignLedgersKept` and `JournalsClosedVerified` follow from `IInv` alone, so they
  hold with foreign edits. That a recovery closes a journal over verified ledgers
  needs less still, `Control`, and so it holds after sends, too: recovery looks again
  in the step that removes the journal.
- `OutcomesTruthful` adds `Reporting`: what a failed publication still knows while it
  recovers, also after its journal went missing under an error.
- `StoreImplemented`: the refinement of LedgerStore, for any number of layers and both
  values of `VirtualLoading`. Every step that leaves the files `Undisturbed` is one
  of LedgerStore or a stutter, given that preparations were computed from what they
  observed (`FromObserved`; finding 1). The step that writes the profile is the one
  readers see; `Distinct` (the two sides of a
  journal differ in their profile) and `Chosen` (a recovery settled on the new side
  exactly if the ledgers are the new ones) make every other step of a publication
  and of a recovery a stutter.

`InstallLaneProofs` (any number of processes, threads and installations, from
`ProcOfAssumption`, `NoneAssumption`, `CrashBoundAssumption`):

- `LaneExclusion` rests on `LaneInv`: what a thread holds mirrors the lock files;
  a thread inside a lane holds it; the frame that locked a file is the outermost
  one for its root, and the only one. Exclusion alone is not inductive: without
  the third fact an inner frame could unlock what an outer one relies on. The
  step is proved per action, from lemmas that say what entering, locking,
  unlocking and leaving do to one thread and that all other threads keep theirs.
- `InterruptionIsolated` adds `RecoveryOfOwn`: a recovery nested in a transaction
  is that of the journal the transaction wrote.
- `LanesReturned` follows from the same bookkeeping.
- `ExitsSpareWrites`, an action property, rests on `ExitInv`: a thread in a scope
  is counted, and once a close is accepted nothing is counted and nothing can be,
  because the shutdown deadline is armed.
- `TypeCorrect`.

`OverlayRecoveryProofs` (any set of files, any plans, any number of failures and of
foreign writes, from `PlansAssumption` and the other assumptions of the modules; the
last theorem is about the plans of OverlayPlans, and needs `PlanContentsAssumption`:
old, older and new contents are contents):

- `TypeCorrect`; `EvidencePrecedesEffect`, `JournalTellsTruth`, `OriginalsOutlive`.
  None of the three is inductive. The invariant adds four facts about a change
  under way: `FollowsPlan` (what was done is a prefix of the plan, so the journal's
  attempts are those of the steps), `EvidenceInPlace` (what the journal on disk says
  covers every target that may differ from its original), `UndoCovers` (what the
  rollback still has to visit) and `Promises` (what an ended journal claims).
- `Refinement`: OverlayRecovery implements RecoverableChange. Every step maps to a
  step of the abstract change or to a stutter; the mapping needs the invariant
  above, because "evidence is on disk" is a fact about an earlier step.
- `SparesForeign` and `ConfirmedRollbackHolds`, two action properties; the first
  adds that contents looked at are still what they were (`LooksHold`), the second
  that without interference every target is in a state the rollback recognises
  (`Undisturbed`).
- `MountedIsWhole`: no mounted archive without its files, in the plans that mount
  one for the first time. `Mounts` is what the order of their writes amounts to, and
  is proved of each of these plans: the mount list is written once, in the last step,
  and both files of the archive before it, never unlinked. The rollback is the other
  half: it puts originals back before it unlinks what is new (`MountsWhole`: while it
  restores, only originals are left to do), so the mount list goes first.

`MeshDraftProofs` (any number of edits, sessions, copies, timers, threads and
failures, from `BoundsAssumption` and `NoneAssumption`):

- `TypeCorrect`, which already needs `Locking`: a failing save charges the thread
  that holds the lock, and it must still be there.
- `DraftAlwaysKept` and `ClosedSessionsSaved` rest on `Store`. `Layout`: the project
  names generations that are on disk, the newest ahead of its fallback, and a save
  under way has written what the session holds. `Keeping`: they hold what was
  promised, step by step of a save, so that neither the descriptor's move nor the
  pruning loses it. `Keys`: whenever the keys say that nothing needs saving,
  the project restores what the session keeps, a cancelled shape preview included.
- `NeverSilentlyUnsaved` adds `Noticed`: whoever was going to save is replaced by
  another one, or by an error, in every step that takes him away.
- `CopiesAlwaysLoad` adds `Built` and `Copied`: the copy has, or will still find, one
  generation that the project file it takes last will name. Which one that is
  (`Anchor`) moves from the newest to the fallback when a save completes
  meanwhile; after two it may be neither, which is why the property stops there.

`ArchivePatchProofs` (any directories, PAZ files and requests, any number of patches,
failures and deaths, from `LayoutAssumption`, `RequestsAssumption` and
`BoundsAssumption`):

- `TypeCorrect`, and `BackupAlwaysCovers` from `Covered`, whatever the order in which
  backups are restored.
- `OutcomeAlwaysExact` and `EntriesAlwaysReadable`, from one inductive invariant,
  `Inv`. Its part `Ordered` holds of histories whose restores were each of the latest
  patch (`inOrder`); all others hold of every history. `Covered`, `PutBack` and `Done`
  make outcomes exact: what a restore has passed is what the backup holds, what it
  has not touched is what it found. `Ordered` has `Kept`, what the backups that are
  not restored yet are worth: PAZ files have only grown since each of them, and what
  changed since one of them is in it or in a later one. So an index of the backup is
  readable over the grown PAZ files (it comes back first), and once the latest is
  restored all files are what they were when it was made. `Restores` keeps the
  backup in use the latest of these. `Editing` says what the patch in memory and the
  indexes on disk have replaced so far.
- `ChainAlwaysMaintained`, under `SortedDirs = MountOrder`, the condition finding 3
  shows to be needed. `Chaining` carries the checksums: those of untouched PAZ
  files still fit, because only files of the backup differ from what the patch found.

`MaterialPublicationProofs` (any number of edits, textures, compiles, packages,
restarts and faults, from `BoundsAssumption`):

- `Typing`, `OrphansAreStopped`, `GateOpens` and `TexturedIsTextured` follow from one
  inductive invariant over publish ids. `Numbered`: an id was given, and is of no
  process to come. `SentOnce`: an id is compiled once and sent once, in the order of the
  ids, and the newest one is queued, compiled, on its way or answered, never two of
  these. `Wanted`: what carries the newest id names only panes that asked for just
  that. `Loaded`: the tab learns of a package only after the renderer has loaded it, so
  the answers of an earlier package or process cannot be taken for the current one's.
  `Resident` then relates what the tab counts as applied, what is still in the pipe and
  what the renderer holds. `ReadyMeansResident` alone fails to be inductive at once: it
  says nothing of a message on its way.
- `GateOpens` adds `Manned`, about the compiler's thread: an active publication is the
  one the thread works on, while it works (`Tied`); a thread's clean-up is posted once,
  when it is gone (`Cleanups`); and where the newest publication is active while its
  compile has ended, it is unanswered, and if it updates the editable pane, what sends
  it anew is posted ahead of that clean-up (`Resent`).
- The steps are classified by what they do to the ids (`Moves`), not by action: one
  lemma per kind keeps the invariant, and every action is one of the kinds.

`CatalogueProofs` (any number of sessions, requests, generations, deaths, faults and
changes of the archives, from `FaultBoundsAssumption` and `RequestBoundsAssumption`):

- `Typing`, `Told` (`NobodyForgotten`), `SentOnce` (`NeverReplayed`), and the action
  properties `RightAnswers` (`AnswersFit`) and `Alone` (`OneWorker`).
- The client first, by itself. `Sane` says which of its states go with which states of
  the process (`Live`), and that a handshake is answered once (`Greeting`); each method
  keeps it. What a method changes is said by three relations: `Sheds` (nothing is
  pending, sent or said that was not, no result is made up), `Tells` (what is not pending
  any more was said to have ended) and `Keeps` (a worker that runs is not replaced).
  `Tells` is what `NobodyForgotten` comes down to: there is one such lemma for each way
  the client can give requests up.
- Then both. `Inductive` is `Sane` with: `Numbered` (the attempts of a request, the
  numbers given), `Wired` (every wire was given, to one attempt), `Named` (no wire is the
  name of a session before the worker has answered it), `Agreed` (a session stands for
  the same archives wherever it is known: in the worker, in a result on its way, in the
  service, through an alias), `Matching` (what is pending is what a request asks, a result
  is of the session that was asked, and a result on its way is of the archives asked),
  `Timely` (superseded requests have no result on its way) and `Awaited`. `AnswersFit`
  needs nearly all of it: a recovered read is answered by a session the service never
  asked it of, and only `Agreed` says that its archives are the same.
- Every action is shown to be a step that keeps `Inductive` and has the two action
  properties (`Proceeds`). Methods that call one another are composed: the relations are
  transitive, and so `StallDeadline`, which puts the worker down and then cancels or
  fails, needs no lemma of its own about the pair.

The bounds in these theorems are the constants': the counters of the models stop at
them, but no theorem assumes a value of them.

Only model-checked: liveness (`JournalSettled`, `CloseEnds`, `EditsReachDisk`,
`QueueDrains`, `Settles`, `ShutsDown`), which needs fairness or ENABLED, out of the
prover's reach. `RecoveryAnswered` and the other three properties of the violated runs
are false.

## 6. Findings

1. **A preparation can be composed from a registry that is rolled back**
   (`profile_dirty_read`, `independent_item_install.py:503`). `resolve_items`
   reads the registry again after the state was observed. If another process has
   just written its registry and then rolls back, the observed bytes are back when
   they are compared, and the preparation is nevertheless built from the other
   registry. `_pin_preparation` says that composition is tied to the observed
   state. `ImplementsStore` is stated for the preparations that are.
2. **A failed deletion of saved identities is not rolled back**
   (`overlay_identity`, `independent_item_install.py:941`). The restore is handed
   over without a confirmation, so it raises `PermissionError` inside the
   rollback. All other callers confirm; `ConfirmedGivesUpOnlyOnFailure` holds of
   them.
3. **Patching while an overlay is mounted writes a checksum into another
   directory's record** (`patch_overlay`, `archive_patching.py:397`). The record's
   slot is the directory's rank among the sorted folders, but an overlay is
   inserted first in the mount list although its number sorts last.
4. **A request can wait for a reopening that was cancelled**
   (`catalogue_reopening`, `archive_catalogue_service.py:567`). Superseding an older
   generation cancels the reopening of a session that a request of the newer
   generation also waits for; the session is then taken for one that is being
   reopened, and the request has neither an attempt nor a deadline.
5. **Sending the item of a leftover layer blocks every later send** (`profile_sends`,
   `independent_item_install.py:612`). With virtual loading off, `resolve_items` passes
   over an overlay layer that owns the package, because a layer left from an earlier
   version "must not block sending the item", and rewrites its row with no layer. The
   send writes that registry (`dmm_send.py:225`), while `overlays.json` still lists the
   layer; `load_registry` compares the two and refuses the registry from then on, for
   this and for every other item. Nothing has to race the send.

Observations that no run refutes a statement with, because the code promises
nothing about them:

- *Sends race publications.* A send takes no lane and compares nothing. It may undo
  the reservation another process made since it was prepared, and may put a third
  content between the two sides of a transaction, which recovery then refuses for
  good. `profile` includes these steps; everything that is not stated under
  `Undisturbed` or `sends = 0` holds in spite of them.
- *Backups restored out of order* (`ui/archive_browser/patch_actions.py:279` offers the
  latest, but takes any) can unlink the checksum chain: a backup holds the whole
  mount list, and putting an older one back undoes the records of directories patched
  since. Restoring an older one and then a later one leaves entries that point behind
  the end of a PAZ file: the later backup holds the index as it was between the two,
  not the payloads. The run and the theorems include these restores: `OutcomeExact`
  and `BackupCovers` bind every one of them. `EntriesReadable` and `ChainMaintained`
  promise nothing of what follows such a restore (`inOrder`); without that condition
  TLC finds both of the above.
- *A change of the View ticks alone can be lost.* It does not move the revision
  (`mesh_rust_authoring.py:10395`), so closing within the timer's 0.75 s finds
  nothing to save and cancels the timer; so does a shape preview that starts before
  the autosave and is cancelled. `EditsReachDisk` promises the View only while
  the session stays open and nothing was previewed (`previewed`).
- *A View change whose thread waits while a mod is frozen* can miss the frozen
  copy: the builder asks for a running timer, not for a waiting thread.
- *A draft duplicated while it is open* may be unloadable if two saves complete
  during the copy, which takes no lock (`saves < 2` in `CopiesLoad`).
- *A failing autosave superseded by a failing build's save* leaves only the build's
  `saved_work_error` (`warned`).
- *Cancelling a preview in an untouched session* schedules a save and creates a
  draft, although the session has nothing to save (`mesh_service.py:792`).
- *Materials.* A publication of one pane can displace the compile of the other
  (`tab_dotnet_material_compilation.py:129`). A compile that completes out of date is
  only counted (`:209-222`), and its slot is given back by nothing but a later
  publication, a restart or the end of the session. So the slot is lost (`SlotLost`) when the publication is no longer the
  newest, and when what is sent anew is found to be resident already, which happens
  to publications of the original's pane alone; `GateHasKey` shows that it does not
  happen to the newest publication of the editable pane. Texture
  bindings are forgotten by a later publication without resources; superseded
  requests that were published stay in the waiting set; a commit that is rejected
  posts no flush.
- *A worker that ended while its stdout is still read* takes further submissions,
  which then fail with codes that are not retried. The client keeps two generation
  counters and compares both with one minimum.
- *`atomic_publish_files`* may report an error after it committed, when removing its
  backups fails; between its two renames there is no target at all, and its inner
  handler does not see `KeyboardInterrupt` (`core/atomic_file.py:93`, `:96`).

## 7. Not modelled, and why

- *Data.* Keys, tables, payload layout, compression and encryption are values that
  can be compared. Hash collisions are excluded: a checksum is its input.
- *Directories.* Creating parents and removing empty ones.
- *Mesh drafts:* names, notes and thumbnails (`manifest`, under a lock of its own),
  the copied baseline, the list of projects and its index, seed projects, deletion,
  `retry_mesh_layer_autosave` (no caller). Layer commands are edits, except during
  a shape preview, where they are not refused and not scheduled: that is left out.
  Generations are numbered by a growing counter; the code uses the clock,
  so a clock that is set back could let pruning remove what was just written.
- *Materials:* the commit of texture bindings, parameters, the two-stage fidelity
  upgrade and clones of a publication; the resources a compile needs are there.
- *Archive helper and catalogue:* queries and their reconstruction, progress and
  batches, shared retry budgets, manual retries, `close_archive`, a missing or
  incompatible worker, stderr, requests made from inside a signal's handler, the
  last turn of reading when its budget is used up. What a worker that is being put
  down still does is not read.
- *Time.* A grace period is an event that may happen any time after it was armed.
- *Reviews and confirmations* in dialogs, apart from what they let through:
  a plan is one of those the caller may build.
- *The composition of overlays* (which files of which layers win) is a function of
  the archives; its result is the "new" contents.
- *Decay of preserved originals and of backups* on disk, and a foreign program that
  changes CDMW's own journals while a rollback runs. Restoring a patch passes over a
  file whose copy is missing from the backup (`archive_patching.py:505`) and reports a
  restore all the same; `OutcomeExact` is about backups that have all their copies.
- *Parts listed above as not modelled yet* have no module; see the plan.

## 8. Plan

Order of the next modules, the most important behaviour first:

1. **AtomicPublish** (`core/atomic_file.py`): three publications with failures of
   every kind and a death between renames; abstract specification: all or nothing.
2. **SessionReceipts** (`services/virtual_loader_receipts.py`): concurrent
   observers, bounded retries; abstract specification: an append-only log.
3. **SessionLaunch**: composes InstallLane and VirtualProfile with the launch of
   `virtual_loader_runtime.py` and what the host checks under its own lock.
4. **MeshHistory**: revisions, undo and the transactional restore of geometry,
   materials, selection and profile files; its revisions are MeshDraft's.
5. Queries of the catalogue, rebuilt after a reopening; preview generations.
6. Single instance guard, orphan reaper, device save exchange.

Theorems worth proving next: that `RecoveryAnswered` holds where no generation is
superseded (the condition finding 4 shows to be needed); that `Abandoned` requests are
all that can be left waiting by a service whose client is quiet, the safety half of
`Settles`; that a patch which is not interrupted writes every index it planned.

The five runs of violations each check one property of one finding. Later modules
take the place of the narrower runs rather than adding to them.
