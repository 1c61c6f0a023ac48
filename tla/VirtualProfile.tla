---------------------------- MODULE VirtualProfile ----------------------------
(***************************************************************************)
(* Publication and recovery of the two identity ledgers, as                *)
(* services/virtual_loader_state.py does it: a profile is prepared without *)
(* a lock from files that other CDMW processes may replace meanwhile, then *)
(* published under the installation lane behind a durable journal.  Every  *)
(* file operation can fail before or after it took effect, a process can   *)
(* die between any two of them, and files can be edited while nobody holds *)
(* the lane.                                                               *)
(***************************************************************************)
EXTENDS Naturals

CONSTANTS
    Procs,      \* CDMW processes working on the installation
    Ids, Bindings, None,
    MaxGen,     \* bound: generations prepared in a behaviour
    MaxLayers,  \* bound: overlay layers installed in a behaviour
    MaxFaults,  \* bound: file operations that report an error
    MaxCrashes, \* bound: processes that die
    MaxStrays,  \* bound: files written without the lane, by another program
                \* or by a send
    VirtualLoading  \* constants.VIRTUAL_LOADING_ENABLED, FALSE as released

ASSUME BoundsAssumption ==
    {MaxGen, MaxLayers, MaxFaults, MaxCrashes, MaxStrays} \subseteq Nat

ASSUME FlagAssumption == VirtualLoading \in BOOLEAN

Gens == 1 .. MaxGen

Layers == 1 .. MaxLayers

VARIABLES
    registry, profile,  \* the two ledgers, None when the file is missing
    layers,             \* per identity, the layer of overlays.json owning it
    recorded,           \* how many layers overlays.json lists, removed ones too
    journal,            \* transaction.json: [before, after] or None
    staged,             \* generations whose directory exists
    manifest,           \* per generation: the profile its profile.json holds
    witness,            \* generations whose recovery record is intact
    damaged,            \* generations a served file of which was changed
    lane,               \* the process holding the installation lane
    pc, plan,           \* per process: control, and the prepared snapshot
    selected,           \* per process: the side a recovery settled on
    outcome,            \* per process: how its last publication ended
    nextGen, faults, crashes, edits, sends

index == <<layers, recorded>>
ledgers == <<registry, profile, index, journal>>
retained == <<staged, manifest, witness, damaged>>
disk    == <<ledgers, retained>>
control == <<pc, plan, selected, outcome>>
bounds  == <<nextGen, faults, crashes, edits, sends>>
vars    == <<disk, lane, control, bounds>>

Current == [registry |-> registry, profile |-> profile]

(* What the ledgers say to whoever may read them: a transaction whose second
   ledger is in place has happened, an earlier one has not. *)
Visible ==
    IF journal = None \/ Current = journal.after THEN Current
                                                 ELSE journal.before

LS == INSTANCE LedgerStore WITH
        store <- [registry |-> Visible.registry, profile |-> Visible.profile,
                  layers |-> layers]

Steps == {"idle", "observing", "profile next", "observed", "loading",
          "composed", "prepared", "locked", "staging", "verified", "witnessed", "committing",
          "profiling", "closing", "recovering", "restoring", "reprofiling",
          "verifying", "unlinking", "finishing"}

Outcomes == {"none", "committed", "failed", "recovery required"}

Pairs == [registry : LS!Registries \cup {None}, profile : LS!Profiles \cup {None}]

Plans ==
    [registry : LS!Registries \cup {None}, profile : LS!Profiles \cup {None},
     layers : LS!Indexes, recorded : 0 .. MaxLayers, gen : Gens,
     rows : LS!Registries \cup {None}, after : Pairs \cup {None}]

Journals == [before : Pairs, after : Pairs]

ASSUME NoneAssumption ==
    /\ LS!NoneApart
    /\ None \notin Procs \cup Pairs \cup Plans \cup Journals \cup {"before", "after"}

Goto(p, step) == pc' = [pc EXCEPT ![p] = step]

(* The profile manifest of its generation directory is the ledger's bytes. *)
Retained(prof) == prof # None => manifest[prof.gen] = prof

(* load_profile: no journal, a retained manifest, and rows that agree. *)
ProfileLoads(rows) ==
    /\ journal = None
    /\ Retained(profile)
    /\ LS!Agrees(rows, profile)

(* load_registry asks for the layers' rows first, then loads the profile. *)
Loadable(rows) ==
    /\ LS!LayersReserved(rows, layers)
    /\ ProfileLoads(rows)

(* A plausible slip: the registry left out of the comparison. *)
RegistryUnchecked(p) ==
    /\ plan[p].profile = profile
    /\ plan[p].layers = layers /\ plan[p].recorded = recorded

(* The files prepared against still have the bytes that were observed. *)
ObservedStateHolds(p) ==
    /\ plan[p].registry = registry
    /\ plan[p].profile = profile
    /\ plan[p].layers = layers /\ plan[p].recorded = recorded

(* A file operation of an admitted process that reports an error, whether
   it took effect or not; `effect` is the operation's new disk state. *)
Fault(effect, unchanged) ==
    /\ faults < MaxFaults
    /\ faults' = faults + 1
    /\ effect \/ unchanged

Init ==
    /\ registry = None /\ profile = None /\ journal = None
    /\ layers = [i \in Ids |-> None] /\ recorded = 0
    /\ manifest = [g \in Gens |-> None]
    /\ staged = {} /\ witness = {} /\ damaged = {}
    /\ lane = None
    /\ pc = [p \in Procs |-> "idle"]
    /\ plan = [p \in Procs |-> None]
    /\ selected = [p \in Procs |-> None]
    /\ outcome = [p \in Procs |-> "none"]
    /\ nextGen = 1 /\ faults = 0 /\ crashes = 0 /\ edits = 0 /\ sends = 0
-----------------------------------------------------------------------------
(* Preparation: no lane is held, so every read sees its own moment. *)

(* _observe_state reads overlays.json, then the registry, then the profile. *)
ObserveIndex(p) ==
    /\ pc[p] = "idle" /\ nextGen <= MaxGen
    /\ plan' = [plan EXCEPT ![p] =
            [layers |-> layers, recorded |-> recorded, registry |-> None,
             profile |-> None, gen |-> nextGen, rows |-> None, after |-> None]]
    /\ nextGen' = nextGen + 1
    /\ outcome' = [outcome EXCEPT ![p] = "none"]
    /\ Goto(p, "observing")
    /\ UNCHANGED <<disk, lane, selected, faults, crashes, edits, sends>>

ObserveRegistry(p) ==
    /\ pc[p] = "observing"
    /\ plan' = [plan EXCEPT ![p].registry = registry]
    /\ Goto(p, "profile next")
    /\ UNCHANGED <<disk, lane, selected, outcome, bounds>>

ObserveProfile(p) ==
    /\ pc[p] = "profile next"
    /\ plan' = [plan EXCEPT ![p].profile = profile]
    /\ Goto(p, "observed")
    /\ UNCHANGED <<disk, lane, selected, outcome, bounds>>

Abandon(p) ==
    /\ plan' = [plan EXCEPT ![p] = None]
    /\ Goto(p, "idle")

(* load_registry reads the registry again, then load_profile the rest. *)
LoadRegistry(p) ==
    /\ pc[p] = "observed"
    /\ plan' = [plan EXCEPT ![p].rows = LS!RowsOf(registry)]
    /\ Goto(p, "loading")
    /\ UNCHANGED <<disk, lane, selected, outcome, bounds>>

(* resolve_items refuses what an overlay layer owns while virtual loading is
   enabled; without it the layer is passed over and its row is rewritten. *)
Compose(p, selection) ==
    /\ pc[p] = "loading"
    /\ \/ /\ Loadable(plan[p].rows)
          /\ VirtualLoading => \A i \in LS!Owned(layers) : selection[i] = None
          /\ LET s == [registry |-> plan[p].rows, profile |-> profile,
                       layers |-> layers]
                 t == LS!PublishOf(s, plan[p].gen, selection)
             IN  plan' = [plan EXCEPT ![p].after =
                    [registry |-> t.registry, profile |-> t.profile]]
          /\ Goto(p, "composed")
       \/ ~Loadable(plan[p].rows) /\ Abandon(p)
    /\ UNCHANGED <<disk, lane, selected, outcome, bounds>>

RecheckPreparation(p) ==
    /\ pc[p] = "composed"
    /\ IF ObservedStateHolds(p)
         THEN Goto(p, "prepared") /\ UNCHANGED plan
         ELSE Abandon(p)
    /\ UNCHANGED <<disk, lane, selected, outcome, bounds>>

Discard(p) ==
    /\ pc[p] = "prepared"
    /\ Abandon(p)
    /\ outcome' = [outcome EXCEPT ![p] = "none"]
    /\ UNCHANGED <<disk, lane, selected, bounds>>
-----------------------------------------------------------------------------
(* Publication, under the lane; a refused one may be tried again. *)

(* A publication returns or raises with its plan; a recovery has none. *)
Leave(p, result) ==
    /\ Goto(p, IF plan[p] = None THEN "idle" ELSE "prepared")
    /\ lane' = None
    /\ selected' = [selected EXCEPT ![p] = None]
    /\ outcome' = [outcome EXCEPT ![p] =
            IF plan[p] = None THEN "none" ELSE result]

EnterLane(p) ==
    /\ pc[p] = "prepared" /\ lane = None /\ journal = None
    /\ lane' = p
    /\ outcome' = [outcome EXCEPT ![p] = "none"]
    /\ Goto(p, "locked")
    /\ UNCHANGED <<disk, plan, selected, bounds>>

StageGeneration(p) ==
    /\ pc[p] = "locked"
    /\ ObservedStateHolds(p)
    /\ plan[p].gen \notin staged
    /\ staged' = staged \cup {plan[p].gen}
    /\ Goto(p, "staging")
    /\ UNCHANGED <<ledgers, manifest, witness, damaged, lane, plan, selected, outcome,
                   bounds>>

(* A plausible slip: the manifest is left for later. *)
ManifestDeferred(p) ==
    /\ pc[p] = "staging"
    /\ Goto(p, "verified")
    /\ UNCHANGED <<disk, lane, plan, selected, outcome, bounds>>

WriteManifest(p) ==
    /\ pc[p] = "staging"
    /\ manifest' = [manifest EXCEPT ![plan[p].gen] = plan[p].after.profile]
    /\ Goto(p, "verified")
    /\ UNCHANGED <<ledgers, staged, witness, damaged, lane, plan, selected, outcome,
                   bounds>>

(* The last checks; then the ledgers as they are become the before side of
   the retained recovery record and of the journal. *)
WriteWitness(p) ==
    /\ pc[p] = "verified"
    /\ ObservedStateHolds(p)
    /\ witness' = witness \cup {plan[p].gen}
    /\ Goto(p, "witnessed")
    /\ UNCHANGED <<ledgers, staged, manifest, damaged, lane, plan, selected,
                   outcome, bounds>>

(* A refusal, a cancellation or an error while the ledgers are untouched. *)
Refuse(p) ==
    /\ pc[p] \in {"locked", "staging", "verified", "witnessed"}
    /\ Leave(p, "failed")
    /\ UNCHANGED <<disk, plan, bounds>>

Before(p) == [registry |-> plan[p].registry, profile |-> plan[p].profile]

WriteJournal(p) ==
    /\ pc[p] = "witnessed"
    /\ LET entry == [before |-> Before(p), after |-> plan[p].after]
       IN  \/ /\ journal' = entry
              /\ Goto(p, "committing")
              /\ UNCHANGED <<lane, selected, outcome, faults>>
           \/ /\ Fault(journal' = entry, FALSE)
              /\ Leave(p, "failed")
    /\ UNCHANGED <<registry, profile, index, retained, plan, nextGen,
                   crashes, edits, sends>>

(* A plausible slip: a registry that exists is taken for written. *)
RegistryOnce(p) ==
    /\ pc[p] = "committing"
    /\ registry' = IF registry = None THEN plan[p].after.registry ELSE registry
    /\ Goto(p, "profiling")
    /\ UNCHANGED <<profile, index, journal, retained, lane, plan, selected, outcome, bounds>>

(* Both ledgers, the registry first; an error goes to recovery. *)
WriteRegistry(p) ==
    /\ pc[p] = "committing"
    /\ \/ /\ registry' = plan[p].after.registry
          /\ Goto(p, "profiling")
          /\ UNCHANGED faults
       \/ /\ Fault(registry' = plan[p].after.registry, UNCHANGED registry)
          /\ Goto(p, "recovering")
    /\ UNCHANGED <<profile, index, journal, retained, lane, plan, selected,
                   outcome, nextGen, crashes, edits, sends>>

WriteProfile(p) ==
    /\ pc[p] = "profiling"
    /\ \/ /\ profile' = plan[p].after.profile
          /\ Goto(p, "closing")
          /\ UNCHANGED faults
       \/ /\ Fault(profile' = plan[p].after.profile, UNCHANGED profile)
          /\ Goto(p, "recovering")
    /\ UNCHANGED <<registry, index, journal, retained, lane, plan, selected,
                   outcome, nextGen, crashes, edits, sends>>

UnlinkJournal(p) ==
    /\ pc[p] = "closing"
    /\ \/ /\ journal' = None
          /\ Leave(p, "committed")
          /\ UNCHANGED faults
       \/ /\ Fault(journal' = None, UNCHANGED journal)
          /\ Goto(p, "recovering")
          /\ UNCHANGED <<lane, selected, outcome>>
    /\ UNCHANGED <<registry, profile, index, retained, plan, nextGen,
                   crashes, edits, sends>>
-----------------------------------------------------------------------------
(* Recovery: alone after a restart, or inside a publication that failed.
   Only the publication has a plan, and only it looks beyond a missing
   journal, at the record it retained. *)

StartRecovery(p) ==
    /\ journal # None /\ lane = None /\ pc[p] \in {"idle", "prepared"}
    /\ lane' = p
    /\ plan' = [plan EXCEPT ![p] = None]
    /\ outcome' = [outcome EXCEPT ![p] = "none"]
    /\ Goto(p, "recovering")
    /\ UNCHANGED <<disk, selected, bounds>>

(* A plausible slip: only a transaction that wrote nothing or everything. *)
WholeLedgers == Current \in {journal.before, journal.after}

(* A plausible slip: whatever is there is taken for the transaction's. *)
AnyLedgers == TRUE

(* Both ledgers hold what the transaction wrote or replaced. *)
OwnLedgers ==
    /\ registry \in {journal.before.registry, journal.after.registry}
    /\ profile \in {journal.before.profile, journal.after.profile}

(* A plausible shortcut: readback of the ledgers alone. *)
ReadbackOnly(expected) == Current = expected

(* _verify_recovered_state: the selected bytes are in place, they agree, and
   the generation they name is retained and complete. *)
RecoveredState(expected) ==
    /\ Current = expected
    /\ LS!Agrees(registry, profile)
    /\ profile # None => registry # None
    /\ Retained(profile)
    /\ profile # None => profile.gen \notin damaged

GiveUp(p) == Leave(p, "recovery required")

SelectSide(p) ==
    /\ pc[p] = "recovering" /\ journal # None
    /\ \/ /\ OwnLedgers
          /\ selected' = [selected EXCEPT ![p] =
                IF Current = journal.after THEN "after" ELSE "before"]
          /\ Goto(p, "restoring")
          /\ UNCHANGED <<lane, outcome>>
       \/ ~OwnLedgers /\ GiveUp(p)
    /\ UNCHANGED <<disk, plan, bounds>>

(* A plausible slip: the other ledger's bytes. *)
RestoreSwapped(p) ==
    /\ pc[p] = "restoring"
    /\ registry' = journal[selected[p]].profile
    /\ Goto(p, "reprofiling")
    /\ UNCHANGED <<profile, index, journal, retained, lane, plan, selected,
                   outcome, bounds>>

(* Each ledger is rewritten only when it is not the selected one already. *)
RestoreRegistry(p) ==
    /\ pc[p] = "restoring"
    /\ LET chosen == journal[selected[p]].registry
       IN  \/ /\ registry' = chosen
              /\ Goto(p, "reprofiling")
              /\ UNCHANGED <<lane, selected, outcome, faults>>
           \/ /\ registry # chosen
              /\ Fault(registry' = chosen, UNCHANGED registry)
              /\ GiveUp(p)
    /\ UNCHANGED <<profile, index, journal, retained, plan, nextGen,
                   crashes, edits, sends>>

RestoreProfile(p) ==
    /\ pc[p] = "reprofiling"
    /\ LET chosen == journal[selected[p]].profile
       IN  \/ /\ profile' = chosen
              /\ Goto(p, "verifying")
              /\ UNCHANGED <<lane, selected, outcome, faults>>
           \/ /\ profile # chosen
              /\ Fault(profile' = chosen, UNCHANGED profile)
              /\ GiveUp(p)
    /\ UNCHANGED <<registry, index, journal, retained, plan, nextGen,
                   crashes, edits, sends>>

Verified(p) == RecoveredState(journal[selected[p]])

(* Verified readback, then the journal is archived as evidence. *)
VerifyRecovered(p) ==
    /\ pc[p] = "verifying"
    /\ \/ /\ Verified(p)
          /\ Goto(p, "unlinking")
          /\ UNCHANGED <<lane, selected, outcome, faults>>
       \/ ~Verified(p) /\ GiveUp(p) /\ UNCHANGED faults
       \/ Verified(p) /\ Fault(FALSE, TRUE) /\ GiveUp(p)
    /\ UNCHANGED <<disk, plan, nextGen, crashes, edits, sends>>

(* A recovery of its own is done; one inside a publication reports next. *)
Recovered(p) ==
    IF plan[p] = None
      THEN Leave(p, "none")
      ELSE Goto(p, "finishing") /\ UNCHANGED <<lane, selected, outcome>>

(* The journal is gone but its removal reported an error. *)
Unconfirmed(p) ==
    IF plan[p] = None
      THEN Leave(p, "none")
      ELSE Goto(p, "recovering") /\ UNCHANGED <<lane, selected, outcome>>

UnlinkRecovered(p) ==
    /\ pc[p] = "unlinking"
    /\ \/ Verified(p) /\ journal' = None /\ Recovered(p) /\ UNCHANGED faults
       \/ ~Verified(p) /\ GiveUp(p) /\ UNCHANGED <<journal, faults>>
       \/ Verified(p) /\ Fault(journal' = None, FALSE) /\ Unconfirmed(p)
       \/ Verified(p) /\ Fault(UNCHANGED journal, FALSE) /\ GiveUp(p)
    /\ UNCHANGED <<registry, profile, index, retained, plan, nextGen,
                   crashes, edits, sends>>

(* The journal went missing under an error: its absence proves nothing, so
   the retained record and the ledgers decide what happened. *)
JudgeMissingJournal(p) ==
    /\ pc[p] = "recovering" /\ journal = None
    /\ IF plan[p].gen \in witness /\ Current \in {Before(p), plan[p].after}
         THEN /\ selected' = [selected EXCEPT ![p] =
                    IF Current = plan[p].after THEN "after" ELSE "before"]
              /\ Goto(p, "finishing")
              /\ UNCHANGED <<lane, outcome>>
         ELSE GiveUp(p)
    /\ UNCHANGED <<disk, plan, bounds>>

(* A plausible slip: whatever survived recovery counts as committed. *)
FinishCommitted(p) ==
    /\ pc[p] = "finishing"
    /\ Leave(p, "committed")
    /\ UNCHANGED <<disk, plan, bounds>>

Finish(p) ==
    /\ pc[p] = "finishing"
    /\ LET after == selected[p] = "after"
           sound == RecoveredState(IF after THEN plan[p].after ELSE Before(p))
       IN  Leave(p, IF ~sound THEN "recovery required"
                    ELSE IF after THEN "committed" ELSE "failed")
    /\ UNCHANGED <<disk, plan, bounds>>
-----------------------------------------------------------------------------
(* Changes of the archives and of the saved identities hold the lane and
   recheck what they were prepared from, so each is one step here. *)

ChangeStore(t) ==
    /\ lane = None
    /\ Loadable(LS!RowsOf(registry))
    /\ registry' = t.registry /\ layers' = t.layers
    /\ UNCHANGED <<profile, journal, retained, lane, control, nextGen, faults,
                   crashes, edits, sends>>

Now == [registry |-> registry, profile |-> profile, layers |-> layers]

ArchiveInstall(i, b) ==
    /\ i \notin LS!Served(profile)
    /\ recorded < MaxLayers /\ recorded' = recorded + 1
    /\ ChangeStore(LS!ArchiveInstallOf(Now, i, b, recorded + 1))

ArchiveRemove(i) ==
    /\ i \in LS!Owned(layers)
    /\ ChangeStore(LS!ArchiveRemoveOf(Now, i))
    /\ UNCHANGED recorded

(* A plausible slip: the overlay index is not asked. *)
ForgetInstalled(i) ==
    /\ i \notin LS!Served(profile) /\ LS!RowsOf(registry)[i] # None
    /\ ChangeStore(LS!ReserveOf(Now, i, None))
    /\ UNCHANGED recorded

Forget(i) ==
    /\ i \notin LS!Served(profile) \cup LS!Owned(layers)
    /\ LS!RowsOf(registry)[i] # None
    /\ ChangeStore(LS!ReserveOf(Now, i, None))
    /\ UNCHANGED recorded

(* Send to DMM keeps the identities it composed: whenever its mod is ready it
   replaces the registry, with no lane, no look for a journal and no comparison
   with what it was composed from. *)
KeepIdentities(p) ==
    /\ pc[p] = "composed" /\ edits + sends < MaxStrays
    /\ LS!Served(plan[p].after.profile) # {}
    /\ registry' = plan[p].after.registry
    /\ sends' = sends + 1
    /\ Abandon(p)
    /\ UNCHANGED <<profile, index, journal, retained, lane, selected, outcome,
                   nextGen, faults, crashes, edits>>
-----------------------------------------------------------------------------
(* What happens to a process and to its files from outside. *)

Crash(p) ==
    /\ pc[p] # "idle" /\ crashes < MaxCrashes
    /\ crashes' = crashes + 1
    /\ lane' = IF lane = p THEN None ELSE lane
    /\ pc' = [pc EXCEPT ![p] = "idle"]
    /\ plan' = [plan EXCEPT ![p] = None]
    /\ selected' = [selected EXCEPT ![p] = None]
    /\ outcome' = [outcome EXCEPT ![p] = "none"]
    /\ UNCHANGED <<disk, nextGen, faults, edits, sends>>

(* Another program changes a file: between transactions, or after one
   failed and before its recovery looks.  No check of the code excludes a
   writer between a comparison and the file operation that follows it. *)
Edit ==
    /\ lane # None => pc[lane] = "recovering"
    /\ edits + sends < MaxStrays /\ edits' = edits + 1
    /\ \/ /\ registry' \in {None, [i \in Ids |-> None]}
          /\ UNCHANGED <<profile, retained>>
       \/ profile' = None /\ UNCHANGED <<registry, retained>>
       \/ \E g \in witness :
            /\ \/ damaged' = damaged \cup {g} /\ UNCHANGED <<manifest, witness>>
               \/ witness' = witness \ {g} /\ UNCHANGED <<manifest, damaged>>
               \/ /\ manifest' = [manifest EXCEPT ![g] = None]
                  /\ UNCHANGED <<witness, damaged>>
            /\ UNCHANGED <<registry, profile, staged>>
    /\ UNCHANGED <<index, journal, lane, control, nextGen, faults, crashes, sends>>
-----------------------------------------------------------------------------
Prepare(p) ==
    \/ ObserveIndex(p) \/ ObserveRegistry(p) \/ ObserveProfile(p) \/ LoadRegistry(p)
    \/ \E selection \in LS!Selections : Compose(p, selection)
    \/ RecheckPreparation(p) \/ Discard(p)

Commit(p) ==
    \/ EnterLane(p) \/ StageGeneration(p) \/ WriteManifest(p)
    \/ WriteWitness(p) \/ Refuse(p) \/ WriteJournal(p)
    \/ WriteRegistry(p) \/ WriteProfile(p) \/ UnlinkJournal(p)

Recover(p) ==
    \/ SelectSide(p) \/ RestoreRegistry(p) \/ RestoreProfile(p)
    \/ VerifyRecovered(p) \/ UnlinkRecovered(p) \/ JudgeMissingJournal(p)
    \/ Finish(p)

ArchiveChange ==
    \/ \E i \in Ids, b \in Bindings : ArchiveInstall(i, b)
    \/ \E i \in Ids : ArchiveRemove(i) \/ Forget(i)

Next ==
    \/ \E p \in Procs : Prepare(p) \/ Commit(p) \/ StartRecovery(p)
                      \/ Recover(p) \/ Crash(p) \/ KeepIdentities(p)
    \/ ArchiveChange
    \/ Edit

Spec == Init /\ [][Next]_vars

(* What a process has begun it ends: its loops are finite and its file
   operations return.  And a user who is refused everything else asks for a
   recovery again and again, in one process or another. *)
Resting(p) == pc[p] \in {"idle", "prepared"}

Fairness ==
    /\ \A p \in Procs : []<>Resting(p)
    /\ SF_vars(\E p \in Procs : StartRecovery(p))

FairSpec == Spec /\ Fairness
-----------------------------------------------------------------------------
TypeOK ==
    /\ registry \in LS!Registries \cup {None}
    /\ profile \in LS!Profiles \cup {None}
    /\ layers \in LS!Indexes /\ recorded \in 0 .. MaxLayers
    /\ journal \in Journals \cup {None}
    /\ manifest \in [Gens -> LS!Profiles \cup {None}]
    /\ staged \subseteq Gens /\ witness \subseteq Gens /\ damaged \subseteq Gens
    /\ lane \in Procs \cup {None}
    /\ pc \in [Procs -> Steps]
    /\ plan \in [Procs -> Plans \cup {None}]
    /\ selected \in [Procs -> {"before", "after", None}]
    /\ outcome \in [Procs -> Outcomes]
    /\ nextGen \in 1 .. MaxGen + 1
    /\ faults \in 0 .. MaxFaults /\ crashes \in 0 .. MaxCrashes
    /\ edits \in 0 .. MaxStrays /\ sends \in 0 .. MaxStrays

(* Nobody has written a ledger without the lane. *)
Undisturbed == edits = 0 /\ sends = 0

(* Whenever no journal is left, whatever failed or died before, the two ledgers
   load together: they agree and the manifest is retained. *)
LedgersAgree ==
    journal = None /\ Undisturbed =>
        /\ ProfileLoads(LS!RowsOf(registry))
        /\ profile # None => registry # None

(* Whoever uses an identity, the virtual profile or an archive layer, finds it
   reserved and for no layer but its own, whatever order installs, removals,
   deletions, publications, failures and recoveries take. *)
OwnersReserved == Undisturbed => LS!OwnersReserved

(* An interrupted transaction can always be decided: each ledger is one of
   the two sides the journal records, and the side recovery would settle on
   is one the verification accepts. *)
AlwaysRecoverable ==
    journal # None /\ Undisturbed =>
        /\ registry \in {journal.before.registry, journal.after.registry}
        /\ profile \in {journal.before.profile, journal.after.profile}
        /\ LS!Agrees(journal.before.registry, journal.before.profile)
        /\ LS!Agrees(journal.after.registry, journal.after.profile)
        /\ Retained(journal.before.profile) /\ Retained(journal.after.profile)

(* What a publication tells its caller is what the files say at that moment:
   "committed" means both new ledgers and no journal; a plain error means
   both old ledgers; and when it asks for recovery a journal is there to
   recover from, unless evidence was taken away without the lane. *)
OutcomeIsTruthful ==
    [][\A p \in Procs : lane = p /\ lane' = None /\ pc'[p] = "prepared" /\ sends = 0 =>
        CASE outcome'[p] = "committed" ->
                journal' = None /\ Current' = plan[p].after
          [] outcome'[p] = "failed" /\ pc[p] # "locked" ->
                /\ Current' = Before(p) \/ edits > 0
                /\ journal' = None \/ journal'.before = Current'
          [] outcome'[p] = "recovery required" ->
                journal' # None \/ edits > 0
          [] OTHER -> TRUE]_vars

(* A ledger another program replaced during an interrupted transaction is
   never overwritten: recovery refuses before its first write.  (A send may
   still replace the registry after recovery has looked.) *)
ForeignLedgerKept ==
    [][journal # None /\ edits' = edits /\ sends' = 0 =>
        /\ registry \notin {journal.before.registry, journal.after.registry}
              => UNCHANGED ledgers
        /\ profile \notin {journal.before.profile, journal.after.profile}
              => UNCHANGED ledgers]_vars

(* A journal is removed only over ledgers that verify: they agree, and the
   generation they name is retained and undamaged.  A recovery looks again at
   the end, so for it this holds whatever a send wrote meanwhile. *)
JournalClosedOnlyWhenVerified ==
    [][journal # None /\ journal' = None /\ (sends = 0 \/ pc[lane] = "unlinking") =>
        /\ LS!Agrees(registry', profile')
        /\ profile' # None =>
            /\ registry' # None
            /\ manifest'[profile'.gen] = profile'
            /\ profile'.gen \notin damaged']_vars

FromObserved(p) == plan[p].rows = LS!RowsOf(plan[p].registry)

(* A prepared profile is computed from the ledgers it was observed over.  The
   registry is read a second time after the observation, so this can fail:
   that read may see the registry of a transaction that is rolled back before
   the observation is checked again. *)
PreparedFromObserved == \A p \in Procs : pc[p] = "prepared" => FromObserved(p)

(* The ledgers behave as one atomic store with no lost update, whatever fails,
   dies or races: a change becomes visible in one step, and is computed from
   what was visible before that step - given that it was prepared from what
   it observed, and that nobody wrote a ledger without the lane. *)
ImplementsStore ==
    /\ LS!Init
    /\ [][Undisturbed' /\ (\A p \in Procs : pc[p] = "profiling" => FromObserved(p)) =>
            [LS!Next]_<<Visible, layers>>]_vars

(* An interrupted transaction is always settled in the end, unless a ledger was
   written without the lane. *)
JournalSettled == (journal # None) ~> (journal = None \/ ~Undisturbed)

RegistryLoads == Loadable(LS!RowsOf(registry))

(* "It must not block sending the item": a send that nothing raced leaves a
   registry that CDMW still accepts, whatever layers are left behind. *)
LeftoverNeverBlocks ==
    [][/\ sends' # sends /\ RegistryLoads
       /\ \A p \in Procs : pc[p] = "composed" => ObservedStateHolds(p)
       => RegistryLoads']_vars
=============================================================================
