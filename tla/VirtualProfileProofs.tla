------------------------- MODULE VirtualProfileProofs -------------------------
(***************************************************************************)
(* What the two identity ledgers keep, for any processes, identities and   *)
(* number of failures, deaths and foreign edits.                           *)
(*                                                                         *)
(* Control says who holds the lane, who has a plan and when a journal is   *)
(* there.  Prepared says what a plan is worth without a lane: its profile  *)
(* fits its registry, and fits the overlay index whenever the index still  *)
(* is the one it was prepared from.  Transacting ties the ledgers, the     *)
(* journal and the generation's files to the step the lane holder is at.   *)
(* AlwaysSound says that either side recovery may settle on would load.    *)
(* A send replaces the registry under all of this: what follows is proved  *)
(* of Laned, the steps but for sends, and holds until the first of them.   *)
(***************************************************************************)
EXTENDS VirtualProfile, TLAPS

Observing == {"observing", "profile next", "observed"}
Preparing == Observing \cup {"loading", "composed", "prepared"}
Refusing  == {"locked", "staging", "verified", "witnessed"}
Writing   == {"committing", "profiling", "closing"}
Deciding  == {"restoring", "reprofiling", "verifying", "unlinking"}
Holding   == Refusing \cup Writing \cup Deciding \cup {"recovering", "finishing"}

LaneHeld == \A p \in Procs : pc[p] \in Holding <=> lane = p

Planned ==
    \A p \in Procs :
        /\ pc[p] = "idle" => plan[p] = None
        /\ pc[p] \in Preparing \cup Refusing \cup Writing \cup {"finishing"} => plan[p] # None
        /\ pc[p] \in Observing => plan[p].after = None
        /\ pc[p] = "loading" => plan[p].rows # None
        /\ pc[p] \notin Observing \cup {"loading"} /\ plan[p] # None => plan[p].after # None

Journalled ==
    \A p \in Procs :
        /\ pc[p] \in Refusing \cup {"finishing"} => journal = None
        /\ pc[p] \in Writing \cup Deciding => journal # None
        /\ pc[p] = "recovering" /\ plan[p] = None => journal # None
        /\ pc[p] \in Deciding \cup {"finishing"} => selected[p] # None

Control == LaneHeld /\ Planned /\ Journalled

\* Every step but a send's write of the registry.
Laned ==
    \/ \E p \in Procs : Prepare(p) \/ Commit(p) \/ StartRecovery(p)
                      \/ Recover(p) \/ Crash(p)
    \/ ArchiveChange
    \/ Edit
-----------------------------------------------------------------------------
Named(prof) == prof # None => prof.gen \in staged

FilesKept ==
    /\ witness \cup damaged \subseteq staged
    /\ Named(profile)
    /\ journal # None => Named(journal.before.profile) /\ Named(journal.after.profile)
    /\ edits = 0 => damaged = {}

\* The row r is there, and for no layer but l.
Kept(r, l) == r # None /\ r.layer \in {None, l}

Reserved(pair) ==
    /\ \A i \in LS!Owned(layers) : Kept(LS!RowsOf(pair.registry)[i], layers[i])
    /\ VirtualLoading => LS!Served(pair.profile) \cap LS!Owned(layers) = {}

IndexOf(p) == plan[p].layers = layers /\ plan[p].recorded = recorded

\* Since it was observed, an index of as many layers has only lost owners.
IndexFollowed ==
    \A p \in Procs : plan[p] # None =>
        /\ plan[p].recorded <= recorded
        /\ plan[p].recorded = recorded =>
             \A i \in LS!Owned(layers) : plan[p].layers[i] = layers[i]

\* The registry of `after` is its rows with the reservations of its profile.
Fits(rows, after) ==
    \A i \in Ids : after.registry[i] =
        IF after.profile.items[i] # None
          THEN [binding |-> after.profile.items[i], layer |-> None]
          ELSE rows[i]

Composed ==
    \A p \in Procs : plan[p] # None /\ plan[p].after # None =>
        /\ plan[p].rows # None
        /\ plan[p].after.registry # None /\ plan[p].after.profile # None
        /\ plan[p].after.profile.gen = plan[p].gen
        /\ Fits(plan[p].rows, plan[p].after)
        /\ IndexOf(p) => Reserved(plan[p].after)

Prepared == IndexFollowed /\ Composed
-----------------------------------------------------------------------------
Entry(p) == [before |-> Before(p), after |-> plan[p].after]

Staged(p) ==
    /\ plan[p].gen \in staged \ damaged
    /\ plan[p].profile # None => plan[p].profile.gen # plan[p].gen

Transacting ==
    \A p \in Procs :
        /\ pc[p] \in {"staging", "verified", "witnessed"} => Current = Before(p)
        /\ pc[p] \in {"staging", "verified", "witnessed"} \cup Writing => Staged(p)
        /\ pc[p] \in {"verified", "witnessed"} \cup Writing =>
             manifest[plan[p].gen] = plan[p].after.profile
        /\ pc[p] = "witnessed" => IndexOf(p)
        /\ pc[p] \in {"witnessed"} \cup Writing => plan[p].gen \in witness
        /\ pc[p] \in Writing => journal = Entry(p)
        /\ pc[p] = "committing" => Current = journal.before
        /\ pc[p] = "profiling" =>
             registry = journal.after.registry /\ profile = journal.before.profile
        /\ pc[p] = "closing" => Current = journal.after
        /\ pc[p] \in Deciding => OwnLedgers

\* What a publication that failed knows while it recovers.
Reporting ==
    \A p \in Procs : plan[p] # None /\ edits = 0 =>
        /\ pc[p] \in Deciding \cup {"recovering"} =>
             /\ plan[p].gen \in witness
             /\ IF journal = None THEN Current \in {Before(p), plan[p].after}
                                  ELSE journal = Entry(p)
        /\ pc[p] = "finishing" =>
             Current = IF selected[p] = "after" THEN plan[p].after ELSE Before(p)

Sound(pair) ==
    /\ Retained(pair.profile)
    /\ LS!Agrees(pair.registry, pair.profile)
    /\ pair.profile # None => pair.registry # None
    /\ Reserved(pair)

AlwaysSound ==
    edits = 0 =>
        /\ journal = None => Sound(Current)
        /\ journal # None => OwnLedgers /\ Sound(journal.before) /\ Sound(journal.after)
IInv == TypeOK /\ Control /\ FilesKept /\ Prepared /\ Transacting
-----------------------------------------------------------------------------
LEMMA PlanFields ==
    ASSUME NEW x \in Plans
    PROVE  /\ x.registry \in LS!Registries \cup {None} /\ x.profile \in LS!Profiles \cup {None}
           /\ x.layers \in LS!Indexes /\ x.recorded \in 0 .. MaxLayers /\ x.gen \in Gens
           /\ x.rows \in LS!Registries \cup {None} /\ x.after \in Pairs \cup {None}
BY DEF Plans

LEMMA PlanUpdates ==
    ASSUME NEW x \in Plans
    PROVE  /\ \A r \in LS!Registries \cup {None} :
                /\ [x EXCEPT !.registry = r] \in Plans
                /\ [x EXCEPT !.rows = r] \in Plans
           /\ \A f \in LS!Profiles \cup {None} : [x EXCEPT !.profile = f] \in Plans
           /\ \A a \in Pairs : [x EXCEPT !.after = a] \in Plans
BY DEF Plans

LEMMA PairFields ==
    ASSUME NEW x \in Pairs
    PROVE  x.registry \in LS!Registries \cup {None} /\ x.profile \in LS!Profiles \cup {None}
BY DEF Pairs

LEMMA RowsType ==
    ASSUME NEW r \in LS!Registries \cup {None}
    PROVE  LS!RowsOf(r) \in LS!Registries /\ LS!RowsOf(r) # None
BY NoneAssumption DEF LS!RowsOf, LS!Registries, LS!NoneApart, LS!Rows

(* What publishing makes of a store. *)
LEMMA PublishFacts ==
    ASSUME NEW rows \in LS!Registries, NEW prof, NEW ix, NEW gen \in Gens,
           NEW selection \in LS!Selections
    PROVE  LET t == LS!PublishOf([registry |-> rows, profile |-> prof, layers |-> ix],
                                 gen, selection)
               a == [registry |-> t.registry, profile |-> t.profile]
           IN  /\ a \in Pairs /\ a.registry # None /\ a.profile # None
               /\ a.profile = [gen |-> gen, items |-> selection]
               /\ Fits(rows, a)
  <1> DEFINE t == LS!PublishOf([registry |-> rows, profile |-> prof, layers |-> ix],
                               gen, selection)
             reg == [i \in Ids |-> IF selection[i] # None
                                     THEN [binding |-> selection[i], layer |-> None]
                                     ELSE LS!RowsOf(rows)[i]]
             new == [gen |-> gen, items |-> selection]
  <1>1. rows # None /\ LS!RowsOf(rows) = rows
    BY NoneAssumption DEF LS!RowsOf, LS!NoneApart, LS!Registries, LS!Rows
  <1>2. t.registry = reg /\ t.profile = new
    BY DEF LS!PublishOf
  <1>3. reg \in LS!Registries
    BY <1>1 DEF LS!Registries, LS!Rows, LS!Selections
  <1>4. new \in LS!Profiles
    BY DEF LS!Profiles
  <1>5. reg # None /\ new # None
    BY <1>3, <1>4, NoneAssumption DEF LS!NoneApart, LS!Registries, LS!Profiles, LS!Rows,
       LS!Selections
  <1>6. Fits(rows, [registry |-> reg, profile |-> new])
    BY <1>1 DEF Fits
  <1> HIDE DEF t, reg, new
  <1>7. [registry |-> reg, profile |-> new] \in Pairs
    BY <1>3, <1>4 DEF Pairs
  <1> QED BY <1>2, <1>5, <1>6, <1>7 DEF t, new
-----------------------------------------------------------------------------
(* What the archive's changes do to the store. *)
LEMMA ArchiveFacts ==
    ASSUME TypeOK, ArchiveChange
    PROVE  /\ lane = None /\ Loadable(LS!RowsOf(registry))
           /\ UNCHANGED <<profile, journal, retained, lane, control, nextGen, faults, crashes, edits,
                         sends>>
           /\ \/ \E i \in Ids, row \in LS!Rows :
                   /\ i \notin LS!Served(profile)
                   /\ recorded < MaxLayers /\ recorded' = recorded + 1
                   /\ row.layer = recorded + 1
                   /\ registry' = [LS!RowsOf(registry) EXCEPT ![i] = row]
                   /\ layers' = [layers EXCEPT ![i] = recorded + 1]
              \/ \E i \in LS!Owned(layers) :
                   /\ UNCHANGED <<registry, recorded>>
                   /\ layers' = [layers EXCEPT ![i] = None]
              \/ \E i \in Ids :
                   /\ i \notin LS!Served(profile) \cup LS!Owned(layers)
                   /\ registry' = [LS!RowsOf(registry) EXCEPT ![i] = None]
                   /\ UNCHANGED index
  <1>1. ASSUME NEW i \in Ids, NEW b \in Bindings, ArchiveInstall(i, b)
        PROVE  \E row \in LS!Rows :
                   /\ row.layer = recorded + 1
                   /\ registry' = [LS!RowsOf(registry) EXCEPT ![i] = row]
                   /\ layers' = [layers EXCEPT ![i] = recorded + 1]
    <2> DEFINE row == [binding |-> b, layer |-> recorded + 1]
    <2>1. recorded + 1 \in Layers
      BY <1>1, BoundsAssumption DEF ArchiveInstall, Layers, TypeOK
    <2>2. row \in LS!Rows /\ row.layer = recorded + 1
      BY <2>1 DEF LS!Rows
    <2>3. /\ registry' = [LS!RowsOf(registry) EXCEPT ![i] = row]
          /\ layers' = [layers EXCEPT ![i] = recorded + 1]
      BY <1>1 DEF ArchiveInstall, ChangeStore, LS!ArchiveInstallOf, LS!ReserveOf, Now
    <2> QED BY <2>2, <2>3
  <1>2. ASSUME NEW i \in Ids, ArchiveRemove(i)
        PROVE  registry' = registry /\ layers' = [layers EXCEPT ![i] = None]
    BY <1>2 DEF ArchiveRemove, ChangeStore, LS!ArchiveRemoveOf, Now
  <1>3. ASSUME NEW i \in Ids, Forget(i)
        PROVE  registry' = [LS!RowsOf(registry) EXCEPT ![i] = None] /\ layers' = layers
    BY <1>3 DEF Forget, ChangeStore, LS!ReserveOf, Now
  <1>4. CASE \E i \in Ids, b \in Bindings : ArchiveInstall(i, b)
    <2> PICK i \in Ids, b \in Bindings : ArchiveInstall(i, b) BY <1>4
    <2> QED BY <1>1 DEF ArchiveInstall, ChangeStore
  <1>5. CASE \E i \in Ids : ArchiveRemove(i)
    <2> PICK i \in Ids : ArchiveRemove(i) BY <1>5
    <2> QED BY <1>2 DEF ArchiveRemove, ChangeStore
  <1>6. CASE \E i \in Ids : Forget(i)
    <2> PICK i \in Ids : Forget(i) BY <1>6
    <2> QED BY <1>3 DEF Forget, ChangeStore, index
  <1> QED BY <1>4, <1>5, <1>6 DEF ArchiveChange

LEMMA ArchiveTyped ==
    ASSUME TypeOK, ArchiveChange PROVE TypeOK'
  <1>0. /\ registry \in LS!Registries \cup {None} /\ layers \in LS!Indexes
        /\ recorded \in 0 .. MaxLayers
    BY DEF TypeOK
  <1>1. LS!RowsOf(registry) \in LS!Registries
    BY RowsType DEF TypeOK
  <1>2. \A i \in Ids, row \in LS!Rows \cup {None} :
            [LS!RowsOf(registry) EXCEPT ![i] = row] \in LS!Registries
    BY <1>1 DEF LS!Registries
  <1>3. /\ recorded < MaxLayers => recorded + 1 \in Layers /\ recorded + 1 \in 0 .. MaxLayers
        /\ \A i \in Ids, l \in Layers \cup {None} : [layers EXCEPT ![i] = l] \in LS!Indexes
        /\ LS!Owned(layers) \subseteq Ids
    BY BoundsAssumption DEF TypeOK, Layers, LS!Indexes, LS!Owned
  <1>4. /\ registry' \in LS!Registries \cup {None} /\ layers' \in LS!Indexes
        /\ recorded' \in 0 .. MaxLayers
    <2>1. CASE \E i \in Ids, row \in LS!Rows :
                   /\ recorded < MaxLayers /\ recorded' = recorded + 1
                   /\ registry' = [LS!RowsOf(registry) EXCEPT ![i] = row]
                   /\ layers' = [layers EXCEPT ![i] = recorded + 1]
      BY <1>2, <1>3, <2>1
    <2>2. CASE \E i \in LS!Owned(layers) :
                   /\ UNCHANGED <<registry, recorded>>
                   /\ layers' = [layers EXCEPT ![i] = None]
      <3> PICK i \in LS!Owned(layers) : layers' = [layers EXCEPT ![i] = None]
        BY <2>2
      <3> QED BY <1>0, <1>3, <2>2
    <2>3. CASE \E i \in Ids :
                   /\ registry' = [LS!RowsOf(registry) EXCEPT ![i] = None]
                   /\ UNCHANGED index
      <3> PICK i \in Ids : registry' = [LS!RowsOf(registry) EXCEPT ![i] = None]
        BY <2>3
      <3> QED BY <1>0, <1>2, <2>3 DEF index
    <2> QED BY <2>1, <2>2, <2>3, ArchiveFacts
  <1> QED BY <1>4, ArchiveFacts DEF TypeOK, retained, control
-----------------------------------------------------------------------------
LEMMA LeaveTyped ==
    ASSUME TypeOK, NEW p \in Procs, NEW result \in Outcomes, Leave(p, result)
    PROVE  /\ pc' \in [Procs -> Steps] /\ lane' \in Procs \cup {None}
           /\ selected' \in [Procs -> {"before", "after", None}]
           /\ outcome' \in [Procs -> Outcomes]
BY DEF TypeOK, Leave, Goto, Steps, Outcomes

LEMMA InitTyped == Init => TypeOK
  <1> SUFFICES ASSUME Init PROVE TypeOK
    OBVIOUS
  <1>1. layers \in LS!Indexes
    BY DEF Init, LS!Indexes
  <1> QED BY <1>1, BoundsAssumption DEF Init, TypeOK, Steps, Outcomes

LEMMA TypeStep == TypeOK /\ Control /\ [Next]_vars => TypeOK'
  <1> SUFFICES ASSUME TypeOK, Control, [Next]_vars PROVE TypeOK'
    OBVIOUS
  <1> USE DEF TypeOK, index, ledgers, retained, disk, control, bounds
  <1>0. /\ Gens \subseteq Nat /\ {MaxGen, MaxLayers, MaxFaults, MaxCrashes, MaxStrays} \subseteq Nat
        /\ \A p \in Procs : plan[p] # None => plan[p] \in Plans
    BY BoundsAssumption DEF Gens
  <1>1. ASSUME NEW p \in Procs, ObserveIndex(p) PROVE TypeOK'
    <2>1. nextGen \in Gens /\ nextGen + 1 \in 1 .. MaxGen + 1
      BY <1>0, <1>1 DEF ObserveIndex, Gens
    <2>2. [layers |-> layers, recorded |-> recorded, registry |-> None,
           profile |-> None, gen |-> nextGen, rows |-> None, after |-> None] \in Plans
      BY <2>1 DEF Plans
    <2> QED BY <1>1, <2>1, <2>2 DEF ObserveIndex, Goto, Steps, Outcomes
  <1>2. ASSUME NEW p \in Procs, ObserveRegistry(p) PROVE TypeOK'
    <2>1. [plan[p] EXCEPT !.registry = registry] \in Plans
      BY <1>0, <1>2, PlanUpdates DEF ObserveRegistry, Control, Planned, Preparing, Observing
    <2> QED BY <1>2, <2>1 DEF ObserveRegistry, Goto, Steps
  <1>3. ASSUME NEW p \in Procs, ObserveProfile(p) PROVE TypeOK'
    <2>1. [plan[p] EXCEPT !.profile = profile] \in Plans
      BY <1>0, <1>3, PlanUpdates DEF ObserveProfile, Control, Planned, Preparing, Observing
    <2> QED BY <1>3, <2>1 DEF ObserveProfile, Goto, Steps
  <1>4. ASSUME NEW p \in Procs, LoadRegistry(p) PROVE TypeOK'
    <2>1. [plan[p] EXCEPT !.rows = LS!RowsOf(registry)] \in Plans
      BY <1>0, <1>4, PlanUpdates, RowsType DEF LoadRegistry, Control, Planned, Preparing, Observing
    <2> QED BY <1>4, <2>1 DEF LoadRegistry, Goto, Steps
  <1>5. ASSUME NEW p \in Procs, NEW selection \in LS!Selections, Compose(p, selection)
        PROVE TypeOK'
    <2>0. plan[p] \in Plans /\ plan[p].rows \in LS!Registries
      BY <1>0, <1>5, PlanFields DEF Compose, Control, Planned, Preparing
    <2>1. CASE Loadable(plan[p].rows)
      <3> DEFINE t == LS!PublishOf([registry |-> plan[p].rows, profile |-> profile,
                                    layers |-> layers], plan[p].gen, selection)
                 a == [registry |-> t.registry, profile |-> t.profile]
      <3>1. a \in Pairs
        BY <2>0, PublishFacts, PlanFields
      <3>2. plan' = [plan EXCEPT ![p].after = a] /\ Goto(p, "composed")
        BY <1>5, <2>1 DEF Compose
      <3> HIDE DEF a
      <3>3. [plan[p] EXCEPT !.after = a] \in Plans
        BY <2>0, <3>1, PlanUpdates
      <3> QED BY <1>5, <3>2, <3>3 DEF Compose, Goto, Steps
    <2>2. CASE ~Loadable(plan[p].rows)
      BY <1>5, <2>2 DEF Compose, Abandon, Goto, Steps
    <2> QED BY <2>1, <2>2
  <1>6. ASSUME NEW p \in Procs, RecheckPreparation(p) PROVE TypeOK'
    BY <1>6 DEF RecheckPreparation, Abandon, Goto, Steps
  <1>7. ASSUME NEW p \in Procs, Discard(p) PROVE TypeOK'
    BY <1>7 DEF Discard, Abandon, Goto, Steps, Outcomes
  <1>8. ASSUME NEW p \in Procs, EnterLane(p) PROVE TypeOK'
    BY <1>8 DEF EnterLane, Goto, Steps, Outcomes
  <1>9. ASSUME NEW p \in Procs, StageGeneration(p) PROVE TypeOK'
    <2>1. plan[p].gen \in Gens
      BY <1>0, <1>9, PlanFields DEF StageGeneration, Control, Planned, Refusing
    <2> QED BY <1>9, <2>1 DEF StageGeneration, Goto, Steps
  <1>10. ASSUME NEW p \in Procs, WriteManifest(p) PROVE TypeOK'
    <2>1. plan[p].gen \in Gens /\ plan[p].after.profile \in LS!Profiles \cup {None}
      BY <1>0, <1>10, PlanFields, PairFields
         DEF WriteManifest, Control, Planned, Refusing, Observing
    <2> QED BY <1>10, <2>1 DEF WriteManifest, Goto, Steps
  <1>11. ASSUME NEW p \in Procs, WriteWitness(p) PROVE TypeOK'
    <2>1. plan[p].gen \in Gens
      BY <1>0, <1>11, PlanFields DEF WriteWitness, Control, Planned, Refusing
    <2> QED BY <1>11, <2>1 DEF WriteWitness, Goto, Steps
  <1>12. ASSUME NEW p \in Procs, Refuse(p) PROVE TypeOK'
    BY <1>12, LeaveTyped DEF Refuse, Outcomes
  <1>13. ASSUME NEW p \in Procs, WriteJournal(p) PROVE TypeOK'
    <2>1. plan[p] \in Plans /\ plan[p].after \in Pairs
      BY <1>0, <1>13, PlanFields DEF WriteJournal, Control, Planned, Refusing, Observing
    <2>2. [before |-> Before(p), after |-> plan[p].after] \in Journals
      BY <2>1, PlanFields DEF Before, Pairs, Journals
    <2>3. /\ journal' \in Journals
          /\ faults' \in 0 .. MaxFaults
          /\ (Goto(p, "committing") /\ UNCHANGED <<lane, selected, outcome>>) \/ Leave(p, "failed")
      BY <1>0, <1>13, <2>2 DEF WriteJournal, Fault
    <2>4. CASE Leave(p, "failed")
      BY <1>13, <2>3, <2>4, LeaveTyped DEF WriteJournal, Outcomes
    <2> QED BY <1>13, <2>3, <2>4 DEF WriteJournal, Goto, Steps
  <1>14. ASSUME NEW p \in Procs, WriteRegistry(p) PROVE TypeOK'
    <2>1. plan[p].after.registry \in LS!Registries \cup {None}
      BY <1>0, <1>14, PlanFields, PairFields
         DEF WriteRegistry, Control, Planned, Writing, Observing
    <2>2. registry' = plan[p].after.registry \/ registry' = registry
      BY <1>14 DEF WriteRegistry, Fault
    <2>3. faults' \in 0 .. MaxFaults
      BY <1>0, <1>14 DEF WriteRegistry, Fault
    <2>4. Goto(p, "profiling") \/ Goto(p, "recovering")
      BY <1>14 DEF WriteRegistry
    <2> QED BY <1>14, <2>1, <2>2, <2>3, <2>4 DEF WriteRegistry, Goto, Steps
  <1>15. ASSUME NEW p \in Procs, WriteProfile(p) PROVE TypeOK'
    <2>1. plan[p].after.profile \in LS!Profiles \cup {None}
      BY <1>0, <1>15, PlanFields, PairFields
         DEF WriteProfile, Control, Planned, Writing, Observing
    <2>2. profile' = plan[p].after.profile \/ profile' = profile
      BY <1>15 DEF WriteProfile, Fault
    <2>3. faults' \in 0 .. MaxFaults
      BY <1>0, <1>15 DEF WriteProfile, Fault
    <2>4. Goto(p, "closing") \/ Goto(p, "recovering")
      BY <1>15 DEF WriteProfile
    <2> QED BY <1>15, <2>1, <2>2, <2>3, <2>4 DEF WriteProfile, Goto, Steps
  <1>16. ASSUME NEW p \in Procs, UnlinkJournal(p) PROVE TypeOK'
    <2>1. journal' \in Journals \cup {None} /\ faults' \in 0 .. MaxFaults
      BY <1>0, <1>16 DEF UnlinkJournal, Fault
    <2>2. CASE Leave(p, "committed")
      BY <1>16, <2>1, <2>2, LeaveTyped DEF UnlinkJournal, Outcomes
    <2>3. CASE Goto(p, "recovering") /\ UNCHANGED <<lane, selected, outcome>>
      BY <1>16, <2>1, <2>3 DEF UnlinkJournal, Goto, Steps
    <2> QED BY <1>16, <2>2, <2>3 DEF UnlinkJournal
  <1>17. ASSUME NEW p \in Procs, StartRecovery(p) PROVE TypeOK'
    BY <1>17 DEF StartRecovery, Goto, Steps, Outcomes
  <1>18. ASSUME NEW p \in Procs, SelectSide(p) PROVE TypeOK'
    <2>1. CASE GiveUp(p)
      BY <1>18, <2>1, LeaveTyped DEF SelectSide, GiveUp, Outcomes
    <2> QED BY <1>18, <2>1 DEF SelectSide, Goto, Steps
  <1>19. ASSUME NEW p \in Procs, pc[p] \in Deciding
         PROVE  /\ journal[selected[p]].registry \in LS!Registries \cup {None}
                /\ journal[selected[p]].profile \in LS!Profiles \cup {None}
    <2>1. journal \in Journals /\ selected[p] \in {"before", "after"}
      BY <1>19 DEF Control, Journalled
    <2>2. journal[selected[p]] \in Pairs
      BY <2>1 DEF Journals
    <2> QED BY <2>2, PairFields
  <1>20. ASSUME NEW p \in Procs, RestoreRegistry(p) PROVE TypeOK'
    <2>1. registry' \in LS!Registries \cup {None} /\ faults' \in 0 .. MaxFaults
      BY <1>0, <1>19, <1>20 DEF RestoreRegistry, Fault, Deciding
    <2>2. CASE GiveUp(p)
      BY <1>20, <2>1, <2>2, LeaveTyped DEF RestoreRegistry, GiveUp, Outcomes
    <2> QED BY <1>20, <2>1, <2>2 DEF RestoreRegistry, Goto, Steps
  <1>21. ASSUME NEW p \in Procs, RestoreProfile(p) PROVE TypeOK'
    <2>1. profile' \in LS!Profiles \cup {None} /\ faults' \in 0 .. MaxFaults
      BY <1>0, <1>19, <1>21 DEF RestoreProfile, Fault, Deciding
    <2>2. CASE GiveUp(p)
      BY <1>21, <2>1, <2>2, LeaveTyped DEF RestoreProfile, GiveUp, Outcomes
    <2> QED BY <1>21, <2>1, <2>2 DEF RestoreProfile, Goto, Steps
  <1>22. ASSUME NEW p \in Procs, VerifyRecovered(p) PROVE TypeOK'
    <2>1. faults' \in 0 .. MaxFaults
      BY <1>0, <1>22 DEF VerifyRecovered, Fault
    <2>2. CASE GiveUp(p)
      BY <1>22, <2>1, <2>2, LeaveTyped DEF VerifyRecovered, GiveUp, Outcomes
    <2> QED BY <1>22, <2>1, <2>2 DEF VerifyRecovered, Goto, Steps
  <1>23. ASSUME NEW p \in Procs, UnlinkRecovered(p) PROVE TypeOK'
    <2>1. journal' \in Journals \cup {None} /\ faults' \in 0 .. MaxFaults
      BY <1>0, <1>23 DEF UnlinkRecovered, Fault
    <2>2. CASE GiveUp(p) \/ Leave(p, "none")
      BY <1>23, <2>1, <2>2, LeaveTyped DEF UnlinkRecovered, GiveUp, Outcomes
    <2>3. CASE /\ pc' \in {[pc EXCEPT ![p] = "finishing"], [pc EXCEPT ![p] = "recovering"]}
               /\ UNCHANGED <<lane, selected, outcome>>
      BY <1>23, <2>1, <2>3 DEF UnlinkRecovered, Steps
    <2> QED BY <1>23, <2>2, <2>3 DEF UnlinkRecovered, Recovered, Unconfirmed, Goto
  <1>24. ASSUME NEW p \in Procs, JudgeMissingJournal(p) PROVE TypeOK'
    <2>1. CASE GiveUp(p)
      BY <1>24, <2>1, LeaveTyped DEF JudgeMissingJournal, GiveUp, Outcomes
    <2> QED BY <1>24, <2>1 DEF JudgeMissingJournal, Goto, Steps
  <1>25. ASSUME NEW p \in Procs, Finish(p) PROVE TypeOK'
    BY <1>25, LeaveTyped DEF Finish, Outcomes
  <1>26. ASSUME NEW p \in Procs, Crash(p) PROVE TypeOK'
    <2>1. crashes' \in 0 .. MaxCrashes
      BY <1>0, <1>26 DEF Crash
    <2>2. lane' \in Procs \cup {None}
      BY <1>26 DEF Crash
    <2> QED BY <1>26, <2>1, <2>2 DEF Crash, Steps, Outcomes
  <1>27. CASE ArchiveChange
    BY <1>0, <1>27, ArchiveTyped DEF ArchiveChange
  <1>28. CASE Edit
    <2>1. [i \in Ids |-> None] \in LS!Registries
      BY DEF LS!Registries
    <2> QED BY <1>0, <1>28, <2>1 DEF Edit
  <1>29. CASE UNCHANGED vars
    BY <1>29 DEF vars
  <1>30. ASSUME NEW p \in Procs, KeepIdentities(p) PROVE TypeOK'
    <2>1. plan[p].after.registry \in LS!Registries \cup {None}
      BY <1>0, <1>30, PlanFields, PairFields
         DEF KeepIdentities, Control, Planned, Preparing, Observing
    <2>2. sends' \in 0 .. MaxStrays
      BY <1>0, <1>30 DEF KeepIdentities
    <2> QED BY <1>30, <2>1, <2>2 DEF KeepIdentities, Abandon, Goto, Steps
  <1> QED BY <1>1, <1>2, <1>3, <1>4, <1>5, <1>6, <1>7, <1>8, <1>9, <1>10, <1>11, <1>12, <1>13,
             <1>14, <1>15, <1>16, <1>17, <1>18, <1>20, <1>21, <1>22, <1>23, <1>24, <1>25, <1>26,
             <1>27, <1>28, <1>29, <1>30 DEF Next, Prepare, Commit, Recover
-----------------------------------------------------------------------------
LEMMA InitControl == Init => Control
BY NoneAssumption DEF Init, Control, LaneHeld, Planned, Journalled, Preparing, Observing,
   Refusing, Writing, Deciding, Holding

LEMMA LeaveControl ==
    ASSUME TypeOK, Control, NEW p \in Procs, NEW result, lane = p, Leave(p, result), UNCHANGED plan
    PROVE  Control'
  <1>1. pc \in [Procs -> Steps]
    BY DEF TypeOK
  <1>2. pc[p] \in Holding /\ (plan[p] # None => plan[p].after # None)
    BY DEF Control, LaneHeld, Planned, Holding, Refusing, Writing, Deciding, Observing
  <1>3. \A q \in Procs : q # p => pc'[q] = pc[q] /\ pc[q] \notin Holding
    BY <1>1 DEF Control, LaneHeld, Leave, Goto
  <1>4. pc'[p] = IF plan[p] = None THEN "idle" ELSE "prepared"
    BY <1>1 DEF Leave, Goto
  <1>5. LaneHeld'
    BY <1>3, <1>4, NoneAssumption
       DEF LaneHeld, Leave, Holding, Refusing, Writing, Deciding
  <1>6. Planned'
    BY <1>2, <1>3, <1>4 DEF Control, Planned, Preparing, Observing, Refusing, Writing
  <1>7. Journalled'
    BY <1>3, <1>4 DEF Journalled, Holding, Refusing, Writing, Deciding
  <1> QED BY <1>5, <1>6, <1>7 DEF Control

(* A step of the lane holder to a step that still holds it. *)
LEMMA HolderControl ==
    ASSUME TypeOK, Control, NEW p \in Procs, lane = p, NEW step \in Holding, Goto(p, step),
           UNCHANGED <<lane, plan>>,
           step \in Refusing \cup Writing \cup {"finishing"} => plan[p] # None,
           step \in Refusing \cup {"finishing"} => journal' = None,
           step \in Writing \cup Deciding => journal' # None,
           step = "recovering" /\ plan[p] = None => journal' # None,
           step \in Deciding \cup {"finishing"} => selected'[p] # None
    PROVE  Control'
  <1>1. pc \in [Procs -> Steps]
    BY DEF TypeOK
  <1>2. pc[p] \in Holding /\ (plan[p] # None => plan[p].after # None)
    BY DEF Control, LaneHeld, Planned, Holding, Refusing, Writing, Deciding, Observing
  <1>3. \A q \in Procs : q # p => pc'[q] = pc[q] /\ pc[q] \notin Holding
    BY <1>1 DEF Control, LaneHeld, Goto
  <1>4. pc'[p] = step
    BY <1>1 DEF Goto
  <1>5. LaneHeld'
    BY <1>3, <1>4 DEF LaneHeld
  <1>6. Planned'
    BY <1>2, <1>3, <1>4 DEF Control, Planned, Preparing, Observing, Refusing, Writing, Deciding,
       Holding
  <1>7. Journalled'
    BY <1>3, <1>4 DEF Journalled, Holding, Refusing, Writing, Deciding
  <1> QED BY <1>5, <1>6, <1>7 DEF Control

(* A step of a process without the lane. *)
LEMMA PreparerControl ==
    ASSUME TypeOK, Control, NEW p \in Procs, pc[p] \notin Holding, NEW step \in Preparing \cup {"idle"},
           Goto(p, step), UNCHANGED <<journal, lane, selected>>,
           \A q \in Procs : q # p => plan'[q] = plan[q],
           plan'[p] = None <=> step = "idle",
           step \in Observing => plan'[p].after = None,
           step = "loading" => plan'[p].rows # None,
           step \in {"composed", "prepared"} => plan'[p].after # None
    PROVE  Control'
  <1>1. pc \in [Procs -> Steps]
    BY DEF TypeOK
  <1>2. pc'[p] = step /\ \A q \in Procs : q # p => pc'[q] = pc[q]
    BY <1>1 DEF Goto
  <1>3. step \notin Holding
    BY DEF Preparing, Observing, Refusing, Writing, Deciding, Holding
  <1>4. LaneHeld'
    BY <1>2, <1>3 DEF Control, LaneHeld
  <1>5. Planned'
    BY <1>2, <1>3 DEF Control, Planned, Preparing, Observing, Refusing, Writing, Holding
  <1>6. Journalled'
    BY <1>2, <1>3 DEF Control, Journalled, Holding, Refusing, Writing, Deciding
  <1> QED BY <1>4, <1>5, <1>6 DEF Control

LEMMA ControlStep == TypeOK /\ Control /\ [Next]_vars => Control'
  <1> SUFFICES ASSUME TypeOK, Control, [Next]_vars PROVE Control'
    OBVIOUS
  <1> USE DEF index, ledgers, retained, disk, control, bounds
  <1>0. /\ plan \in [Procs -> Plans \cup {None}] /\ pc \in [Procs -> Steps]
        /\ selected \in [Procs -> {"before", "after", None}]
        /\ registry \in LS!Registries \cup {None} /\ profile \in LS!Profiles \cup {None}
    BY DEF TypeOK
  <1>a. \A p \in Procs : pc[p] \in Holding <=> lane = p
    BY DEF Control, LaneHeld
  <1>b. \A p \in Procs : pc[p] \in Preparing \cup {"idle"} => pc[p] \notin Holding
    BY DEF Preparing, Observing, Refusing, Writing, Deciding, Holding
  <1>c. \A p \in Procs : pc[p] \in Preparing \cup Refusing \cup Writing \cup {"finishing"}
                            => plan[p] # None
    BY DEF Control, Planned
  <1>d. None \notin Plans \cup Pairs \cup Journals \cup Procs \cup {"before", "after"}
    BY NoneAssumption
  <1>1. ASSUME NEW p \in Procs, ObserveIndex(p) PROVE Control'
    <2>1. plan'[p] = [layers |-> layers, recorded |-> recorded, registry |-> None,
                      profile |-> None, gen |-> nextGen, rows |-> None, after |-> None]
      BY <1>0, <1>1 DEF ObserveIndex
    <2>2. plan'[p] # None /\ plan'[p].after = None
      <3>1. TypeOK'
        BY <1>1, TypeStep
      <3>2. plan'[p] \in Plans \cup {None}
        BY <3>1 DEF TypeOK
      <3>3. nextGen \in Gens
        BY <1>1, BoundsAssumption DEF ObserveIndex, TypeOK, Gens
      <3>4. plan'[p] \in Plans
        BY <2>1, <3>3 DEF Plans, TypeOK
      <3> QED BY <2>1, <3>4, <1>d
    <2> QED BY <1>0, <1>1, <1>b, <2>2, PreparerControl DEF ObserveIndex, Preparing, Observing
  <1>2. ASSUME NEW p \in Procs, ObserveRegistry(p) PROVE Control'
    <2>0. plan[p] \in Plans /\ plan'[p] = [plan[p] EXCEPT !.registry = registry]
      BY <1>0, <1>2, <1>c DEF ObserveRegistry, Preparing, Observing
    <2>1. plan'[p] # None /\ plan'[p].after = None
      <3>1. plan'[p] \in Plans
        BY <1>0, <2>0, PlanUpdates
      <3>2. plan'[p].after = plan[p].after
        BY <2>0 DEF Plans
      <3>3. plan[p].after = None
        BY <1>2 DEF ObserveRegistry, Control, Planned, Observing
      <3> QED BY <1>d, <3>1, <3>2, <3>3
    <2> QED BY <1>0, <1>2, <1>b, <2>1, PreparerControl DEF ObserveRegistry, Preparing, Observing
  <1>3. ASSUME NEW p \in Procs, ObserveProfile(p) PROVE Control'
    <2>0. plan[p] \in Plans /\ plan'[p] = [plan[p] EXCEPT !.profile = profile]
      BY <1>0, <1>3, <1>c DEF ObserveProfile, Preparing, Observing
    <2>1. plan'[p] # None /\ plan'[p].after = None
      <3>1. plan'[p] \in Plans
        BY <1>0, <2>0, PlanUpdates
      <3>2. plan'[p].after = plan[p].after
        BY <2>0 DEF Plans
      <3>3. plan[p].after = None
        BY <1>3 DEF ObserveProfile, Control, Planned, Observing
      <3> QED BY <1>d, <3>1, <3>2, <3>3
    <2> QED BY <1>0, <1>3, <1>b, <2>1, PreparerControl DEF ObserveProfile, Preparing, Observing
  <1>4. ASSUME NEW p \in Procs, LoadRegistry(p) PROVE Control'
    <2>0. plan[p] \in Plans /\ LS!RowsOf(registry) \in LS!Registries /\ LS!RowsOf(registry) # None
      BY <1>0, <1>4, <1>c, RowsType DEF LoadRegistry, Preparing, Observing, TypeOK
    <2>1. plan'[p] = [plan[p] EXCEPT !.rows = LS!RowsOf(registry)]
      BY <1>0, <1>4 DEF LoadRegistry
    <2>2. plan'[p] # None /\ plan'[p].rows # None
      BY <1>d, <2>0, <2>1, PlanUpdates DEF Plans
    <2> QED BY <1>0, <1>4, <1>b, <2>2, PreparerControl DEF LoadRegistry, Preparing, Observing
  <1>5. ASSUME NEW p \in Procs, Abandon(p), pc[p] \in Preparing, UNCHANGED <<journal, lane, selected>>
        PROVE Control'
    BY <1>0, <1>5, <1>b, PreparerControl DEF Abandon, Observing
  <1>6. ASSUME NEW p \in Procs, NEW selection \in LS!Selections, Compose(p, selection)
        PROVE Control'
    <2>1. CASE Loadable(plan[p].rows)
      <3> DEFINE t == LS!PublishOf([registry |-> plan[p].rows, profile |-> profile,
                                    layers |-> layers], plan[p].gen, selection)
                 a == [registry |-> t.registry, profile |-> t.profile]
      <3>0. plan[p] \in Plans /\ plan[p].rows \in LS!Registries
        BY <1>0, <1>6, <1>c, PlanFields DEF Compose, Control, Planned, Preparing
      <3>1. a \in Pairs
        BY <3>0, PublishFacts, PlanFields
      <3>2. plan' = [plan EXCEPT ![p].after = a] /\ Goto(p, "composed")
        BY <1>6, <2>1 DEF Compose
      <3> HIDE DEF a
      <3>3. plan'[p] = [plan[p] EXCEPT !.after = a]
        BY <1>0, <3>2
      <3>4. plan'[p] # None /\ plan'[p].after # None
        BY <1>d, <3>0, <3>1, <3>3, PlanUpdates DEF Plans
      <3> QED BY <1>0, <1>6, <1>b, <3>2, <3>4, PreparerControl DEF Compose, Preparing, Observing
    <2> QED BY <1>5, <1>6, <2>1 DEF Compose, Preparing
  <1>7. ASSUME NEW p \in Procs, RecheckPreparation(p) PROVE Control'
    <2>1. CASE Goto(p, "prepared") /\ UNCHANGED plan
      <3>1. plan[p] # None /\ plan[p].after # None
        BY <1>7, <1>c DEF RecheckPreparation, Preparing, Observing, Control, Planned
      <3> QED BY <1>7, <1>b, <2>1, <3>1, PreparerControl DEF RecheckPreparation, Preparing, Observing
    <2> QED BY <1>5, <1>7, <2>1 DEF RecheckPreparation, Preparing
  <1>8. ASSUME NEW p \in Procs, Discard(p) PROVE Control'
    BY <1>5, <1>8 DEF Discard, Preparing
  <1>9. ASSUME NEW p \in Procs, EnterLane(p) PROVE Control'
    <2>1. pc[p] = "prepared" /\ lane = None /\ journal = None /\ lane' = p
          /\ pc' = [pc EXCEPT ![p] = "locked"] /\ UNCHANGED <<journal, plan, selected>>
      BY <1>9 DEF EnterLane, Goto
    <2>2. plan[p] # None /\ plan[p].after # None
      BY <1>c, <2>1 DEF Preparing, Observing, Control, Planned
    <2>3. \A q \in Procs : q # p => pc[q] \notin Holding /\ pc'[q] = pc[q]
      BY <1>0, <1>a, <1>d, <2>1
    <2>4. pc'[p] = "locked"
      BY <1>0, <2>1
    <2>5. LaneHeld'
      BY <2>1, <2>3, <2>4 DEF LaneHeld, Holding, Refusing
    <2>6. Planned'
      BY <2>1, <2>2, <2>3, <2>4 DEF Control, Planned, Preparing, Observing, Refusing, Writing
    <2>7. Journalled'
      BY <2>1, <2>3, <2>4 DEF Journalled, Holding, Refusing, Writing, Deciding
    <2> QED BY <2>5, <2>6, <2>7 DEF Control
  <1>10. ASSUME NEW p \in Procs, StageGeneration(p) \/ WriteManifest(p) \/ WriteWitness(p)
         PROVE Control'
    <2>1. pc[p] \in Refusing
      BY <1>10 DEF StageGeneration, WriteManifest, WriteWitness, Refusing
    <2>2. lane = p /\ journal = None /\ plan[p] # None
      BY <1>a, <1>c, <2>1 DEF Holding, Control, Journalled
    <2>3. UNCHANGED <<journal, lane, plan>> /\ \E step \in Refusing : Goto(p, step)
      BY <1>10 DEF StageGeneration, WriteManifest, WriteWitness, Refusing
    <2>4. PICK step \in Refusing : Goto(p, step)
      BY <2>3
    <2>5. step \in Holding /\ step \notin Writing \cup Deciding \cup {"recovering", "finishing"}
      BY DEF Refusing, Writing, Deciding, Holding
    <2> QED BY <2>2, <2>3, <2>4, <2>5, HolderControl
  <1>11. ASSUME NEW p \in Procs, NEW result, pc[p] \in Holding, Leave(p, result), UNCHANGED plan
         PROVE Control'
    BY <1>11, <1>a, LeaveControl
  <1>12. ASSUME NEW p \in Procs, Refuse(p) PROVE Control'
    BY <1>11, <1>12 DEF Refuse, Holding, Refusing
  <1>13. ASSUME NEW p \in Procs, WriteJournal(p) PROVE Control'
    <2>1. pc[p] \in Holding /\ lane = p /\ plan[p] # None
      BY <1>13, <1>a, <1>c DEF WriteJournal, Holding, Refusing
    <2>2. CASE Leave(p, "failed")
      BY <1>11, <1>13, <2>1, <2>2 DEF WriteJournal
    <2>3. CASE Goto(p, "committing") /\ UNCHANGED lane /\ journal' = Entry(p)
      <3>1. journal' # None
        <4>1. plan[p] \in Plans /\ plan[p].after \in Pairs
          BY <1>0, <1>13, <2>1, PlanFields DEF WriteJournal, Control, Planned, Observing
        <4>2. Entry(p) \in Journals
          BY <4>1, PlanFields DEF Entry, Before, Pairs, Journals
        <4> QED BY <1>d, <2>3, <4>2
      <3> QED BY <1>13, <2>1, <2>3, <3>1, HolderControl
           DEF WriteJournal, Refusing, Writing, Deciding, Holding
    <2> QED BY <1>13, <2>2, <2>3 DEF WriteJournal, Entry
  <1>14. ASSUME NEW p \in Procs, WriteRegistry(p) \/ WriteProfile(p) PROVE Control'
    <2>1. pc[p] \in Writing /\ lane = p /\ plan[p] # None /\ journal # None
      <3>1. pc[p] \in Writing
        BY <1>14 DEF WriteRegistry, WriteProfile, Writing
      <3> QED BY <1>a, <1>c, <3>1 DEF Holding, Control, Journalled
    <2>2. UNCHANGED <<journal, lane, plan>> /\ \E step \in Writing \cup {"recovering"} : Goto(p, step)
      BY <1>14 DEF WriteRegistry, WriteProfile, Writing
    <2>3. PICK step \in Writing \cup {"recovering"} : Goto(p, step)
      BY <2>2
    <2>4. step \in Holding /\ step \notin Refusing \cup Deciding \cup {"finishing"}
      BY DEF Refusing, Writing, Deciding, Holding
    <2> QED BY <2>1, <2>2, <2>3, <2>4, HolderControl
  <1>15. ASSUME NEW p \in Procs, UnlinkJournal(p) PROVE Control'
    <2>1. pc[p] \in Holding /\ lane = p /\ plan[p] # None
      BY <1>15, <1>a, <1>c DEF UnlinkJournal, Holding, Writing
    <2>2. CASE Leave(p, "committed")
      BY <1>11, <1>15, <2>1, <2>2 DEF UnlinkJournal
    <2>3. CASE Goto(p, "recovering") /\ UNCHANGED lane
      BY <1>15, <2>1, <2>3, HolderControl
         DEF UnlinkJournal, Refusing, Writing, Deciding, Holding
    <2> QED BY <1>15, <2>2, <2>3 DEF UnlinkJournal
  <1>16. ASSUME NEW p \in Procs, StartRecovery(p) PROVE Control'
    <2>1. pc[p] \in {"idle", "prepared"} /\ lane = None /\ journal # None /\ lane' = p
          /\ pc' = [pc EXCEPT ![p] = "recovering"] /\ plan' = [plan EXCEPT ![p] = None]
          /\ UNCHANGED <<journal, selected>>
      BY <1>16 DEF StartRecovery, Goto
    <2>2. \A q \in Procs : q # p => pc[q] \notin Holding /\ pc'[q] = pc[q] /\ plan'[q] = plan[q]
      BY <1>0, <1>a, <1>d, <2>1
    <2>3. pc'[p] = "recovering" /\ plan'[p] = None
      BY <1>0, <2>1
    <2>4. LaneHeld'
      BY <2>1, <2>2, <2>3 DEF LaneHeld, Holding
    <2>5. Planned'
      BY <2>2, <2>3 DEF Control, Planned, Preparing, Observing, Refusing, Writing
    <2>6. Journalled'
      BY <2>1, <2>2, <2>3 DEF Journalled, Holding, Refusing, Writing, Deciding
    <2> QED BY <2>4, <2>5, <2>6 DEF Control
  <1>17. ASSUME NEW p \in Procs, SelectSide(p) PROVE Control'
    <2>1. pc[p] \in Holding /\ lane = p
      BY <1>17, <1>a DEF SelectSide, Holding
    <2>2. CASE GiveUp(p)
      BY <1>11, <1>17, <2>1, <2>2 DEF SelectSide, GiveUp
    <2>3. CASE OwnLedgers /\ ~GiveUp(p)
      <3>1. selected'[p] # None
        BY <1>0, <1>d, <1>17, <2>3 DEF SelectSide
      <3> QED BY <1>17, <2>1, <2>3, <3>1, HolderControl
           DEF SelectSide, Refusing, Writing, Deciding, Holding
    <2> QED BY <1>17, <2>2, <2>3 DEF SelectSide
  <1>18. ASSUME NEW p \in Procs, RestoreRegistry(p) \/ RestoreProfile(p) \/ VerifyRecovered(p)
         PROVE Control'
    <2>1. pc[p] \in Deciding
      BY <1>18 DEF RestoreRegistry, RestoreProfile, VerifyRecovered, Deciding
    <2>2. pc[p] \in Holding /\ lane = p /\ journal # None /\ selected[p] # None
      BY <1>a, <2>1 DEF Holding, Control, Journalled
    <2>3. CASE GiveUp(p)
      BY <1>11, <1>18, <2>2, <2>3 DEF RestoreRegistry, RestoreProfile, VerifyRecovered, GiveUp
    <2>4. CASE UNCHANGED <<lane, selected>> /\ \E step \in Deciding : Goto(p, step)
      <3>1. PICK step \in Deciding : Goto(p, step)
        BY <2>4
      <3>2. step \in Holding /\ step \notin Refusing \cup Writing \cup {"recovering", "finishing"}
        BY DEF Refusing, Writing, Deciding, Holding
      <3>3. UNCHANGED <<journal, plan>>
        BY <1>18 DEF RestoreRegistry, RestoreProfile, VerifyRecovered
      <3> QED BY <2>2, <2>4, <3>1, <3>2, <3>3, HolderControl
    <2> QED BY <1>18, <2>3, <2>4 DEF RestoreRegistry, RestoreProfile, VerifyRecovered, Deciding
  <1>19. ASSUME NEW p \in Procs, UnlinkRecovered(p) PROVE Control'
    <2>1. pc[p] \in Holding /\ lane = p /\ selected[p] # None /\ UNCHANGED plan
      BY <1>19, <1>a DEF UnlinkRecovered, Holding, Deciding, Control, Journalled
    <2>2. CASE GiveUp(p) \/ Leave(p, "none")
      BY <1>11, <1>19, <2>1, <2>2 DEF UnlinkRecovered, GiveUp
    <2>3. CASE /\ plan[p] # None /\ journal' = None /\ UNCHANGED <<lane, selected>>
               /\ Goto(p, "finishing") \/ Goto(p, "recovering")
      BY <2>1, <2>3, HolderControl DEF Refusing, Writing, Deciding, Holding
    <2> QED BY <1>19, <2>2, <2>3 DEF UnlinkRecovered, Recovered, Unconfirmed, Fault
  <1>20. ASSUME NEW p \in Procs, JudgeMissingJournal(p) PROVE Control'
    <2>1. pc[p] \in Holding /\ lane = p /\ plan[p] # None
      BY <1>20, <1>a DEF JudgeMissingJournal, Holding, Control, Journalled
    <2>2. CASE GiveUp(p)
      BY <1>11, <1>20, <2>1, <2>2 DEF JudgeMissingJournal, GiveUp
    <2>3. CASE ~GiveUp(p)
      <3>1. selected'[p] # None
        BY <1>0, <1>d, <1>20, <2>3 DEF JudgeMissingJournal
      <3> QED BY <1>20, <2>1, <2>3, <3>1, HolderControl
           DEF JudgeMissingJournal, Refusing, Writing, Deciding, Holding
    <2> QED BY <2>2, <2>3
  <1>21. ASSUME NEW p \in Procs, Finish(p) PROVE Control'
    BY <1>11, <1>21 DEF Finish, Holding
  <1>22. ASSUME NEW p \in Procs, Crash(p) PROVE Control'
    <2>1. \A q \in Procs : q # p => pc'[q] = pc[q] /\ plan'[q] = plan[q] /\ selected'[q] = selected[q]
      BY <1>0, <1>22 DEF Crash
    <2>2. pc'[p] = "idle" /\ plan'[p] = None /\ lane' = (IF lane = p THEN None ELSE lane)
          /\ UNCHANGED journal
      BY <1>0, <1>22 DEF Crash
    <2>3. LaneHeld'
      BY <1>a, <1>d, <2>1, <2>2 DEF LaneHeld, Holding, Refusing, Writing, Deciding
    <2>4. Planned'
      BY <2>1, <2>2 DEF Control, Planned, Preparing, Observing, Refusing, Writing
    <2>5. Journalled'
      BY <2>1, <2>2 DEF Control, Journalled, Refusing, Writing, Deciding
    <2> QED BY <2>3, <2>4, <2>5 DEF Control
  <1>23. CASE ArchiveChange
    BY <1>23, ArchiveFacts DEF Control, LaneHeld, Planned, Journalled
  <1>24. CASE Edit
    BY <1>24 DEF Edit, Control, LaneHeld, Planned, Journalled
  <1>25. CASE UNCHANGED vars
    BY <1>25 DEF vars, Control, LaneHeld, Planned, Journalled
  <1>26. ASSUME NEW p \in Procs, KeepIdentities(p) PROVE Control'
    BY <1>5, <1>26 DEF KeepIdentities, Preparing
  <1> QED BY <1>1, <1>2, <1>3, <1>4, <1>6, <1>7, <1>8, <1>9, <1>10, <1>12, <1>13, <1>14, <1>15,
             <1>16, <1>17, <1>18, <1>19, <1>20, <1>21, <1>22, <1>23, <1>24, <1>25, <1>26
       DEF Next, Prepare, Commit, Recover
-----------------------------------------------------------------------------
(* A send is the only step outside the lane that writes a ledger, and it is *)
(* counted: while none has, every step is one of Laned.                     *)

LEMMA LanedNext == [Laned]_vars => [Next]_vars
BY DEF Laned, Next

LEMMA LanedSends == TypeOK /\ [Laned]_vars => sends' = sends
  <1> SUFFICES ASSUME TypeOK, [Laned]_vars PROVE sends' = sends
    OBVIOUS
  <1> USE DEF bounds
  <1>1. ASSUME NEW p \in Procs, Prepare(p) PROVE sends' = sends
    <2>1. CASE \E selection \in LS!Selections : Compose(p, selection)
      BY <2>1 DEF Compose
    <2> QED BY <1>1, <2>1 DEF Prepare, ObserveIndex, ObserveRegistry, ObserveProfile,
                          LoadRegistry, RecheckPreparation, Discard
  <1>2. ASSUME NEW p \in Procs, Commit(p) PROVE sends' = sends
    BY <1>2 DEF Commit, EnterLane, StageGeneration, WriteManifest, WriteWitness, Refuse,
       WriteJournal, WriteRegistry, WriteProfile, UnlinkJournal
  <1>3. ASSUME NEW p \in Procs, Recover(p) PROVE sends' = sends
    BY <1>3 DEF Recover, SelectSide, RestoreRegistry, RestoreProfile, VerifyRecovered,
       UnlinkRecovered, JudgeMissingJournal, Finish
  <1>4. ASSUME NEW p \in Procs, StartRecovery(p) \/ Crash(p) PROVE sends' = sends
    BY <1>4 DEF StartRecovery, Crash
  <1>5. CASE ArchiveChange
    BY <1>5, ArchiveFacts
  <1>6. CASE Edit \/ UNCHANGED vars
    BY <1>6 DEF Edit, vars
  <1> QED BY <1>1, <1>2, <1>3, <1>4, <1>5, <1>6 DEF Laned

LEMMA SendOrLaned ==
    ASSUME TypeOK, [Next]_vars
    PROVE  \/ [Laned]_vars /\ sends' = sends
           \/ /\ sends' # 0 /\ sends \in Nat /\ sends' = sends + 1
              /\ UNCHANGED <<journal, lane, edits>>
  <1>1. sends \in Nat
    BY BoundsAssumption DEF TypeOK
  <1>2. ASSUME NEW p \in Procs, KeepIdentities(p)
        PROVE  /\ sends' # 0 /\ sends' = sends + 1
               /\ UNCHANGED <<journal, lane, edits>>
    BY <1>1, <1>2 DEF KeepIdentities
  <1>3. [Laned]_vars \/ \E p \in Procs : KeepIdentities(p)
    BY DEF Laned, Next
  <1> QED BY <1>1, <1>2, <1>3, LanedSends

-----------------------------------------------------------------------------
(* What a plan is worth before the lane is taken. *)

LEMMA PlansMove ==
    ASSUME TypeOK, Control, [Laned]_vars
    PROVE  \/ UNCHANGED <<plan, index>>
           \/ UNCHANGED index /\ \E p \in Procs :
                \/ ObserveIndex(p) \/ ObserveRegistry(p) \/ ObserveProfile(p) \/ LoadRegistry(p)
                \/ \E selection \in LS!Selections :
                     Compose(p, selection) /\ Loadable(plan[p].rows)
                \/ plan' = [plan EXCEPT ![p] = None]
           \/ UNCHANGED plan /\ ArchiveChange
  <1> USE DEF index, ledgers, retained, disk, control, bounds
  <1>1. ASSUME NEW p \in Procs, Prepare(p) PROVE
             \/ UNCHANGED <<plan, index>>
             \/ UNCHANGED index /\
                \/ ObserveIndex(p) \/ ObserveRegistry(p) \/ ObserveProfile(p) \/ LoadRegistry(p)
                \/ \E selection \in LS!Selections :
                     Compose(p, selection) /\ Loadable(plan[p].rows)
                \/ plan' = [plan EXCEPT ![p] = None]
    <2>1. CASE \E selection \in LS!Selections : Compose(p, selection)
      BY <2>1 DEF Compose, Abandon
    <2> QED BY <1>1, <2>1 DEF Prepare, ObserveIndex, ObserveRegistry, ObserveProfile, LoadRegistry,
                          RecheckPreparation, Discard, Abandon
  <1>2. ASSUME NEW p \in Procs, Commit(p) PROVE UNCHANGED <<plan, index>>
    BY <1>2 DEF Commit, EnterLane, StageGeneration, WriteManifest, WriteWitness, Refuse,
       WriteJournal, WriteRegistry, WriteProfile, UnlinkJournal
  <1>3. ASSUME NEW p \in Procs, Recover(p) PROVE UNCHANGED <<plan, index>>
    BY <1>3 DEF Recover, SelectSide, RestoreRegistry, RestoreProfile, VerifyRecovered,
       UnlinkRecovered, JudgeMissingJournal, Finish
  <1>4. ASSUME NEW p \in Procs, StartRecovery(p) \/ Crash(p)
        PROVE UNCHANGED index /\ plan' = [plan EXCEPT ![p] = None]
    BY <1>4 DEF StartRecovery, Crash
  <1>5. CASE ArchiveChange
    BY <1>5, ArchiveFacts
  <1>6. CASE Edit
    BY <1>6 DEF Edit
  <1>7. CASE UNCHANGED vars
    BY <1>7 DEF vars
  <1> QED BY <1>1, <1>2, <1>3, <1>4, <1>5, <1>6, <1>7 DEF Laned

LEMMA ReservedComposed ==
    ASSUME NEW rows \in LS!Registries, NEW pair \in Pairs, pair.registry # None,
           pair.profile # None, Fits(rows, pair), LS!LayersReserved(rows, layers),
           VirtualLoading => \A i \in LS!Owned(layers) : pair.profile.items[i] = None
    PROVE  Reserved(pair)
  <1>1. LS!RowsOf(rows) = rows /\ LS!RowsOf(pair.registry) = pair.registry
    BY NoneAssumption DEF LS!RowsOf, LS!NoneApart, LS!Registries, LS!Rows
  <1>2. \A i \in LS!Owned(layers) : i \in Ids /\ Kept(rows[i], layers[i])
    BY <1>1 DEF LS!Owned, LS!LayersReserved, Kept
  <1>3. \A x \in Bindings : \A l : Kept([binding |-> x, layer |-> None], l)
    <2> SUFFICES ASSUME NEW x \in Bindings, NEW l PROVE Kept([binding |-> x, layer |-> None], l)
      OBVIOUS
    <2>1. [binding |-> x, layer |-> None] \in LS!Rows
      BY DEF LS!Rows
    <2>2. [binding |-> x, layer |-> None] # None
      BY <2>1, NoneAssumption DEF LS!NoneApart, LS!Rows
    <2> QED BY <2>2 DEF Kept
  <1>4. \A i \in Ids : pair.profile.items[i] # None => pair.profile.items[i] \in Bindings
    BY PairFields DEF LS!Profiles, LS!Selections
  <1>5. \A i \in LS!Owned(layers) : Kept(pair.registry[i], layers[i])
    BY <1>2, <1>3, <1>4 DEF Fits
  <1> QED BY <1>1, <1>5 DEF Reserved, LS!Served

\* What Prepared says of one process.
Ready(p) ==
    plan[p] # None =>
        /\ plan[p].recorded <= recorded
        /\ plan[p].recorded = recorded =>
             \A i \in LS!Owned(layers) : plan[p].layers[i] = layers[i]
        /\ plan[p].after # None =>
            /\ plan[p].rows # None
            /\ plan[p].after.registry # None /\ plan[p].after.profile # None
            /\ plan[p].after.profile.gen = plan[p].gen
            /\ Fits(plan[p].rows, plan[p].after)
            /\ IndexOf(p) => Reserved(plan[p].after)

LEMMA PreparedReady == Prepared <=> \A p \in Procs : Ready(p)
BY DEF Prepared, IndexFollowed, Composed, Ready

LEMMA ReadyKept ==
    ASSUME NEW p \in Procs, Ready(p), UNCHANGED index,
           plan'[p].layers = plan[p].layers, plan'[p].recorded = plan[p].recorded,
           plan'[p].gen = plan[p].gen, plan'[p].rows = plan[p].rows, plan'[p].after = plan[p].after,
           plan[p] # None
    PROVE  Ready(p)'
BY DEF Ready, IndexOf, Reserved, index

LEMMA PreparedStep == TypeOK /\ Control /\ Prepared /\ [Laned]_vars => Prepared'
  <1> SUFFICES ASSUME TypeOK, Control, Prepared, [Laned]_vars PROVE \A q \in Procs : Ready(q)'
    BY DEF Prepared, IndexFollowed, Composed, Ready
  <1>0. /\ \A q \in Procs : Ready(q)
        /\ plan \in [Procs -> Plans \cup {None}]
        /\ \A q \in Procs : pc[q] \in Preparing => plan[q] \in Plans
    BY PreparedReady DEF TypeOK, Control, Planned
  <1>1. CASE UNCHANGED <<plan, index>>
    BY <1>0, <1>1 DEF Ready, IndexOf, Reserved, index
  <1>2. ASSUME NEW p \in Procs, UNCHANGED index, NEW x, plan' = [plan EXCEPT ![p] = x], Ready(p)'
        PROVE  \A q \in Procs : Ready(q)'
    <2>1. \A q \in Procs : q # p => plan'[q] = plan[q]
      BY <1>0, <1>2
    <2> QED BY <1>0, <1>2, <2>1 DEF Ready, IndexOf, Reserved, index
  <1>3. ASSUME NEW p \in Procs, UNCHANGED index, ObserveIndex(p) PROVE \A q \in Procs : Ready(q)'
    <2>1. plan' = [plan EXCEPT ![p] =
            [layers |-> layers, recorded |-> recorded, registry |-> None,
             profile |-> None, gen |-> nextGen, rows |-> None, after |-> None]]
      BY <1>3 DEF ObserveIndex
    <2>2. plan'[p].layers = layers /\ plan'[p].recorded = recorded /\ plan'[p].after = None
      BY <1>0, <2>1
    <2>3. recorded \in Nat /\ UNCHANGED <<layers, recorded>>
      BY <1>3, BoundsAssumption DEF TypeOK, index
    <2>4. Ready(p)'
      BY <2>2, <2>3 DEF Ready
    <2> QED BY <1>2, <1>3, <2>1, <2>4
  <1>4. ASSUME NEW p \in Procs, UNCHANGED index, ObserveRegistry(p) PROVE \A q \in Procs : Ready(q)'
    <2>1. plan' = [plan EXCEPT ![p] = [plan[p] EXCEPT !.registry = registry]]
      BY <1>4 DEF ObserveRegistry
    <2>2. plan[p] \in Plans /\ plan'[p] = [plan[p] EXCEPT !.registry = registry]
      BY <1>0, <1>4, <2>1 DEF ObserveRegistry, Preparing, Observing
    <2>3. /\ plan'[p].layers = plan[p].layers /\ plan'[p].recorded = plan[p].recorded
          /\ plan'[p].gen = plan[p].gen /\ plan'[p].rows = plan[p].rows
          /\ plan'[p].after = plan[p].after
      BY <2>2 DEF Plans
    <2>4. Ready(p)'
      BY <1>0, <1>4, <2>2, <2>3, ReadyKept, NoneAssumption
    <2> QED BY <1>2, <1>4, <2>1, <2>4
  <1>5. ASSUME NEW p \in Procs, UNCHANGED index, ObserveProfile(p) PROVE \A q \in Procs : Ready(q)'
    <2>1. plan' = [plan EXCEPT ![p] = [plan[p] EXCEPT !.profile = profile]]
      BY <1>5 DEF ObserveProfile
    <2>2. plan[p] \in Plans /\ plan'[p] = [plan[p] EXCEPT !.profile = profile]
      BY <1>0, <1>5, <2>1 DEF ObserveProfile, Preparing, Observing
    <2>3. /\ plan'[p].layers = plan[p].layers /\ plan'[p].recorded = plan[p].recorded
          /\ plan'[p].gen = plan[p].gen /\ plan'[p].rows = plan[p].rows
          /\ plan'[p].after = plan[p].after
      BY <2>2 DEF Plans
    <2>4. Ready(p)'
      BY <1>0, <1>5, <2>2, <2>3, ReadyKept, NoneAssumption
    <2> QED BY <1>2, <1>5, <2>1, <2>4
  <1>6. ASSUME NEW p \in Procs, UNCHANGED index, LoadRegistry(p) PROVE \A q \in Procs : Ready(q)'
    <2> DEFINE rows == LS!RowsOf(registry)
    <2>1. plan' = [plan EXCEPT ![p] = [plan[p] EXCEPT !.rows = rows]]
      BY <1>6 DEF LoadRegistry
    <2> HIDE DEF rows
    <2>2. plan[p] \in Plans /\ plan'[p] = [plan[p] EXCEPT !.rows = rows] /\ plan[p].after = None
      BY <1>0, <1>6, <2>1 DEF LoadRegistry, Preparing, Observing, Control, Planned
    <2>3. /\ plan'[p].layers = plan[p].layers /\ plan'[p].recorded = plan[p].recorded
          /\ plan'[p].after = None
      BY <2>2 DEF Plans
    <2>4. Ready(p)'
      BY <1>0, <1>6, <2>2, <2>3, NoneAssumption DEF Ready, index
    <2> QED BY <1>2, <1>6, <2>1, <2>4
  <1>7. ASSUME NEW p \in Procs, NEW selection \in LS!Selections, UNCHANGED index,
               Compose(p, selection), Loadable(plan[p].rows)
        PROVE  \A q \in Procs : Ready(q)'
    <2> DEFINE t == LS!PublishOf([registry |-> plan[p].rows, profile |-> profile,
                                  layers |-> layers], plan[p].gen, selection)
               a == [registry |-> t.registry, profile |-> t.profile]
    <2>0. plan[p] \in Plans /\ plan[p].rows \in LS!Registries /\ plan[p].rows # None
          /\ plan[p].gen \in Gens
      BY <1>0, <1>7, PlanFields DEF Compose, Control, Planned, Preparing
    <2>1. plan' = [plan EXCEPT ![p] = [plan[p] EXCEPT !.after = a]]
      BY <1>7 DEF Compose
    <2>2. /\ a \in Pairs /\ a.registry # None /\ a.profile # None /\ Fits(plan[p].rows, a)
          /\ a.profile = [gen |-> plan[p].gen, items |-> selection]
      BY <2>0, PublishFacts
    <2> HIDE DEF a
    <2>3. /\ LS!LayersReserved(plan[p].rows, layers)
          /\ VirtualLoading => \A i \in LS!Owned(layers) : selection[i] = None
      BY <1>7 DEF Compose, Loadable
    <2>4. Reserved(a)
      BY <2>0, <2>2, <2>3, ReservedComposed
    <2>5. plan'[p] = [plan[p] EXCEPT !.after = a]
      BY <1>0, <2>1
    <2>6. /\ plan'[p].layers = plan[p].layers /\ plan'[p].recorded = plan[p].recorded
          /\ plan'[p].gen = plan[p].gen /\ plan'[p].rows = plan[p].rows /\ plan'[p].after = a
      BY <2>0, <2>5 DEF Plans
    <2>7. Ready(p)'
      BY <1>0, <1>7, <2>0, <2>2, <2>6, <2>4, NoneAssumption DEF Ready, Reserved, index
    <2> QED BY <1>2, <1>7, <2>1, <2>7
  <1>8. ASSUME NEW p \in Procs, UNCHANGED index, plan' = [plan EXCEPT ![p] = None]
        PROVE  \A q \in Procs : Ready(q)'
    <2>1. Ready(p)'
      BY <1>0, <1>8 DEF Ready
    <2> QED BY <1>2, <1>8, <2>1
  <1>9. ASSUME UNCHANGED plan, ArchiveChange, NEW q \in Procs PROVE Ready(q)'
    <2> SUFFICES ASSUME plan[q] # None PROVE Ready(q)'
      BY <1>9 DEF Ready
    <2>0. /\ plan[q] \in Plans /\ recorded \in Nat /\ layers \in LS!Indexes
          /\ plan[q].recorded \in Nat /\ plan[q].layers \in LS!Indexes
      BY <1>0, PlanFields, BoundsAssumption DEF TypeOK
    <2>1. CASE \E i \in Ids : recorded' = recorded + 1
      BY <1>0, <1>9, <2>0, <2>1 DEF Ready, IndexOf
    <2>2. CASE \E i \in LS!Owned(layers) : recorded' = recorded /\ layers' = [layers EXCEPT ![i] = None]
      <3> PICK i \in LS!Owned(layers) : recorded' = recorded /\ layers' = [layers EXCEPT ![i] = None]
        BY <2>2
      <3>1. /\ i \in Ids /\ layers[i] # None /\ layers'[i] = None
            /\ \A j \in LS!Owned(layers') : j \in LS!Owned(layers) /\ layers'[j] = layers[j]
        BY <2>0 DEF LS!Owned, LS!Indexes
      <3>2. IndexOf(q)' => FALSE
        BY <1>0, <1>9, <3>1 DEF Ready, IndexOf
      <3> QED BY <1>0, <1>9, <3>1, <3>2 DEF Ready
    <2>3. CASE UNCHANGED index
      BY <1>0, <1>9, <2>3 DEF Ready, IndexOf, Reserved, index
    <2> QED BY <1>9, <2>1, <2>2, <2>3, ArchiveFacts
  <1> QED BY <1>1, <1>3, <1>4, <1>5, <1>6, <1>7, <1>8, <1>9, PlansMove
-----------------------------------------------------------------------------
(* The lane holder's transaction. *)

\* What Transacting says of one process.
Holds(p) ==
    /\ pc[p] \in {"staging", "verified", "witnessed"} => Current = Before(p)
    /\ pc[p] \in {"staging", "verified", "witnessed"} \cup Writing => Staged(p)
    /\ pc[p] \in {"verified", "witnessed"} \cup Writing =>
         manifest[plan[p].gen] = plan[p].after.profile
    /\ pc[p] = "witnessed" => IndexOf(p)
    /\ pc[p] \in {"witnessed"} \cup Writing => plan[p].gen \in witness
    /\ pc[p] \in Writing => journal = Entry(p)
    /\ pc[p] = "committing" => Current = journal.before
    /\ pc[p] = "profiling" =>
         registry = journal.after.registry /\ profile = journal.before.profile
    /\ pc[p] = "closing" => Current = journal.after
    /\ pc[p] \in Deciding => OwnLedgers

Busy == {"staging", "verified", "witnessed"} \cup Writing \cup Deciding

(* Every step that moves the disk. *)
LEMMA DiskMoves ==
    ASSUME [Laned]_vars
    PROVE  \/ UNCHANGED <<disk, edits>>
           \/ \E p \in Procs :
                \/ StageGeneration(p) \/ WriteManifest(p) \/ WriteWitness(p) \/ WriteJournal(p)
                \/ WriteRegistry(p) \/ WriteProfile(p) \/ UnlinkJournal(p)
                \/ RestoreRegistry(p) \/ RestoreProfile(p) \/ UnlinkRecovered(p)
           \/ ArchiveChange
           \/ Edit
  <1> USE DEF bounds
  <1>1. ASSUME NEW p \in Procs, Prepare(p) PROVE UNCHANGED <<disk, edits>>
    <2>1. CASE \E selection \in LS!Selections : Compose(p, selection)
      BY <2>1 DEF Compose
    <2> QED BY <1>1, <2>1 DEF Prepare, ObserveIndex, ObserveRegistry, ObserveProfile, LoadRegistry,
                          RecheckPreparation, Discard
  <1>2. ASSUME NEW p \in Procs, EnterLane(p) \/ Refuse(p) \/ StartRecovery(p) \/ SelectSide(p)
                  \/ VerifyRecovered(p) \/ JudgeMissingJournal(p) \/ Finish(p) \/ Crash(p)
        PROVE  UNCHANGED <<disk, edits>>
    BY <1>2 DEF EnterLane, Refuse, StartRecovery, SelectSide, VerifyRecovered,
                JudgeMissingJournal, Finish, Crash
  <1>3. CASE UNCHANGED vars
    BY <1>3 DEF vars
  <1> QED BY <1>1, <1>2, <1>3 DEF Laned, Commit, Recover

(* Whoever holds the lane afterwards moves alone, but for foreign edits. *)
LEMMA HolderSteps ==
    ASSUME TypeOK, Control, [Laned]_vars, NEW q \in Procs, pc'[q] \in Holding
    PROVE  \/ /\ UNCHANGED <<disk, edits>>
              /\ pc'[q] = pc[q] /\ plan'[q] = plan[q] /\ selected'[q] = selected[q]
           \/ Commit(q) \/ StartRecovery(q) \/ Recover(q)
           \/ Edit /\ pc'[q] = pc[q] /\ pc[q] = "recovering"
  <1> USE DEF control, bounds
  <1>0. /\ pc \in [Procs -> Steps] /\ plan \in [Procs -> Plans \cup {None}]
        /\ selected \in [Procs -> {"before", "after", None}]
        /\ \A p \in Procs : pc[p] \in Holding <=> lane = p
    BY DEF TypeOK, Control, LaneHeld
  <1>1. Holding \cap (Preparing \cup {"idle"}) = {}
    BY DEF Holding, Preparing, Observing, Refusing, Writing, Deciding
  <1>2. ASSUME NEW p \in Procs, UNCHANGED <<disk, edits>>,
               \A r \in Procs : r # p => pc'[r] = pc[r] /\ plan'[r] = plan[r] /\ selected'[r] = selected[r],
               pc'[p] \in Preparing \cup {"idle"}
        PROVE  /\ UNCHANGED <<disk, edits>>
               /\ pc'[q] = pc[q] /\ plan'[q] = plan[q] /\ selected'[q] = selected[q]
    BY <1>1, <1>2
  <1>3. ASSUME NEW p \in Procs, Prepare(p)
        PROVE  /\ UNCHANGED <<disk, edits>>
               /\ pc'[q] = pc[q] /\ plan'[q] = plan[q] /\ selected'[q] = selected[q]
    <2>1. CASE ObserveIndex(p) \/ ObserveRegistry(p) \/ ObserveProfile(p) \/ LoadRegistry(p)
      BY <1>0, <1>2, <2>1 DEF ObserveIndex, ObserveRegistry, ObserveProfile, LoadRegistry, Goto,
         Preparing, Observing
    <2>2. CASE RecheckPreparation(p) \/ Discard(p)
      BY <1>0, <1>2, <2>2 DEF RecheckPreparation, Discard, Abandon, Goto, Preparing
    <2>3. ASSUME NEW selection \in LS!Selections, Compose(p, selection)
          PROVE  /\ UNCHANGED <<disk, edits>>
                 /\ pc'[q] = pc[q] /\ plan'[q] = plan[q] /\ selected'[q] = selected[q]
      <3>1. /\ UNCHANGED <<disk, edits, selected>>
            /\ \E x : plan' = [plan EXCEPT ![p] = x]
            /\ Goto(p, "composed") \/ Goto(p, "idle")
        BY <2>3 DEF Compose, Abandon
      <3> QED BY <1>0, <1>2, <3>1 DEF Goto, Preparing
    <2> QED BY <1>3, <2>1, <2>2, <2>3 DEF Prepare
  <1>4. ASSUME NEW p \in Procs, Crash(p)
        PROVE  /\ UNCHANGED <<disk, edits>>
               /\ pc'[q] = pc[q] /\ plan'[q] = plan[q] /\ selected'[q] = selected[q]
    BY <1>0, <1>2, <1>4 DEF Crash
  <1>5. ASSUME NEW p \in Procs, p # q, EnterLane(p) \/ StartRecovery(p)
        PROVE  /\ UNCHANGED <<disk, edits>>
               /\ pc'[q] = pc[q] /\ plan'[q] = plan[q] /\ selected'[q] = selected[q]
    BY <1>0, <1>5 DEF EnterLane, StartRecovery, Goto
  <1>6. ASSUME NEW p \in Procs, Commit(p) \/ Recover(p), ~EnterLane(p) PROVE p = q
    <2>1. pc[p] \in Holding
      BY <1>6 DEF Commit, Recover, StageGeneration, WriteManifest, WriteWitness, Refuse,
         WriteJournal, WriteRegistry, WriteProfile, UnlinkJournal, SelectSide, RestoreRegistry,
         RestoreProfile, VerifyRecovered, UnlinkRecovered, JudgeMissingJournal, Finish,
         Holding, Refusing, Writing, Deciding
    <2>2. CASE Commit(p)
      <3>1. \E step : pc' = [pc EXCEPT ![p] = step]
        BY <1>6, <2>2 DEF Commit, StageGeneration, WriteManifest, WriteWitness, Refuse,
           WriteJournal, WriteRegistry, WriteProfile, UnlinkJournal, Leave, Goto
      <3> QED BY <1>0, <2>1, <3>1
    <2>3. CASE Recover(p)
      <3>1. \E step : pc' = [pc EXCEPT ![p] = step]
        BY <2>3 DEF Recover, SelectSide, RestoreRegistry, RestoreProfile, VerifyRecovered,
           UnlinkRecovered, JudgeMissingJournal, Finish, Recovered, Unconfirmed, GiveUp, Leave, Goto
      <3> QED BY <1>0, <2>1, <3>1
    <2> QED BY <1>6, <2>2, <2>3
  <1>7. CASE ArchiveChange
    BY <1>0, <1>7, ArchiveFacts, NoneAssumption
  <1>8. CASE Edit
    BY <1>0, <1>8, NoneAssumption DEF Edit
  <1>9. CASE UNCHANGED vars
    BY <1>9 DEF vars
  <1>10. ASSUME NEW p \in Procs, EnterLane(p) PROVE Commit(p)
    BY <1>10 DEF Commit
  <1> QED BY <1>3, <1>4, <1>5, <1>6, <1>7, <1>8, <1>9, <1>10 DEF Laned

(* A plan that was composed, and the pairs it is made of. *)
LEMMA PlanPairs ==
    ASSUME IInv, NEW p \in Procs, pc[p] \in Holding, plan[p] # None
    PROVE  /\ plan[p] \in Plans /\ plan[p].gen \in Gens
           /\ plan[p].after \in Pairs /\ Before(p) \in Pairs /\ Entry(p) \in Journals
           /\ plan[p].after.registry # None /\ plan[p].after.profile # None
           /\ plan[p].after.profile.gen = plan[p].gen
           /\ plan[p].after = [registry |-> plan[p].after.registry,
                               profile |-> plan[p].after.profile]
           /\ Before(p).registry = plan[p].registry /\ Before(p).profile = plan[p].profile
           /\ Entry(p).before = Before(p) /\ Entry(p).after = plan[p].after
  <1>1. plan[p] \in Plans /\ plan[p].after # None
    BY DEF IInv, TypeOK, Control, Planned, Holding, Observing, Refusing, Writing, Deciding
  <1>2. plan[p].after \in Pairs /\ plan[p].gen \in Gens
    BY <1>1, PlanFields
  <1>3. Before(p) \in Pairs
    BY <1>1, PlanFields DEF Before, Pairs
  <1>4. Entry(p) \in Journals
    BY <1>2, <1>3 DEF Entry, Journals
  <1>5. /\ plan[p].after.registry # None /\ plan[p].after.profile # None
        /\ plan[p].after.profile.gen = plan[p].gen
    BY <1>1, PreparedReady DEF IInv, Ready
  <1>6. plan[p].after = [registry |-> plan[p].after.registry, profile |-> plan[p].after.profile]
    BY <1>2 DEF Pairs
  <1> QED BY <1>1, <1>2, <1>3, <1>4, <1>5, <1>6 DEF Before, Entry

LEMMA HoldsStep ==
    ASSUME IInv, [Laned]_vars, NEW q \in Procs
    PROVE  Holds(q)'
  <1>0. /\ TypeOK /\ Control /\ FilesKept /\ Holds(q) /\ pc \in [Procs -> Steps]
        /\ manifest \in [Gens -> LS!Profiles \cup {None}]
    BY DEF IInv, TypeOK, Transacting, Holds
  <1> SUFFICES ASSUME pc'[q] \in Busy PROVE Holds(q)'
    BY DEF Holds, Busy, Writing, Deciding
  <1> USE DEF index, ledgers, retained, disk
  <1>a. Writing = {"committing", "profiling", "closing"}
        /\ Deciding = {"restoring", "reprofiling", "verifying", "unlinking"}
    BY DEF Writing, Deciding
  <1>1. CASE UNCHANGED disk /\ pc'[q] = pc[q] /\ plan'[q] = plan[q]
    BY <1>0, <1>1 DEF Holds, Current, Before, Entry, Staged, IndexOf, OwnLedgers
  <1>2. CASE StageGeneration(q)
    <2>1. pc'[q] = "staging" /\ plan'[q] = plan[q]
      BY <1>0, <1>2 DEF StageGeneration, Goto
    <2>2. plan[q].registry = registry /\ plan[q].profile = profile
      BY <1>2 DEF StageGeneration, ObservedStateHolds
    <2>3. /\ plan[q].gen \notin staged /\ staged' = staged \cup {plan[q].gen}
          /\ UNCHANGED <<registry, profile, damaged>>
      BY <1>2 DEF StageGeneration
    <2>4. plan[q].gen \notin damaged /\ (profile # None => profile.gen # plan[q].gen)
      BY <1>0, <2>3 DEF FilesKept, Named
    <2>5. Staged(q)'
      BY <2>1, <2>2, <2>3, <2>4 DEF Staged
    <2>6. (Current = Before(q))'
      BY <2>1, <2>2, <2>3 DEF Current, Before
    <2> QED BY <1>a, <2>1, <2>5, <2>6 DEF Holds
  <1>3. CASE WriteManifest(q)
    <2>1. /\ pc[q] = "staging" /\ pc'[q] = "verified" /\ plan'[q] = plan[q]
          /\ UNCHANGED <<registry, profile, staged, damaged>>
      BY <1>0, <1>3 DEF WriteManifest, Goto
    <2>2. plan[q].gen \in Gens
      BY <2>1, PlanPairs DEF Control, Planned, Refusing, Holding, IInv
    <2>3. manifest'[plan[q].gen] = plan[q].after.profile
      BY <1>0, <1>3, <2>2 DEF WriteManifest
    <2>4. Staged(q)' /\ (Current = Before(q))'
      BY <1>0, <2>1 DEF Holds, Staged, Current, Before
    <2> QED BY <1>a, <2>1, <2>3, <2>4 DEF Holds
  <1>4. CASE WriteWitness(q)
    <2>1. /\ pc[q] = "verified" /\ pc'[q] = "witnessed" /\ plan'[q] = plan[q]
          /\ UNCHANGED <<ledgers, staged, damaged, manifest>>
          /\ witness' = witness \cup {plan[q].gen}
      BY <1>0, <1>4 DEF WriteWitness, Goto
    <2>2. IndexOf(q)'
      BY <1>4, <2>1 DEF WriteWitness, ObservedStateHolds, IndexOf
    <2>3. Staged(q)' /\ (Current = Before(q))' /\ manifest'[plan[q].gen] = plan[q].after.profile
      BY <1>0, <2>1 DEF Holds, Staged, Current, Before
    <2> QED BY <1>a, <2>1, <2>2, <2>3 DEF Holds
  <1>5. CASE WriteJournal(q)
    <2>1. /\ pc[q] = "witnessed" /\ pc'[q] \in {"committing", "idle", "prepared"}
          /\ plan'[q] = plan[q] /\ UNCHANGED <<registry, profile, retained>>
          /\ journal' = Entry(q)
      BY <1>0, <1>5 DEF WriteJournal, Leave, Goto, Entry, Fault
    <2>2. pc'[q] = "committing"
      BY <2>1 DEF Busy, Writing, Deciding
    <2>3. Entry(q).before = Before(q)
      BY DEF Entry
    <2>4. Entry(q)' = Entry(q) /\ Before(q)' = Before(q) /\ Current' = Current
      BY <2>1 DEF Entry, Before, Current
    <2>5. /\ Staged(q)' /\ Current = Before(q) /\ manifest'[plan[q].gen] = plan[q].after.profile
          /\ plan[q].gen \in witness'
      BY <1>0, <2>1 DEF Holds, Staged
    <2> QED BY <1>a, <2>1, <2>2, <2>3, <2>4, <2>5 DEF Holds
  <1>b. ASSUME pc[q] \in Writing
        PROVE  /\ plan[q].after = [registry |-> plan[q].after.registry,
                                   profile |-> plan[q].after.profile]
               /\ journal.after = plan[q].after
               /\ journal.before.registry = plan[q].registry
               /\ journal.before.profile = plan[q].profile
    <2>1. plan[q] # None /\ pc[q] \in Holding
      BY <1>0, <1>b DEF Control, Planned, Holding
    <2> QED BY <1>0, <1>b, <2>1, PlanPairs DEF Holds
  <1>6. CASE WriteRegistry(q)
    <2>1. /\ pc[q] = "committing" /\ plan'[q] = plan[q] /\ UNCHANGED <<profile, journal, retained>>
          /\ \/ registry' = plan[q].after.registry /\ pc'[q] = "profiling"
             \/ pc'[q] = "recovering"
      BY <1>0, <1>6 DEF WriteRegistry, Goto
    <2>2. pc'[q] = "profiling" /\ registry' = plan[q].after.registry
      BY <2>1 DEF Busy, Writing, Deciding
    <2>3. Current = journal.before /\ journal = Entry(q) /\ journal.after = plan[q].after
      BY <1>0, <1>a, <1>b, <2>1 DEF Holds
    <2>4. profile = journal.before.profile
      BY <2>3 DEF Current
    <2>5. /\ Staged(q)' /\ manifest'[plan[q].gen] = plan[q].after.profile
          /\ plan[q].gen \in witness' /\ journal' = Entry(q)'
      BY <1>0, <1>a, <2>1 DEF Holds, Staged, Entry, Before
    <2> QED BY <1>a, <2>1, <2>2, <2>3, <2>4, <2>5 DEF Holds
  <1>7. CASE WriteProfile(q)
    <2>1. /\ pc[q] = "profiling" /\ plan'[q] = plan[q] /\ UNCHANGED <<registry, journal, retained>>
          /\ \/ profile' = plan[q].after.profile /\ pc'[q] = "closing"
             \/ pc'[q] = "recovering"
      BY <1>0, <1>7 DEF WriteProfile, Goto
    <2>2. pc'[q] = "closing" /\ profile' = plan[q].after.profile
      BY <2>1 DEF Busy, Writing, Deciding
    <2>3. registry = plan[q].after.registry /\ journal.after = plan[q].after
      BY <1>0, <1>a, <1>b, <2>1 DEF Holds
    <2>4. Current' = journal'.after
      BY <1>a, <1>b, <2>1, <2>2, <2>3 DEF Current
    <2>5. /\ Staged(q)' /\ manifest'[plan[q].gen] = plan[q].after.profile
          /\ plan[q].gen \in witness' /\ journal' = Entry(q)'
      BY <1>0, <1>a, <2>1 DEF Holds, Staged, Entry, Before
    <2> QED BY <1>a, <2>1, <2>2, <2>4, <2>5 DEF Holds
  <1>8. ASSUME pc'[q] \in Deciding, OwnLedgers' PROVE Holds(q)'
    BY <1>a, <1>8 DEF Holds
  <1>9. CASE SelectSide(q)
    <2>1. pc'[q] = "restoring" /\ OwnLedgers /\ UNCHANGED disk
      BY <1>0, <1>9 DEF SelectSide, GiveUp, Leave, Goto, Busy, Writing, Deciding
    <2> QED BY <1>8, <1>a, <2>1 DEF OwnLedgers
  <1>c. ASSUME pc[q] \in Deciding
        PROVE  OwnLedgers /\ journal[selected[q]] \in {journal.before, journal.after}
    BY <1>0, <1>c DEF Holds, TypeOK, Control, Journalled
  <1>10. CASE RestoreRegistry(q)
    <2>1. /\ pc[q] \in Deciding /\ pc'[q] = "reprofiling" /\ UNCHANGED <<profile, journal>>
          /\ registry' = journal[selected[q]].registry
      BY <1>0, <1>10 DEF RestoreRegistry, GiveUp, Leave, Goto, Busy, Writing, Deciding
    <2> QED BY <1>8, <1>a, <1>c, <2>1 DEF OwnLedgers
  <1>11. CASE RestoreProfile(q)
    <2>1. /\ pc[q] \in Deciding /\ pc'[q] = "verifying" /\ UNCHANGED <<registry, journal>>
          /\ profile' = journal[selected[q]].profile
      BY <1>0, <1>11 DEF RestoreProfile, GiveUp, Leave, Goto, Busy, Writing, Deciding
    <2> QED BY <1>8, <1>a, <1>c, <2>1 DEF OwnLedgers
  <1>12. CASE VerifyRecovered(q)
    <2>1. pc[q] \in Deciding /\ pc'[q] = "unlinking" /\ UNCHANGED disk
      BY <1>0, <1>12 DEF VerifyRecovered, GiveUp, Leave, Goto, Busy, Writing, Deciding
    <2> QED BY <1>8, <1>a, <1>c, <2>1 DEF OwnLedgers
  <1>13. ~(EnterLane(q) \/ Refuse(q) \/ UnlinkJournal(q) \/ StartRecovery(q) \/ UnlinkRecovered(q)
           \/ JudgeMissingJournal(q) \/ Finish(q) \/ (Edit /\ pc'[q] = "recovering"))
    <2> SUFFICES ASSUME \E step \in {"idle", "prepared", "locked", "recovering", "finishing"} :
                            pc'[q] = step
                 PROVE  FALSE
      BY <1>0 DEF EnterLane, Refuse, UnlinkJournal, StartRecovery, UnlinkRecovered,
         JudgeMissingJournal, Finish, Recovered, Unconfirmed, GiveUp, Leave, Goto
    <2> QED BY DEF Busy, Writing, Deciding
  <1>14. pc'[q] \in Holding
    BY DEF Busy, Holding, Refusing
  <1>15. \/ UNCHANGED disk /\ pc'[q] = pc[q] /\ plan'[q] = plan[q]
         \/ Commit(q) \/ StartRecovery(q) \/ Recover(q)
         \/ Edit /\ pc'[q] = "recovering"
    BY <1>0, <1>14, HolderSteps
  <1> QED BY <1>1, <1>2, <1>3, <1>4, <1>5, <1>6, <1>7, <1>9, <1>10, <1>11, <1>12, <1>13, <1>15
       DEF Commit, Recover

LEMMA FilesStep == IInv /\ [Laned]_vars => FilesKept'
  <1> SUFFICES ASSUME IInv, [Laned]_vars PROVE FilesKept'
    OBVIOUS
  <1>0. FilesKept /\ \A p \in Procs : Holds(p)
    BY DEF IInv, Transacting, Holds
  <1> USE DEF FilesKept, Named, index, ledgers, retained, disk, bounds
  <1>1. CASE UNCHANGED <<disk, edits>>
    BY <1>0, <1>1
  <1>2. ASSUME NEW p \in Procs, StageGeneration(p) \/ WriteManifest(p) PROVE FilesKept'
    BY <1>0, <1>2 DEF StageGeneration, WriteManifest
  <1>3. ASSUME NEW p \in Procs, pc[p] \in Refusing \cup Writing
        PROVE  pc[p] \in Holding /\ plan[p] # None
    BY <1>3 DEF IInv, Control, Planned, Holding
  <1>4. ASSUME NEW p \in Procs, WriteWitness(p) PROVE FilesKept'
    <2>1. plan[p].gen \in staged
      BY <1>0, <1>4 DEF WriteWitness, Holds, Staged
    <2> QED BY <1>0, <1>4, <2>1 DEF WriteWitness
  <1>5. ASSUME NEW p \in Procs, WriteJournal(p) PROVE FilesKept'
    <2>1. pc[p] = "witnessed" /\ journal' = Entry(p) /\ UNCHANGED <<profile, retained, edits>>
      BY <1>5 DEF WriteJournal, Entry, Fault
    <2>2. plan[p].gen \in staged /\ plan[p].profile = profile
      BY <1>0, <2>1 DEF Holds, Staged, Current, Before
    <2>3. journal'.before.profile = plan[p].profile /\ journal'.after.profile.gen = plan[p].gen
      BY <1>3, <2>1, PlanPairs DEF Refusing
    <2> QED BY <1>0, <2>1, <2>2, <2>3
  <1>6. ASSUME NEW p \in Procs, WriteRegistry(p) \/ RestoreRegistry(p) PROVE FilesKept'
    BY <1>0, <1>6 DEF WriteRegistry, RestoreRegistry
  <1>7. ASSUME NEW p \in Procs, WriteProfile(p) PROVE FilesKept'
    <2>1. /\ pc[p] = "profiling" /\ UNCHANGED <<journal, retained, edits>>
          /\ profile' \in {profile, plan[p].after.profile}
      BY <1>7 DEF WriteProfile, Fault
    <2>2. plan[p].gen \in staged
      BY <1>0, <2>1 DEF Holds, Staged, Writing
    <2>3. plan[p].after.profile.gen = plan[p].gen
      BY <1>3, <2>1, PlanPairs DEF Writing
    <2> QED BY <1>0, <2>1, <2>2, <2>3
  <1>8. ASSUME NEW p \in Procs, UnlinkJournal(p) \/ UnlinkRecovered(p) PROVE FilesKept'
    <2>1. UNCHANGED <<profile, retained, edits>> /\ journal' \in {journal, None}
      BY <1>8 DEF UnlinkJournal, UnlinkRecovered, Fault
    <2> QED BY <1>0, <2>1
  <1>9. ASSUME NEW p \in Procs, RestoreProfile(p) PROVE FilesKept'
    <2>1. /\ pc[p] = "reprofiling" /\ UNCHANGED <<journal, retained, edits>>
          /\ profile' \in {profile, journal[selected[p]].profile}
      BY <1>9 DEF RestoreProfile, Fault
    <2>2. journal # None /\ selected[p] \in {"before", "after"}
      BY <2>1 DEF IInv, TypeOK, Control, Journalled, Deciding
    <2> QED BY <1>0, <2>1, <2>2
  <1>10. CASE ArchiveChange
    BY <1>0, <1>10, ArchiveFacts DEF IInv
  <1>11. CASE Edit
    <2>1. edits' # 0
      BY <1>11, BoundsAssumption DEF Edit, IInv, TypeOK
    <2> QED BY <1>0, <1>11, <2>1 DEF Edit
  <1> QED BY <1>1, <1>2, <1>4, <1>5, <1>6, <1>7, <1>8, <1>9, <1>10, <1>11, DiskMoves

LEMMA IInvStep == IInv /\ [Laned]_vars => IInv'
  <1> SUFFICES ASSUME IInv, [Laned]_vars PROVE IInv'
    OBVIOUS
  <1>1. TypeOK' /\ Control' /\ Prepared'
    BY LanedNext, TypeStep, ControlStep, PreparedStep DEF IInv
  <1>2. FilesKept'
    BY FilesStep
  <1>3. Transacting'
    BY HoldsStep DEF Transacting, Holds
  <1> QED BY <1>1, <1>2, <1>3 DEF IInv

LEMMA InitIInv == Init => IInv
  <1> SUFFICES ASSUME Init PROVE IInv
    OBVIOUS
  <1>1. FilesKept
    BY DEF Init, FilesKept, Named
  <1>2. Prepared
    BY DEF Init, Prepared, IndexFollowed, Composed
  <1>3. Transacting
    BY DEF Init, Transacting, Writing, Deciding
  <1> QED BY <1>1, <1>2, <1>3, InitTyped, InitControl DEF IInv

Reached == TypeOK /\ Control /\ (sends = 0 => IInv)

LEMMA ReachedHolds == Spec => []Reached
  <1>1. Init => Reached
    BY InitIInv DEF Reached, IInv
  <1>2. Reached /\ [Next]_vars => Reached'
    <2> SUFFICES ASSUME Reached, [Next]_vars PROVE Reached'
      OBVIOUS
    <2>1. TypeOK' /\ Control'
      BY TypeStep, ControlStep DEF Reached
    <2>2. sends' = 0 => IInv'
      BY SendOrLaned, IInvStep DEF Reached
    <2> QED BY <2>1, <2>2 DEF Reached
  <1> QED BY <1>1, <1>2, PTL DEF Spec

(* Ledgers, journals, plans and generations stay well-formed, whatever fails
   or dies and however processes interleave: together with the lane being
   held by whoever is inside it. *)
THEOREM TypeCorrect == Spec => []TypeOK
BY ReachedHolds, PTL DEF Reached
-----------------------------------------------------------------------------
(* Both sides of a transaction load, while nobody else writes the files. *)

LEMMA AgreesComposed ==
    ASSUME NEW rows, NEW pair, pair.registry # None, pair.profile # None, Fits(rows, pair)
    PROVE  LS!Agrees(pair.registry, pair.profile)
BY DEF Fits, LS!Agrees, LS!Served

(* An archive change keeps what is sound sound. *)
LEMMA ArchiveSound ==
    ASSUME TypeOK, ArchiveChange, Sound(Current)
    PROVE  Sound(Current)'
  <1>0. /\ registry \in LS!Registries \cup {None} /\ layers \in LS!Indexes
        /\ LS!RowsOf(registry) \in LS!Registries /\ recorded \in Nat
        /\ Current.registry = registry /\ Current.profile = profile
        /\ Current'.registry = registry' /\ Current'.profile = profile'
    BY RowsType, BoundsAssumption DEF TypeOK, Current
  <1>1. UNCHANGED <<profile, manifest>>
    BY ArchiveFacts DEF retained
  <1>2. Retained(Current.profile)'
    BY <1>0, <1>1 DEF Sound, Retained
  <1>3. \A i \in LS!Served(profile) : i \in Ids /\ registry # None /\ LS!RowsOf(registry)[i] = registry[i]
    BY <1>0 DEF Sound, LS!Agrees, LS!RowsOf, LS!Served
  <1>a. /\ \A i \in LS!Served(profile) : registry[i] = [binding |-> profile.items[i], layer |-> None]
        /\ profile # None => registry # None
        /\ \A i \in LS!Owned(layers) : Kept(LS!RowsOf(registry)[i], layers[i])
        /\ VirtualLoading => LS!Served(profile) \cap LS!Owned(layers) = {}
    BY <1>0 DEF Sound, Reserved, LS!Agrees
  <1>4. ASSUME NEW rows \in LS!Registries, registry' = rows,
               \A i \in LS!Served(profile) : rows[i] = LS!RowsOf(registry)[i],
               \A i \in LS!Owned(layers') : Kept(rows[i], layers'[i]),
               VirtualLoading => LS!Served(profile) \cap LS!Owned(layers') = {}
        PROVE  Sound(Current)'
    <2>1. rows # None /\ LS!RowsOf(rows) = rows
      BY NoneAssumption DEF LS!RowsOf, LS!NoneApart, LS!Registries, LS!Rows
    <2>2. LS!Agrees(registry', profile')
      BY <1>1, <1>3, <1>4, <1>a, <2>1 DEF LS!Agrees
    <2>3. /\ \A i \in LS!Owned(layers') : Kept(LS!RowsOf(registry')[i], layers'[i])
          /\ VirtualLoading => LS!Served(profile') \cap LS!Owned(layers') = {}
      BY <1>1, <1>4, <2>1
    <2> QED BY <1>0, <1>2, <1>4, <2>1, <2>2, <2>3 DEF Sound, Reserved
  <1>5. ASSUME NEW i \in Ids, NEW row \in LS!Rows, i \notin LS!Served(profile),
               row.layer = recorded + 1, registry' = [LS!RowsOf(registry) EXCEPT ![i] = row],
               layers' = [layers EXCEPT ![i] = recorded + 1]
        PROVE  Sound(Current)'
    <2>1. /\ [LS!RowsOf(registry) EXCEPT ![i] = row] \in LS!Registries
          /\ row # None
      BY <1>0, <1>5, NoneAssumption DEF LS!Registries, LS!NoneApart, LS!Rows
    <2>2. \A j \in Ids : registry'[j] = IF j = i THEN row ELSE LS!RowsOf(registry)[j]
      BY <1>0, <1>5 DEF LS!Registries
    <2>3. \A j \in Ids : layers'[j] = IF j = i THEN recorded + 1 ELSE layers[j]
      BY <1>0, <1>5 DEF LS!Indexes
    <2>4. /\ \A j \in LS!Served(profile) : registry'[j] = LS!RowsOf(registry)[j]
          /\ VirtualLoading => LS!Served(profile) \cap LS!Owned(layers') = {}
      BY <1>3, <1>5, <1>a, <2>2, <2>3 DEF LS!Owned
    <2>5. \A j \in LS!Owned(layers') : Kept(registry'[j], layers'[j])
      BY <1>5, <1>a, <2>1, <2>2, <2>3 DEF LS!Owned, Kept
    <2> QED BY <1>4, <1>5, <2>1, <2>4, <2>5
  <1>6. ASSUME NEW i \in LS!Owned(layers), registry' = registry, layers' = [layers EXCEPT ![i] = None]
        PROVE  Sound(Current)'
    <2>1. /\ LS!Owned(layers') \subseteq LS!Owned(layers)
          /\ \A j \in LS!Owned(layers') : layers'[j] = layers[j]
      BY <1>0, <1>6 DEF LS!Owned, LS!Indexes
    <2>2. /\ \A j \in LS!Owned(layers') : Kept(LS!RowsOf(registry')[j], layers'[j])
          /\ VirtualLoading => LS!Served(profile') \cap LS!Owned(layers') = {}
      BY <1>1, <1>6, <1>a, <2>1
    <2> QED BY <1>0, <1>1, <1>2, <1>6, <2>2 DEF Sound, Reserved
  <1>7. ASSUME NEW i \in Ids, i \notin LS!Served(profile) \cup LS!Owned(layers), layers' = layers,
               registry' = [LS!RowsOf(registry) EXCEPT ![i] = None]
        PROVE  Sound(Current)'
    <2>1. [LS!RowsOf(registry) EXCEPT ![i] = None] \in LS!Registries
      BY <1>0 DEF LS!Registries
    <2>2. \A j \in Ids : j # i => registry'[j] = LS!RowsOf(registry)[j]
      BY <1>0, <1>7 DEF LS!Registries
    <2>3. LS!Owned(layers) \subseteq Ids /\ LS!Owned(layers') = LS!Owned(layers)
      BY <1>7 DEF LS!Owned
    <2>4. \A j \in LS!Served(profile) : registry'[j] = LS!RowsOf(registry)[j]
      BY <1>3, <1>7, <2>2
    <2>5. \A j \in LS!Owned(layers') : Kept(registry'[j], layers'[j])
      BY <1>7, <1>a, <2>2, <2>3
    <2> QED BY <1>4, <1>7, <1>a, <2>1, <2>3, <2>4, <2>5
  <1> QED BY <1>5, <1>6, <1>7, ArchiveFacts DEF index

LEMMA EditsStep == TypeOK /\ [Laned]_vars /\ edits' = 0 => edits = 0
  <1> SUFFICES ASSUME TypeOK, [Laned]_vars, edits' = 0 PROVE edits = 0
    OBVIOUS
  <1>1. edits = 0 \/ Edit
    BY DiskMoves, ArchiveFacts
       DEF StageGeneration, WriteManifest, WriteWitness, WriteJournal, WriteRegistry, WriteProfile,
           UnlinkJournal, RestoreRegistry, RestoreProfile, UnlinkRecovered, bounds
  <1> QED BY <1>1, BoundsAssumption DEF Edit, TypeOK

LEMMA SoundStep == IInv /\ AlwaysSound /\ [Laned]_vars => AlwaysSound'
  <1> SUFFICES ASSUME IInv, AlwaysSound, [Laned]_vars, edits' = 0 PROVE AlwaysSound'
    BY DEF AlwaysSound
  <1>0. /\ TypeOK /\ FilesKept /\ \A p \in Procs : Holds(p)
        /\ manifest \in [Gens -> LS!Profiles \cup {None}]
    BY DEF IInv, TypeOK, Transacting, Holds
  <1>1. edits = 0
    BY <1>0, EditsStep
  <1>2. edits = 0 /\ ~Edit
    BY <1>0, <1>1, BoundsAssumption DEF Edit, TypeOK
  <1>3. /\ journal = None => Sound(Current)
        /\ journal # None => OwnLedgers /\ Sound(journal.before) /\ Sound(journal.after)
    BY <1>2 DEF AlwaysSound
  <1>4. ASSUME NEW pair, UNCHANGED <<manifest, layers>>, Sound(pair)
        PROVE  /\ \A x : x = pair => Retained(x.profile)'
               /\ \A x : x = pair => Reserved(x)'
    BY <1>4 DEF Sound, Retained, Reserved
  <1>5. ASSUME UNCHANGED <<manifest, layers, ledgers>> PROVE AlwaysSound'
    BY <1>3, <1>5 DEF AlwaysSound, Sound, Retained, Reserved, OwnLedgers, Current, ledgers
  <1>6. ASSUME NEW p \in Procs, StageGeneration(p) \/ WriteWitness(p) PROVE AlwaysSound'
    BY <1>5, <1>6 DEF StageGeneration, WriteWitness, ledgers, index
  <1>7. ASSUME NEW p \in Procs, WriteManifest(p) PROVE AlwaysSound'
    <2>1. /\ pc[p] = "staging" /\ UNCHANGED ledgers
          /\ manifest' = [manifest EXCEPT ![plan[p].gen] = plan[p].after.profile]
      BY <1>7 DEF WriteManifest
    <2>2. journal = None /\ (profile # None => profile.gen # plan[p].gen)
      BY <1>0, <2>1 DEF IInv, Control, Journalled, Refusing, Holds, Staged, Current, Before
    <2>3. profile # None => profile.gen \in Gens
      BY <1>0 DEF TypeOK, LS!Profiles
    <2>4. Sound(Current) /\ Retained(profile)
      BY <1>3, <2>2 DEF Sound, Current
    <2>5. Retained(profile)'
      BY <1>0, <2>1, <2>2, <2>3, <2>4 DEF Retained, ledgers
    <2>6. Sound(Current)'
      BY <2>1, <2>4, <2>5 DEF Sound, Reserved, Current, ledgers, index
    <2> QED BY <2>1, <2>2, <2>6 DEF AlwaysSound, ledgers
  <1>8. ASSUME NEW p \in Procs, WriteJournal(p) PROVE AlwaysSound'
    <2>1. /\ pc[p] = "witnessed" /\ journal' = Entry(p)
          /\ UNCHANGED <<registry, profile, index, retained>>
      BY <1>8 DEF WriteJournal, Entry, Fault
    <2>2. journal = None /\ plan[p] # None /\ pc[p] \in Holding
      BY <2>1 DEF IInv, Control, Journalled, Planned, Refusing, Holding
    <2>3. /\ Current = Before(p) /\ IndexOf(p)
          /\ manifest[plan[p].gen] = plan[p].after.profile
      BY <1>0, <2>1 DEF Holds
    <2>4. Sound(Before(p))
      BY <1>3, <2>2, <2>3
    <2>5. Sound(plan[p].after)
      <3>1. Ready(p) /\ plan[p].after # None
        BY <2>1, <2>2, PreparedReady DEF IInv, Control, Planned, Observing
      <3>2. /\ plan[p].after.registry # None /\ plan[p].after.profile # None
            /\ plan[p].after.profile.gen = plan[p].gen /\ Fits(plan[p].rows, plan[p].after)
            /\ Reserved(plan[p].after)
        BY <2>2, <2>3, <3>1 DEF Ready
      <3> QED BY <2>3, <3>2, AgreesComposed DEF Sound, Retained
    <2>6. journal'.before = Before(p) /\ journal'.after = plan[p].after
      BY <2>1 DEF Entry
    <2>7. OwnLedgers'
      BY <2>1, <2>3, <2>6 DEF OwnLedgers, Current, Before
    <2>8. \A x : Sound(x) => Sound(x)'
      BY <2>1 DEF Sound, Retained, Reserved, index, retained
    <2>9. Sound(journal.before)' /\ Sound(journal.after)'
      BY <2>1, <2>4, <2>5, <2>6 DEF Sound, Retained, Reserved, index, retained
    <2>10. journal' # None
      BY <2>1, <2>2, PlanPairs, NoneAssumption
    <2> QED BY <2>7, <2>9, <2>10 DEF AlwaysSound
  <1>9. ASSUME journal # None, UNCHANGED <<journal, index, retained>>, OwnLedgers' PROVE AlwaysSound'
    BY <1>3, <1>9 DEF AlwaysSound, Sound, Retained, Reserved, index, retained
  <1>10. ASSUME NEW p \in Procs, WriteRegistry(p) PROVE AlwaysSound'
    <2>1. /\ pc[p] \in Writing /\ UNCHANGED <<profile, journal, index, retained>>
          /\ registry' \in {registry, plan[p].after.registry}
      BY <1>10 DEF WriteRegistry, Fault, Writing
    <2>2. journal # None /\ journal = Entry(p)
      BY <1>0, <2>1 DEF IInv, Control, Journalled, Holds
    <2>3. OwnLedgers'
      BY <1>3, <2>1, <2>2 DEF OwnLedgers, Entry
    <2> QED BY <1>9, <2>1, <2>2, <2>3
  <1>11. ASSUME NEW p \in Procs, WriteProfile(p) PROVE AlwaysSound'
    <2>1. /\ pc[p] \in Writing /\ UNCHANGED <<registry, journal, index, retained>>
          /\ profile' \in {profile, plan[p].after.profile}
      BY <1>11 DEF WriteProfile, Fault, Writing
    <2>2. journal # None /\ journal = Entry(p)
      BY <1>0, <2>1 DEF IInv, Control, Journalled, Holds
    <2>3. OwnLedgers'
      BY <1>3, <2>1, <2>2 DEF OwnLedgers, Entry
    <2> QED BY <1>9, <2>1, <2>2, <2>3
  <1>12. ASSUME NEW p \in Procs, RestoreRegistry(p) \/ RestoreProfile(p) PROVE AlwaysSound'
    <2>1. /\ pc[p] \in Deciding /\ UNCHANGED <<journal, index, retained>>
          /\ registry' \in {registry, journal[selected[p]].registry}
          /\ profile' \in {profile, journal[selected[p]].profile}
      BY <1>12 DEF RestoreRegistry, RestoreProfile, Fault, Deciding
    <2>2. journal # None /\ selected[p] \in {"before", "after"}
      BY <2>1 DEF IInv, TypeOK, Control, Journalled
    <2>3. OwnLedgers'
      BY <1>3, <2>1, <2>2 DEF OwnLedgers
    <2> QED BY <1>9, <2>1, <2>2, <2>3
  <1>13. ASSUME NEW p \in Procs, UnlinkJournal(p) \/ UnlinkRecovered(p) PROVE AlwaysSound'
    <2>1. /\ pc[p] \in Writing \cup Deciding
          /\ UNCHANGED <<registry, profile, index, retained>> /\ journal' \in {journal, None}
      BY <1>13 DEF UnlinkJournal, UnlinkRecovered, Fault, Writing, Deciding
    <2>2. journal # None
      BY <2>1 DEF IInv, Control, Journalled
    <2>3. CASE journal' = journal
      BY <1>5, <2>1, <2>3 DEF ledgers, index, retained
    <2>4. CASE journal' = None
      <3>1. Current \in {journal.before, journal.after}
        <4>1. CASE UnlinkJournal(p)
          BY <1>0, <4>1 DEF UnlinkJournal, Holds
        <4>2. CASE UnlinkRecovered(p)
          <5>1. selected[p] \in {"before", "after"}
            BY <4>2 DEF UnlinkRecovered, IInv, TypeOK, Control, Journalled, Deciding
          <5>2. Verified(p)
            BY <2>2, <2>4, <4>2 DEF UnlinkRecovered, Fault
          <5> QED BY <5>1, <5>2 DEF Verified, RecoveredState
        <4> QED BY <1>13, <4>1, <4>2
      <3>2. Sound(Current)
        BY <1>3, <2>2, <3>1
      <3>3. Sound(Current)'
        BY <2>1, <3>2 DEF Sound, Retained, Reserved, Current, index, retained
      <3> QED BY <2>4, <3>3 DEF AlwaysSound
    <2> QED BY <2>1, <2>3, <2>4
  <1>14. CASE ArchiveChange
    <2>1. journal = None /\ UNCHANGED journal
      BY <1>0, <1>14, ArchiveFacts DEF Loadable, ProfileLoads
    <2>2. Sound(Current)'
      BY <1>0, <1>3, <1>14, <2>1, ArchiveSound
    <2> QED BY <2>1, <2>2 DEF AlwaysSound
  <1>15. CASE UNCHANGED <<disk, edits>>
    BY <1>5, <1>15 DEF disk, ledgers, retained, index
  <1> QED BY <1>2, <1>6, <1>7, <1>8, <1>10, <1>11, <1>12, <1>13, <1>14, <1>15, DiskMoves

ReachedSound == Reached /\ (sends = 0 => AlwaysSound)

LEMMA SoundHolds == Spec => []ReachedSound
  <1>1. Init => AlwaysSound
    BY DEF Init, AlwaysSound, Sound, Retained, Reserved, Current, LS!Agrees, LS!Served,
       LS!Owned
  <1>2. ReachedSound /\ Reached' /\ [Next]_vars => ReachedSound'
    <2> SUFFICES ASSUME ReachedSound, Reached', [Next]_vars, sends' = 0 PROVE AlwaysSound'
      BY DEF ReachedSound
    <2>1. [Laned]_vars /\ sends = 0
      BY SendOrLaned DEF ReachedSound, Reached
    <2> QED BY <2>1, SoundStep DEF ReachedSound, Reached
  <1> QED BY <1>1, <1>2, ReachedHolds, PTL DEF Spec, ReachedSound

LEMMA SoundAgrees ==
    ASSUME NEW pair, Sound(pair)
    PROVE  LS!Agrees(LS!RowsOf(pair.registry), pair.profile)
  <1>1. pair.registry # None => LS!RowsOf(pair.registry) = pair.registry
    BY DEF LS!RowsOf
  <1> QED BY <1>1 DEF Sound, LS!Agrees, LS!Served

(* However many publications, archive changes, failures, deaths and          *)
(* recoveries there were: without a journal, both ledgers load together.     *)
THEOREM LedgersAlwaysAgree == Spec => []LedgersAgree
  <1>1. ReachedSound => LedgersAgree
    <2> SUFFICES ASSUME AlwaysSound, journal = None, edits = 0
                 PROVE  /\ ProfileLoads(LS!RowsOf(registry))
                        /\ profile # None => registry # None
      BY DEF ReachedSound, LedgersAgree, Undisturbed
    <2>1. Sound(Current) /\ Current.registry = registry /\ Current.profile = profile
      BY DEF AlwaysSound, Current
    <2> QED BY <2>1, SoundAgrees DEF Sound, ProfileLoads
  <1> QED BY <1>1, SoundHolds, PTL

(* An interrupted transaction, at whatever step and of whatever failure, has *)
(* ledgers of its own two sides, and each side would be accepted.            *)
THEOREM RecoveryAlwaysDecides == Spec => []AlwaysRecoverable
  <1>1. ReachedSound => AlwaysRecoverable
    BY DEF ReachedSound, AlwaysSound, AlwaysRecoverable, Undisturbed, OwnLedgers, Sound
  <1> QED BY <1>1, SoundHolds, PTL

(* Whoever uses an identity, the virtual profile or an overlay layer, finds  *)
(* it reserved and for no other layer, in any order of changes and failures, *)
(* also where a layer is left behind that publications pass over.            *)
THEOREM OwnersAlwaysReserved == Spec => []OwnersReserved
  <1>1. ReachedSound => OwnersReserved
    <2> SUFFICES ASSUME AlwaysSound, edits = 0 PROVE LS!OwnersReserved
      BY DEF ReachedSound, OwnersReserved, Undisturbed
    <2>1. Sound(Visible)
      BY DEF AlwaysSound, Visible
    <2> QED BY <2>1 DEF LS!OwnersReserved, Sound, Reserved, Kept
  <1> QED BY <1>1, SoundHolds, PTL

-----------------------------------------------------------------------------
(* What the steps of VirtualProfile never do: overwrite a foreign ledger, close *)
(* a journal over ledgers that do not verify, or tell a caller what the files   *)
(* do not say; and that, while no other program writes them, the ledgers behave *)
(* as LedgerStore.                                                              *)


LEMMA Holder ==
    ASSUME IInv, NEW p \in Procs
    PROVE  /\ Holds(p) /\ TypeOK /\ FilesKept
           /\ pc[p] \in Holding <=> lane = p
           /\ pc[p] \in Refusing \cup {"finishing"} => journal = None
           /\ pc[p] \in Writing \cup Deciding => journal \in Journals /\ journal # None
           /\ pc[p] \in Deciding \cup {"finishing"} => selected[p] \in {"before", "after"}
           /\ pc[p] \in Refusing \cup Writing \cup {"finishing"} =>
                plan[p] # None /\ pc[p] \in Holding
           /\ pc[p] = "recovering" /\ plan[p] = None => journal # None
BY DEF IInv, TypeOK, Transacting, Holds, Control, LaneHeld, Journalled, Planned, Holding

LEMMA WritingSides ==
    ASSUME IInv, NEW p \in Procs, pc[p] \in Writing
    PROVE  /\ journal = Entry(p) /\ journal.before = Before(p) /\ journal.after = plan[p].after
           /\ OwnLedgers
           /\ pc[p] = "committing" => Current = journal.before
           /\ pc[p] = "profiling" =>
                registry = journal.after.registry /\ profile = journal.before.profile
           /\ pc[p] = "closing" => Current = journal.after
  <1>1. /\ Holds(p) /\ journal = Entry(p) /\ pc[p] \in {"committing", "profiling", "closing"}
    BY Holder DEF Holds, Writing
  <1>2. journal.before = Before(p) /\ journal.after = plan[p].after
    BY <1>1, Holder, PlanPairs
  <1> QED BY <1>1, <1>2 DEF Holds, OwnLedgers, Current

LEMMA ForeignStep ==
    ASSUME IInv, [Laned]_vars, journal # None, edits' = edits, ~OwnLedgers
    PROVE  UNCHANGED ledgers
  <1>1. CASE UNCHANGED <<disk, edits>>
    BY <1>1 DEF disk
  <1>2. ASSUME NEW p \in Procs, StageGeneration(p) \/ WriteManifest(p) \/ WriteWitness(p)
        PROVE  UNCHANGED ledgers
    BY <1>2 DEF StageGeneration, WriteManifest, WriteWitness
  <1>3. ASSUME NEW p \in Procs, WriteJournal(p) PROVE FALSE
    BY <1>3, Holder DEF WriteJournal, Refusing
  <1>4. ASSUME NEW p \in Procs, pc[p] \in Writing \cup Deciding PROVE FALSE
    BY <1>4, WritingSides, Holder DEF Holds
  <1>5. CASE ArchiveChange
    BY <1>5, ArchiveFacts DEF IInv, Loadable, ProfileLoads
  <1>6. CASE Edit
    BY <1>6, BoundsAssumption DEF Edit, IInv, TypeOK
  <1> QED BY <1>1, <1>2, <1>3, <1>4, <1>5, <1>6, DiskMoves
       DEF WriteRegistry, WriteProfile, UnlinkJournal, RestoreRegistry, RestoreProfile,
           UnlinkRecovered, Writing, Deciding

(* A ledger that another program replaced during an interrupted transaction  *)
(* is never overwritten, by no recovery and no publication.                  *)
THEOREM ForeignLedgersKept == Spec => ForeignLedgerKept
  <1> DEFINE A == journal # None /\ edits' = edits /\ sends' = 0 =>
                    /\ registry \notin {journal.before.registry, journal.after.registry}
                          => UNCHANGED ledgers
                    /\ profile \notin {journal.before.profile, journal.after.profile}
                          => UNCHANGED ledgers
  <1>1. Reached /\ [Next]_vars => A
    <2> SUFFICES ASSUME Reached, [Next]_vars, journal # None, edits' = edits, sends' = 0,
                        ~OwnLedgers
                 PROVE  UNCHANGED ledgers
      BY DEF OwnLedgers
    <2>1. [Laned]_vars /\ IInv
      BY SendOrLaned DEF Reached
    <2> QED BY <2>1, ForeignStep
  <1> QED BY <1>1, ReachedHolds, PTL DEF Spec, ForeignLedgerKept

\* The ledgers and the generation they name, as they are after a step.
ClosedVerified ==
    /\ LS!Agrees(registry', profile')
    /\ profile' # None => /\ registry' # None
                          /\ manifest'[profile'.gen] = profile'
                          /\ profile'.gen \notin damaged'

LEMMA ClosingStep ==
    ASSUME TypeOK, Control, [Laned]_vars, journal # None, journal' = None
    PROVE  \E p \in Procs : UnlinkJournal(p) \/ UnlinkRecovered(p)
  <1>1. ASSUME NEW p \in Procs,
               \/ StageGeneration(p) \/ WriteManifest(p) \/ WriteWitness(p) \/ WriteRegistry(p)
               \/ WriteProfile(p) \/ RestoreRegistry(p) \/ RestoreProfile(p)
        PROVE  FALSE
    BY <1>1 DEF StageGeneration, WriteManifest, WriteWitness, WriteRegistry, WriteProfile,
       RestoreRegistry, RestoreProfile, ledgers
  <1>2. ASSUME NEW p \in Procs, WriteJournal(p) PROVE FALSE
    BY <1>2 DEF WriteJournal, Control, Journalled, Refusing
  <1>3. ~(ArchiveChange \/ Edit \/ UNCHANGED <<disk, edits>>)
    BY ArchiveFacts DEF Edit, disk, ledgers
  <1> QED BY <1>1, <1>2, <1>3, DiskMoves

\* Recovery looks at the ledgers once more before it removes the journal.
LEMMA RecoveredCloses ==
    ASSUME NEW p \in Procs, UnlinkRecovered(p), journal # None, journal' = None
    PROVE  ClosedVerified
  <1>1. Verified(p)
    BY DEF UnlinkRecovered, Fault
  <1>2. UNCHANGED <<registry, profile, manifest, damaged>>
    BY DEF UnlinkRecovered, retained
  <1> QED BY <1>1, <1>2 DEF Verified, RecoveredState, Retained, ClosedVerified

LEMMA CloseStep ==
    ASSUME IInv, [Laned]_vars, journal # None, journal' = None
    PROVE  ClosedVerified
  <1>2. PICK p \in Procs : UnlinkJournal(p) \/ UnlinkRecovered(p)
    BY ClosingStep DEF IInv
  <1>3. CASE UnlinkRecovered(p)
    BY <1>3, RecoveredCloses
  <1>4. CASE UnlinkJournal(p)
    <2>0. UNCHANGED <<registry, profile, manifest, damaged>>
      BY <1>4 DEF UnlinkJournal, retained
    <2>1. pc[p] \in Writing /\ pc[p] = "closing"
      BY <1>4 DEF UnlinkJournal, Writing
    <2>2. /\ Current = plan[p].after /\ plan[p] # None /\ pc[p] \in Holding
          /\ manifest[plan[p].gen] = plan[p].after.profile /\ plan[p].gen \notin damaged
      BY <2>1, WritingSides, Holder DEF Holds, Staged
    <2>3. /\ registry = plan[p].after.registry /\ profile = plan[p].after.profile
          /\ registry # None /\ profile # None /\ profile.gen = plan[p].gen
      BY <2>2, PlanPairs DEF Current
    <2>4. LS!Agrees(plan[p].after.registry, plan[p].after.profile)
      <3>1. Ready(p) /\ plan[p].after # None
        BY <2>1, <2>2, PreparedReady DEF IInv, Control, Planned, Observing
      <3> QED BY <2>2, <3>1, AgreesComposed DEF Ready
    <2> QED BY <2>0, <2>2, <2>3, <2>4 DEF ClosedVerified
  <1> QED BY <1>2, <1>3, <1>4

(* A journal is removed only over ledgers that agree and whose generation is *)
(* retained and undamaged, also when other programs edit the files; and, by  *)
(* a recovery, also when sends replaced the registry.                        *)
THEOREM JournalsClosedVerified == Spec => JournalClosedOnlyWhenVerified
  <1> DEFINE A == journal # None /\ journal' = None /\ (sends = 0 \/ pc[lane] = "unlinking") =>
                    /\ LS!Agrees(registry', profile')
                    /\ profile' # None =>
                        /\ registry' # None
                        /\ manifest'[profile'.gen] = profile'
                        /\ profile'.gen \notin damaged'
  <1>1. Reached /\ [Next]_vars => A
    <2> SUFFICES ASSUME Reached, [Next]_vars, journal # None, journal' = None,
                        sends = 0 \/ pc[lane] = "unlinking"
                 PROVE  ClosedVerified
      BY DEF ClosedVerified
    <2>1. [Laned]_vars /\ TypeOK /\ Control
      BY SendOrLaned DEF Reached
    <2>2. CASE sends = 0
      BY <2>1, <2>2, CloseStep DEF Reached
    <2>3. CASE pc[lane] = "unlinking"
      <3>1. PICK p \in Procs : UnlinkJournal(p) \/ UnlinkRecovered(p)
        BY <2>1, ClosingStep
      <3>2. ~UnlinkJournal(p)
        <4> SUFFICES ASSUME UnlinkJournal(p) PROVE FALSE
          OBVIOUS
        <4>1. pc[p] = "closing" /\ pc[p] \in Holding
          BY DEF UnlinkJournal, Holding, Writing
        <4>2. lane = p
          BY <2>1, <4>1 DEF Control, LaneHeld
        <4> QED BY <2>3, <4>1, <4>2
      <3> QED BY <3>1, <3>2, RecoveredCloses
    <2> QED BY <2>2, <2>3
  <1> QED BY <1>1, ReachedHolds, PTL DEF Spec, JournalClosedOnlyWhenVerified
-----------------------------------------------------------------------------
(* What a failed publication knows while it recovers. *)

\* What Reporting says of one process.
Knows(p) ==
    plan[p] # None /\ edits = 0 =>
        /\ pc[p] \in Deciding \cup {"recovering"} =>
             /\ plan[p].gen \in witness
             /\ IF journal = None THEN Current \in {Before(p), plan[p].after}
                                  ELSE journal = Entry(p)
        /\ pc[p] = "finishing" =>
             Current = IF selected[p] = "after" THEN plan[p].after ELSE Before(p)

LEMMA KnowsStep ==
    ASSUME IInv, Reporting, [Laned]_vars, NEW q \in Procs
    PROVE  Knows(q)'
  <1>0. /\ Knows(q) /\ pc \in [Procs -> Steps] /\ plan \in [Procs -> Plans \cup {None}]
        /\ selected \in [Procs -> {"before", "after", None}]
        /\ TypeOK /\ Control
    BY DEF IInv, TypeOK, Reporting, Knows
  <1> SUFFICES ASSUME plan'[q] # None, edits' = 0, pc'[q] \in Deciding \cup {"recovering", "finishing"}
               PROVE  Knows(q)'
    BY DEF Knows
  <1>1. /\ Deciding = {"restoring", "reprofiling", "verifying", "unlinking"}
        /\ Writing = {"committing", "profiling", "closing"}
    BY DEF Deciding, Writing
  <1>2. CASE UNCHANGED <<disk, edits>> /\ pc'[q] = pc[q] /\ plan'[q] = plan[q]
             /\ selected'[q] = selected[q]
    BY <1>0, <1>2 DEF Knows, Current, Before, Entry, disk, ledgers, retained
  <1>3. ASSUME pc'[q] \in Deciding \cup {"recovering"}, plan'[q] = plan[q], plan[q].gen \in witness',
               UNCHANGED <<registry, profile>>,
               \/ journal' = Entry(q) /\ journal' # None
               \/ journal' = None /\ Current \in {Before(q), plan[q].after}
        PROVE  Knows(q)'
    <2>1. \/ journal' = Entry(q)' /\ journal' # None
          \/ (journal' = None /\ (Current \in {Before(q), plan[q].after})')
      BY <1>3 DEF Entry, Before, Current
    <2> QED BY <1>1, <1>3, <2>1 DEF Knows
  <1>4. ASSUME pc'[q] \in Deciding \cup {"recovering"}, plan'[q] = plan[q], plan[q].gen \in witness',
               journal' = Entry(q), journal' # None
        PROVE  Knows(q)'
    BY <1>1, <1>4 DEF Knows, Entry, Before
  <1>5. CASE WriteRegistry(q) \/ WriteProfile(q) \/ UnlinkJournal(q)
    <2>1. pc[q] \in Writing /\ plan'[q] = plan[q] /\ pc'[q] \in {"profiling", "closing", "recovering",
              "idle", "prepared"} /\ UNCHANGED <<retained>>
      BY <1>0, <1>5 DEF WriteRegistry, WriteProfile, UnlinkJournal, Writing, Leave, Goto
    <2>2. /\ pc'[q] = "recovering" /\ plan[q].gen \in witness'
          /\ journal = Entry(q) /\ journal # None
      BY <1>1, <2>1, Holder DEF Holds, retained
    <2>3. CASE WriteRegistry(q) \/ WriteProfile(q)
      BY <1>4, <2>1, <2>2, <2>3 DEF WriteRegistry, WriteProfile
    <2>4. CASE UnlinkJournal(q)
      <3>1. /\ journal' \in {journal, None} /\ UNCHANGED <<registry, profile>> /\ pc[q] = "closing"
        BY <2>4 DEF UnlinkJournal, Fault
      <3>2. Current = plan[q].after
        BY <2>1, <3>1, WritingSides
      <3> QED BY <1>3, <2>1, <2>2, <3>1, <3>2
    <2> QED BY <1>5, <2>3, <2>4
  <1>6. ~StartRecovery(q)
    BY <1>0 DEF StartRecovery
  <1>7. ASSUME pc[q] \in Deciding \cup {"recovering"}, plan'[q] = plan[q], UNCHANGED <<edits>>
        PROVE  /\ plan[q].gen \in witness
               /\ IF journal = None THEN Current \in {Before(q), plan[q].after}
                                    ELSE journal = Entry(q)
    BY <1>0, <1>7 DEF Knows
  <1>8. CASE SelectSide(q) \/ RestoreRegistry(q) \/ RestoreProfile(q) \/ VerifyRecovered(q)
    <2>1. /\ pc[q] \in Deciding \cup {"recovering"} /\ journal # None /\ plan'[q] = plan[q]
          /\ UNCHANGED <<journal, retained, edits>>
      BY <1>8, <1>1, Holder DEF SelectSide, RestoreRegistry, RestoreProfile, VerifyRecovered,
         disk, ledgers, bounds
    <2>2. pc'[q] \in Deciding
      BY <1>0, <1>1, <1>8 DEF SelectSide, RestoreRegistry, RestoreProfile, VerifyRecovered,
         GiveUp, Leave, Goto
    <2> QED BY <1>4, <1>7, <2>1, <2>2 DEF retained
  <1>9. CASE UnlinkRecovered(q)
    <2>1. /\ pc[q] \in Deciding /\ plan'[q] = plan[q] /\ plan[q] # None
          /\ UNCHANGED <<registry, profile, retained, edits>>
      BY <1>1, <1>9 DEF UnlinkRecovered
    <2>2. /\ Verified(q) /\ journal' = None
          /\ \/ pc'[q] = "finishing" /\ selected'[q] = selected[q]
             \/ pc'[q] = "recovering"
      BY <1>0, <1>1, <1>9, <2>1 DEF UnlinkRecovered, Recovered, Unconfirmed, GiveUp, Leave, Goto, Fault
    <2>3. /\ journal # None /\ journal = Entry(q) /\ plan[q].gen \in witness
          /\ selected[q] \in {"before", "after"} /\ pc[q] \in Holding
      BY <1>7, <2>1, Holder DEF Holding
    <2>4. /\ Current = journal[selected[q]]
          /\ journal.before = Before(q) /\ journal.after = plan[q].after
      BY <2>1, <2>2, <2>3, PlanPairs DEF Verified, RecoveredState
    <2>5. CASE pc'[q] = "recovering"
      BY <1>3, <2>1, <2>2, <2>3, <2>4, <2>5 DEF retained
    <2>6. CASE pc'[q] = "finishing" /\ selected'[q] = selected[q]
      <3>1. Current = IF selected[q] = "after" THEN plan[q].after ELSE Before(q)
        BY <2>3, <2>4
      <3> QED BY <1>1, <2>1, <2>6, <3>1 DEF Knows, Current, Before
    <2> QED BY <2>2, <2>5, <2>6
  <1>10. CASE JudgeMissingJournal(q)
    <2>1. /\ pc'[q] = "finishing" /\ Current \in {Before(q), plan[q].after}
          /\ selected'[q] = (IF Current = plan[q].after THEN "after" ELSE "before")
          /\ UNCHANGED <<plan, disk>>
      BY <1>0, <1>1, <1>10 DEF JudgeMissingJournal, GiveUp, Leave, Goto
    <2>2. Current = IF selected'[q] = "after" THEN plan[q].after ELSE Before(q)
      BY <2>1
    <2> QED BY <1>1, <2>1, <2>2 DEF Knows, Current, Before, disk, ledgers
  <1>11. ~(EnterLane(q) \/ StageGeneration(q) \/ WriteManifest(q) \/ WriteWitness(q) \/ Refuse(q)
           \/ WriteJournal(q) \/ Finish(q))
    <2> SUFFICES ASSUME \E step \in {"idle", "prepared"} \cup Refusing \cup {"committing"} : pc'[q] = step
                 PROVE  FALSE
      BY <1>0 DEF EnterLane, StageGeneration, WriteManifest, WriteWitness, Refuse, WriteJournal,
         Finish, Leave, Goto, Refusing
    <2> QED BY <1>1 DEF Refusing
  <1>12. ~Edit
    BY <1>0, BoundsAssumption DEF Edit, TypeOK
  <1>13. pc'[q] \in Holding
    BY DEF Holding
  <1>14. \/ UNCHANGED <<disk, edits>> /\ pc'[q] = pc[q] /\ plan'[q] = plan[q]
            /\ selected'[q] = selected[q]
         \/ Commit(q) \/ StartRecovery(q) \/ Recover(q)
    BY <1>0, <1>12, <1>13, HolderSteps
  <1> QED BY <1>2, <1>5, <1>6, <1>8, <1>9, <1>10, <1>11, <1>14 DEF Commit, Recover

ReachedReporting == ReachedSound /\ (sends = 0 => Reporting)

LEMMA ReportingHolds == Spec => []ReachedReporting
  <1>1. Init => Reporting
    BY DEF Init, Reporting, Deciding
  <1>2. ReachedReporting /\ ReachedSound' /\ [Next]_vars => ReachedReporting'
    <2> SUFFICES ASSUME ReachedReporting, ReachedSound', [Next]_vars, sends' = 0
                 PROVE  Reporting'
      BY DEF ReachedReporting
    <2>1. [Laned]_vars /\ IInv /\ Reporting
      BY SendOrLaned DEF ReachedReporting, ReachedSound, Reached
    <2>2. \A q \in Procs : Knows(q)'
      BY <2>1, KnowsStep
    <2> QED BY <2>2 DEF Reporting, Knows
  <1> QED BY <1>1, <1>2, SoundHolds, PTL DEF Spec, ReachedReporting

LEMMA OutcomeStep ==
    ASSUME IInv, AlwaysSound, Reporting, [Laned]_vars, NEW p \in Procs,
           lane = p, lane' = None, pc'[p] = "prepared"
    PROVE  CASE outcome'[p] = "committed" ->
                journal' = None /\ Current' = plan[p].after
          [] outcome'[p] = "failed" /\ pc[p] # "locked" ->
                /\ Current' = Before(p) \/ edits > 0
                /\ journal' = None \/ journal'.before = Current'
          [] outcome'[p] = "recovery required" ->
                journal' # None \/ edits > 0
          [] OTHER -> TRUE
  <1> DEFINE Committed == journal' = None /\ Current' = plan[p].after
             Failed == /\ Current' = Before(p) \/ edits > 0
                       /\ journal' = None \/ journal'.before = Current'
             Required == journal' # None \/ edits > 0
  <1>0. /\ TypeOK /\ Holds(p) /\ Knows(p) /\ pc[p] \in Holding /\ p # None
        /\ pc \in [Procs -> Steps] /\ outcome \in [Procs -> Outcomes] /\ edits \in Nat
    BY Holder, NoneAssumption, BoundsAssumption DEF IInv, TypeOK, Reporting, Knows
  <1>1. ASSUME NEW result, Leave(p, result), UNCHANGED plan
        PROVE  plan[p] # None /\ outcome'[p] = result
    BY <1>0, <1>1 DEF Leave, Goto
  <1> SUFFICES /\ outcome'[p] = "committed" => Committed
               /\ outcome'[p] = "failed" /\ pc[p] # "locked" => Failed
               /\ outcome'[p] = "recovery required" => Required
    OBVIOUS
  <1>2. CASE Refuse(p)
    <2>1. /\ outcome'[p] = "failed" /\ pc[p] \in Refusing /\ UNCHANGED disk
      BY <1>1, <1>2 DEF Refuse, Refusing
    <2>2. journal' = None /\ (pc[p] # "locked" => Current' = Before(p))
      BY <1>0, <2>1, Holder DEF Holds, Refusing, disk, ledgers, Current
    <2> QED BY <2>1, <2>2
  <1>3. CASE WriteJournal(p)
    <2>1. /\ outcome'[p] = "failed" /\ pc[p] = "witnessed" /\ UNCHANGED <<registry, profile>>
          /\ journal' = Entry(p)
      BY <1>0, <1>1, <1>3 DEF WriteJournal, Entry, Fault
    <2>2. Current' = Before(p) /\ journal'.before = Before(p)
      BY <1>0, <2>1 DEF Holds, Current, Entry
    <2> QED BY <2>1, <2>2
  <1>4. CASE UnlinkJournal(p)
    <2>1. /\ outcome'[p] = "committed" /\ journal' = None /\ pc[p] = "closing"
          /\ UNCHANGED <<registry, profile>>
      BY <1>0, <1>1, <1>4 DEF UnlinkJournal
    <2>2. Current' = plan[p].after
      BY <1>0, <2>1, WritingSides DEF Writing, Current
    <2> QED BY <2>1, <2>2
  <1>5. ASSUME GiveUp(p), UNCHANGED plan, journal' # None \/ edits > 0
        PROVE  outcome'[p] = "recovery required" /\ Required
    BY <1>1, <1>5 DEF GiveUp
  <1>6. CASE SelectSide(p) \/ RestoreRegistry(p) \/ RestoreProfile(p) \/ VerifyRecovered(p)
    <2>1. GiveUp(p)
      BY <1>0, <1>6 DEF SelectSide, RestoreRegistry, RestoreProfile, VerifyRecovered, Goto
    <2>2. journal' # None /\ UNCHANGED plan
      BY <1>6, Holder DEF SelectSide, RestoreRegistry, RestoreProfile, VerifyRecovered, Deciding,
         disk, ledgers
    <2> QED BY <1>5, <2>1, <2>2
  <1>7. CASE UnlinkRecovered(p)
    <2>1. journal # None /\ UNCHANGED plan
      BY <1>7, Holder DEF UnlinkRecovered, Deciding
    <2>2. plan[p] # None
      BY <1>0, <1>1, <1>7, <2>1 DEF UnlinkRecovered, Recovered, Unconfirmed, GiveUp, Leave, Goto
    <2>3. GiveUp(p) /\ journal' # None
      BY <1>0, <1>7, <2>1, <2>2 DEF UnlinkRecovered, Recovered, Unconfirmed, Goto, Fault
    <2> QED BY <1>5, <2>1, <2>3
  <1>8. CASE JudgeMissingJournal(p)
    <2>1. /\ GiveUp(p) /\ journal = None /\ UNCHANGED <<plan, journal>> /\ pc[p] = "recovering"
          /\ ~(plan[p].gen \in witness /\ Current \in {Before(p), plan[p].after})
      BY <1>0, <1>8 DEF JudgeMissingJournal, Goto, disk, ledgers
    <2>2. plan[p] # None
      BY <2>1, Holder
    <2>3. edits # 0
      BY <1>0, <2>1, <2>2 DEF Knows
    <2>4. edits > 0
      BY <1>0, <2>3
    <2> QED BY <1>5, <2>1, <2>4
  <1>9. CASE Finish(p)
    <2> DEFINE after == selected[p] = "after"
               side == IF after THEN plan[p].after ELSE Before(p)
               sound == RecoveredState(side)
    <2>1. /\ outcome'[p] = (IF ~sound THEN "recovery required"
                            ELSE IF after THEN "committed" ELSE "failed")
          /\ pc[p] = "finishing" /\ UNCHANGED disk /\ plan[p] # None
      BY <1>1, <1>9 DEF Finish
    <2>2. journal = None /\ journal' = None
      BY <2>1, Holder DEF disk, ledgers
    <2>3. sound => Current = side
      BY DEF RecoveredState
    <2>4. Current' = Current
      BY <2>1 DEF Current, disk, ledgers
    <2>5. edits = 0 => sound
      <3> SUFFICES ASSUME edits = 0 PROVE sound
        OBVIOUS
      <3>1. Current = side
        BY <1>0, <2>1 DEF Knows
      <3>2. Sound(Current) /\ Current.registry = registry /\ Current.profile = profile
        BY <2>2 DEF AlwaysSound, Current
      <3>3. damaged = {}
        BY Holder DEF FilesKept
      <3> QED BY <3>1, <3>2, <3>3 DEF RecoveredState, Sound
    <2>6. edits = 0 \/ edits > 0
      BY <1>0
    <2>7. CASE ~sound
      BY <2>1, <2>5, <2>6, <2>7 DEF Required, Committed, Failed
    <2>8. CASE sound /\ after
      BY <2>1, <2>2, <2>3, <2>4, <2>8 DEF Required, Committed, Failed
    <2>9. CASE sound /\ ~after
      BY <2>1, <2>2, <2>3, <2>4, <2>9 DEF Required, Committed, Failed
    <2> QED BY <2>7, <2>8, <2>9
  <1>10. Refuse(p) \/ WriteJournal(p) \/ UnlinkJournal(p) \/ SelectSide(p) \/ RestoreRegistry(p)
         \/ RestoreProfile(p) \/ VerifyRecovered(p) \/ UnlinkRecovered(p)
         \/ JudgeMissingJournal(p) \/ Finish(p)
    <2>1. ASSUME NEW q \in Procs, Prepare(q) PROVE FALSE
      <3>1. lane' = lane
        BY <2>1 DEF Prepare, ObserveIndex, ObserveRegistry, ObserveProfile, LoadRegistry, Compose,
           RecheckPreparation, Discard
      <3> QED BY <1>0, <3>1
    <2>2. ASSUME NEW q \in Procs, EnterLane(q) \/ StartRecovery(q) PROVE FALSE
      BY <1>0, <2>2 DEF EnterLane, StartRecovery
    <2>3. ASSUME NEW q \in Procs, Commit(q) \/ Recover(q), ~EnterLane(q) PROVE q = p
      <3>1. pc[q] \in Holding
        BY <2>3 DEF Commit, Recover, StageGeneration, WriteManifest, WriteWitness, Refuse,
           WriteJournal, WriteRegistry, WriteProfile, UnlinkJournal, SelectSide, RestoreRegistry,
           RestoreProfile, VerifyRecovered, UnlinkRecovered, JudgeMissingJournal, Finish,
           Holding, Refusing, Writing, Deciding
      <3> QED BY <3>1, Holder
    <2>4. ASSUME NEW q \in Procs, Crash(q) PROVE FALSE
      <3>1. q = p
        BY <1>0, <2>4 DEF Crash
      <3>2. pc'[p] = "idle"
        BY <1>0, <2>4, <3>1 DEF Crash
      <3> QED BY <3>2
    <2>5. ~(ArchiveChange \/ Edit \/ UNCHANGED vars)
      BY <1>0, ArchiveFacts DEF Edit, vars
    <2>6. ~(StageGeneration(p) \/ WriteManifest(p) \/ WriteWitness(p) \/ WriteRegistry(p)
            \/ WriteProfile(p))
      BY <1>0 DEF StageGeneration, WriteManifest, WriteWitness, WriteRegistry, WriteProfile
    <2> QED BY <2>1, <2>2, <2>3, <2>4, <2>5, <2>6 DEF Laned, Commit, Recover
  <1> HIDE DEF Committed, Failed, Required
  <1> QED BY <1>2, <1>3, <1>4, <1>6, <1>7, <1>8, <1>9, <1>10

(* What a publication reports is what the files say at that moment: both new *)
(* ledgers, both old ones, or a journal to recover from, whatever failed.    *)
THEOREM OutcomesTruthful == Spec => OutcomeIsTruthful
  <1> DEFINE A == \A p \in Procs : lane = p /\ lane' = None /\ pc'[p] = "prepared" /\ sends = 0 =>
        CASE outcome'[p] = "committed" ->
                journal' = None /\ Current' = plan[p].after
          [] outcome'[p] = "failed" /\ pc[p] # "locked" ->
                /\ Current' = Before(p) \/ edits > 0
                /\ journal' = None \/ journal'.before = Current'
          [] outcome'[p] = "recovery required" ->
                journal' # None \/ edits > 0
          [] OTHER -> TRUE
  <1>1. ReachedReporting /\ [Next]_vars => A
    <2> SUFFICES ASSUME ReachedReporting, [Next]_vars, NEW p \in Procs,
                        lane = p, lane' = None, pc'[p] = "prepared", sends = 0
                 PROVE  CASE outcome'[p] = "committed" ->
                          journal' = None /\ Current' = plan[p].after
                    [] outcome'[p] = "failed" /\ pc[p] # "locked" ->
                          /\ Current' = Before(p) \/ edits > 0
                          /\ journal' = None \/ journal'.before = Current'
                    [] outcome'[p] = "recovery required" ->
                          journal' # None \/ edits > 0
                    [] OTHER -> TRUE
      OBVIOUS
    <2>1. [Laned]_vars
      BY SendOrLaned, NoneAssumption DEF ReachedReporting, ReachedSound, Reached
    <2>2. IInv /\ AlwaysSound /\ Reporting
      BY DEF ReachedReporting, ReachedSound, Reached
    <2> QED BY <2>1, <2>2, OutcomeStep
  <1> QED BY <1>1, ReportingHolds, PTL DEF Spec, OutcomeIsTruthful
-----------------------------------------------------------------------------
(* While no file is written without the lane, the ledgers are one atomic store. *)

Distinct == journal # None => journal.before.profile # journal.after.profile

Chosen ==
    \A p \in Procs : pc[p] \in Deciding =>
        (selected[p] = "after" <=> Current = journal.after)

Quiet == IInv /\ AlwaysSound /\ edits = 0

Refining == Quiet /\ Distinct /\ Chosen

LEMMA DistinctStep == Quiet /\ Distinct /\ [Laned]_vars => Distinct'
  <1> SUFFICES ASSUME Quiet, Distinct, [Laned]_vars PROVE Distinct'
    OBVIOUS
  <1>1. CASE journal' \in {journal, None}
    BY <1>1 DEF Distinct
  <1>2. ASSUME NEW p \in Procs, WriteJournal(p) PROVE Distinct'
    <2>1. pc[p] = "witnessed" /\ journal' = Entry(p)
      BY <1>2 DEF WriteJournal, Entry, Fault
    <2>2. /\ plan[p] # None /\ pc[p] \in Holding /\ Staged(p)
      BY <2>1, Holder DEF Quiet, Holds, Refusing
    <2>3. /\ Entry(p).before.profile = plan[p].profile /\ Entry(p).after = plan[p].after
          /\ plan[p].after.profile # None /\ plan[p].after.profile.gen = plan[p].gen
      BY <2>2, PlanPairs DEF Quiet
    <2> QED BY <2>1, <2>2, <2>3 DEF Distinct, Staged
  <1>3. ASSUME NEW p \in Procs,
               \/ StageGeneration(p) \/ WriteManifest(p) \/ WriteWitness(p) \/ WriteRegistry(p)
               \/ WriteProfile(p) \/ UnlinkJournal(p) \/ RestoreRegistry(p) \/ RestoreProfile(p)
               \/ UnlinkRecovered(p)
        PROVE  journal' \in {journal, None}
    BY <1>3 DEF StageGeneration, WriteManifest, WriteWitness, WriteRegistry, WriteProfile,
       UnlinkJournal, RestoreRegistry, RestoreProfile, UnlinkRecovered, Fault, ledgers
  <1>4. ArchiveChange \/ Edit \/ UNCHANGED <<disk, edits>> => journal' = journal
    BY ArchiveFacts DEF Quiet, IInv, Edit, disk, ledgers
  <1> QED BY <1>1, <1>2, <1>3, <1>4, DiskMoves

LEMMA JournalSides ==
    ASSUME Quiet, journal # None
    PROVE  /\ journal.before = [registry |-> journal.before.registry, profile |-> journal.before.profile]
           /\ journal.after = [registry |-> journal.after.registry, profile |-> journal.after.profile]
  <1>1. journal \in Journals
    BY DEF Quiet, IInv, TypeOK
  <1>2. journal.before \in Pairs /\ journal.after \in Pairs
    BY <1>1 DEF Journals
  <1> QED BY <1>2 DEF Pairs

\* Restoring either side never makes or unmakes the new ledgers.
LEMMA RestoreStep ==
    ASSUME Refining, NEW p \in Procs, RestoreRegistry(p) \/ RestoreProfile(p)
    PROVE  /\ pc[p] \in Deciding /\ journal # None /\ UNCHANGED <<journal, layers>>
           /\ Current' = journal.after <=> Current = journal.after
  <1>1. /\ pc[p] \in Deciding /\ UNCHANGED <<journal, layers>>
        /\ \/ UNCHANGED profile /\ registry' \in {registry, journal[selected[p]].registry}
           \/ UNCHANGED registry /\ profile' \in {profile, journal[selected[p]].profile}
    BY DEF RestoreRegistry, RestoreProfile, Fault, index, Deciding
  <1>2. /\ journal # None /\ selected[p] \in {"before", "after"} /\ Holds(p)
        /\ journal = [before |-> journal.before, after |-> journal.after]
    BY <1>1, Holder DEF Refining, Quiet, Journals
  <1>3. OwnLedgers
    BY <1>1, <1>2 DEF Holds
  <1>4. \A r, f : [registry |-> r, profile |-> f] = journal.after
                    <=> r = journal.after.registry /\ f = journal.after.profile
    BY <1>2, JournalSides DEF Refining
  <1>5. /\ Current = journal.after <=> /\ registry = journal.after.registry
                                       /\ profile = journal.after.profile
        /\ Current' = journal.after <=> /\ registry' = journal.after.registry
                                        /\ profile' = journal.after.profile
    BY <1>4 DEF Current
  <1>6. CASE selected[p] = "after"
    <2>1. Current = journal.after
      BY <1>1, <1>6 DEF Refining, Chosen
    <2> QED BY <1>1, <1>2, <1>5, <1>6, <2>1
  <1>7. CASE selected[p] = "before"
    <2>1. Current # journal.after
      BY <1>1, <1>7 DEF Refining, Chosen
    <2>2. journal.before.profile # journal.after.profile
      BY <1>2 DEF Refining, Distinct
    <2>3. /\ registry \in {journal.before.registry, journal.after.registry}
          /\ journal[selected[p]] = journal.before
      BY <1>2, <1>3, <1>7 DEF OwnLedgers
    <2>4. \/ profile' = profile /\ registry' \in {registry, journal.before.registry}
          \/ registry' = registry /\ profile' \in {profile, journal.before.profile}
      BY <1>1, <2>3
    <2>5. Current' # journal.after
      <3> SUFFICES ASSUME registry' = journal.after.registry, profile' = journal.after.profile
                   PROVE  registry = journal.after.registry /\ profile = journal.after.profile
        BY <1>5, <2>1
      <3> QED BY <2>2, <2>3, <2>4
    <2> QED BY <1>1, <1>2, <2>1, <2>5
  <1> QED BY <1>1, <1>2, <1>6, <1>7

LEMMA ChosenStep ==
    ASSUME Refining, [Laned]_vars, edits' = 0, NEW q \in Procs, pc'[q] \in Deciding
    PROVE  selected'[q] = "after" <=> Current' = journal'.after
  <1>0. /\ TypeOK /\ Control /\ pc \in [Procs -> Steps]
        /\ selected \in [Procs -> {"before", "after", None}]
        /\ Deciding = {"restoring", "reprofiling", "verifying", "unlinking"}
        /\ pc[q] \in Deciding => (selected[q] = "after" <=> Current = journal.after)
    BY DEF Refining, Quiet, IInv, TypeOK, Deciding, Chosen
  <1>1. CASE UNCHANGED <<disk, edits>> /\ pc'[q] = pc[q] /\ selected'[q] = selected[q]
    BY <1>0, <1>1 DEF Current, disk, ledgers
  <1>2. ~(Commit(q) \/ StartRecovery(q))
    BY <1>0 DEF Commit, StartRecovery, EnterLane, StageGeneration, WriteManifest, WriteWitness,
       Refuse, WriteJournal, WriteRegistry, WriteProfile, UnlinkJournal, Leave, Goto
  <1>3. ~Edit
    BY DEF Edit, Refining, Quiet
  <1>4. CASE SelectSide(q)
    BY <1>0, <1>4 DEF SelectSide, GiveUp, Leave, Goto, Current, disk, ledgers
  <1>5. CASE RestoreRegistry(q) \/ RestoreProfile(q)
    <2>1. selected'[q] = selected[q] /\ pc[q] \in Deciding
      BY <1>0, <1>5 DEF RestoreRegistry, RestoreProfile, GiveUp, Leave, Goto
    <2> QED BY <1>0, <1>5, <2>1, RestoreStep
  <1>6. CASE VerifyRecovered(q)
    BY <1>0, <1>6 DEF VerifyRecovered, GiveUp, Leave, Goto, Current, disk, ledgers
  <1>7. ~(UnlinkRecovered(q) \/ JudgeMissingJournal(q) \/ Finish(q))
    BY <1>0 DEF UnlinkRecovered, Recovered, Unconfirmed, JudgeMissingJournal, Finish, GiveUp,
       Leave, Goto
  <1>8. pc'[q] \in Holding
    BY DEF Holding
  <1> QED BY <1>0, <1>1, <1>2, <1>3, <1>4, <1>5, <1>6, <1>7, <1>8, HolderSteps DEF Recover

ReachedRefining == ReachedSound /\ (Undisturbed => Refining)

LEMMA RefiningStep ==
    ASSUME ReachedRefining, [Next]_vars, Undisturbed'
    PROVE  [Laned]_vars /\ edits' = 0 /\ Refining
  <1>1. [Laned]_vars /\ sends = 0 /\ edits' = 0
    BY SendOrLaned DEF ReachedRefining, ReachedSound, Reached, Undisturbed
  <1>2. edits = 0
    BY <1>1, EditsStep DEF ReachedRefining, ReachedSound, Reached
  <1> QED BY <1>1, <1>2 DEF ReachedRefining, Undisturbed

LEMMA RefiningHolds == Spec => []ReachedRefining
  <1>1. Init /\ ReachedSound => ReachedRefining
    BY DEF Init, Distinct, Chosen, Deciding, ReachedRefining, ReachedSound, Reached, Refining,
       Quiet
  <1>2. ReachedRefining /\ ReachedSound' /\ [Next]_vars => ReachedRefining'
    <2> SUFFICES ASSUME ReachedRefining, ReachedSound', [Next]_vars, Undisturbed'
                 PROVE  Refining'
      BY DEF ReachedRefining
    <2>1. [Laned]_vars /\ edits' = 0 /\ Refining
      BY RefiningStep
    <2>2. Quiet'
      BY DEF ReachedSound, Reached, Undisturbed, Quiet
    <2>3. Distinct'
      BY <2>1, DistinctStep DEF Refining
    <2>4. \A q \in Procs : pc'[q] \in Deciding => (selected'[q] = "after" <=> Current' = journal'.after)
      BY <2>1, ChosenStep
    <2> QED BY <2>2, <2>3, <2>4 DEF Refining, Chosen
  <1> QED BY <1>1, <1>2, SoundHolds, PTL DEF Spec

\* The one step of a publication that its readers see.
LEMMA PublishStep ==
    ASSUME Refining, NEW p \in Procs, WriteProfile(p), profile' # profile, FromObserved(p)
    PROVE  LS!Next
  <1> DEFINE after == plan[p].after
             old == [registry |-> Visible.registry, profile |-> Visible.profile, layers |-> layers]
             rows == LS!RowsOf(old.registry)
             items == after.profile.items
             new == [i \in Ids |-> IF items[i] # None
                                     THEN [binding |-> items[i], layer |-> None] ELSE rows[i]]
  <1>1. /\ pc[p] \in Writing /\ pc[p] = "profiling" /\ profile' = after.profile
        /\ UNCHANGED <<registry, layers, journal>>
    BY DEF WriteProfile, Fault, Writing, index
  <1>2. /\ journal # None /\ journal.before = Before(p) /\ journal.after = after
        /\ registry = after.registry /\ profile = plan[p].profile
        /\ Before(p).registry = plan[p].registry /\ Before(p).profile = plan[p].profile
    BY <1>1, Holder, WritingSides, PlanPairs DEF Refining, Quiet, Before
  <1>3. /\ plan[p] # None /\ plan[p] \in Plans /\ after \in Pairs /\ after # None
        /\ after.registry # None /\ after.profile # None /\ plan[p].gen \in Gens
        /\ after.profile.gen = plan[p].gen
        /\ after = [registry |-> after.registry, profile |-> after.profile]
    BY <1>1, Holder, PlanPairs DEF Refining, Quiet, IInv, Control, Planned, Observing
  <1>4. after.registry \in LS!Registries /\ after.profile \in LS!Profiles
    BY <1>3, PairFields
  <1>5. Visible = Before(p)
    BY <1>1, <1>2, <1>3 DEF Visible, Current
  <1>6. Visible' = after
    BY <1>1, <1>2, <1>3 DEF Visible, Current
  <1>7. rows = plan[p].rows
    BY <1>2, <1>5 DEF FromObserved
  <1>8. Fits(plan[p].rows, after)
    BY <1>3 DEF Refining, Quiet, IInv, Prepared, Composed
  <1>9. after.registry = new
    BY <1>4, <1>7, <1>8 DEF Fits, LS!Registries
  <1>10. after.profile = [gen |-> plan[p].gen, items |-> items] /\ items \in LS!Selections
    BY <1>3, <1>4 DEF LS!Profiles
  <1>11. VirtualLoading => \A i \in LS!Owned(layers) : items[i] = None
    <2>1. Reserved(after)
      BY <1>2 DEF Refining, Quiet, AlwaysSound, Sound
    <2> QED BY <1>3, <2>1 DEF Reserved, LS!Served, LS!Owned
  <1>12. LS!PublishOf(old, plan[p].gen, items)
            = [registry |-> new, profile |-> [gen |-> plan[p].gen, items |-> items], layers |-> layers]
    <2> HIDE DEF old
    <2>1. old = [registry |-> old.registry, profile |-> old.profile, layers |-> layers]
      BY DEF old
    <2> DEFINE prof == [gen |-> plan[p].gen, items |-> items]
    <2>2. LS!PublishOf(old, plan[p].gen, items) = [old EXCEPT !.registry = new, !.profile = prof]
      BY DEF LS!PublishOf
    <2> HIDE DEF new, prof
    <2>3. [old EXCEPT !.registry = new, !.profile = prof]
            = [registry |-> new, profile |-> prof, layers |-> layers]
      <3>1. old \in [registry : {old.registry}, profile : {old.profile}, layers : {layers}]
        BY <2>1
      <3>2. [old EXCEPT !.registry = new, !.profile = prof]
              \in [registry : {new}, profile : {prof}, layers : {layers}]
        BY <3>1
      <3>3. \A t \in [registry : {new}, profile : {prof}, layers : {layers}] :
              t = [registry |-> new, profile |-> prof, layers |-> layers]
        OBVIOUS
      <3> QED BY <3>2, <3>3, Zenon
    <2> QED BY <2>2, <2>3 DEF prof
  <1>13. [registry |-> Visible'.registry, profile |-> Visible'.profile, layers |-> layers']
            = LS!PublishOf(old, plan[p].gen, items)
    <2> HIDE DEF new, old
    <2> QED BY <1>1, <1>6, <1>9, <1>10, <1>12
  <1>14. LS!Publish(plan[p].gen, items)
    BY <1>11, <1>13 DEF LS!Publish
  <1> QED BY <1>3, <1>10, <1>14 DEF LS!Next

LEMMA ArchiveStep ==
    ASSUME TypeOK, ArchiveChange
    PROVE  LS!Next
  <1>1. lane = None /\ journal = None /\ UNCHANGED <<journal, profile>>
    BY ArchiveFacts DEF Loadable, ProfileLoads
  <1>2. /\ Visible.registry = registry /\ Visible.profile = profile
        /\ Visible'.registry = registry' /\ Visible'.profile = profile'
    BY <1>1 DEF Visible, Current
  <1>3. recorded < MaxLayers => recorded + 1 \in Layers
    BY BoundsAssumption DEF TypeOK, Layers
  <1> DEFINE store == [registry |-> Visible.registry, profile |-> Visible.profile, layers |-> layers]
  <1>a. Now = store /\ store.profile = profile /\ store.layers = layers /\ store.registry = registry
    BY <1>2 DEF Now
  <1>b. store' = [registry |-> registry', profile |-> profile, layers |-> layers']
    BY <1>1, <1>2
  <1>4. /\ \A i, b, l : LS!ArchiveInstallOf(Now, i, b, l)
              = [registry |-> [LS!RowsOf(registry) EXCEPT ![i] = [binding |-> b, layer |-> l]],
                 profile |-> profile, layers |-> [layers EXCEPT ![i] = l]]
        /\ \A i : LS!ArchiveRemoveOf(Now, i)
              = [registry |-> registry, profile |-> profile, layers |-> [layers EXCEPT ![i] = None]]
        /\ \A i : LS!ReserveOf(Now, i, None)
              = [registry |-> [LS!RowsOf(registry) EXCEPT ![i] = None], profile |-> profile,
                 layers |-> layers]
    <2>1. Now = [registry |-> registry, profile |-> profile, layers |-> layers]
      BY DEF Now
    <2>2. ASSUME NEW i, NEW row
          PROVE  LS!ReserveOf(Now, i, row)
                   = [registry |-> [LS!RowsOf(registry) EXCEPT ![i] = row], profile |-> profile,
                      layers |-> layers]
      <3> DEFINE x == [LS!RowsOf(registry) EXCEPT ![i] = row]
      <3>1. LS!ReserveOf(Now, i, row) = [Now EXCEPT !.registry = x]
        BY DEF LS!ReserveOf, Now
      <3> HIDE DEF x
      <3>2. [Now EXCEPT !.registry = x] = [registry |-> x, profile |-> profile, layers |-> layers]
        BY <2>1
      <3> QED BY <3>1, <3>2 DEF x
    <2>3. ASSUME NEW i, NEW b, NEW l
          PROVE  LS!ArchiveInstallOf(Now, i, b, l)
                   = [registry |-> [LS!RowsOf(registry) EXCEPT ![i] = [binding |-> b, layer |-> l]],
                      profile |-> profile, layers |-> [layers EXCEPT ![i] = l]]
      <3> DEFINE y == LS!ReserveOf(Now, i, [binding |-> b, layer |-> l])
                 x == [LS!RowsOf(registry) EXCEPT ![i] = [binding |-> b, layer |-> l]]
      <3>1. y = [registry |-> x, profile |-> profile, layers |-> layers]
        BY <2>2
      <3>2. LS!ArchiveInstallOf(Now, i, b, l) = [y EXCEPT !.layers[i] = l]
        BY DEF LS!ArchiveInstallOf
      <3> HIDE DEF y, x
      <3>3. [y EXCEPT !.layers[i] = l]
              = [registry |-> x, profile |-> profile, layers |-> [layers EXCEPT ![i] = l]]
        BY <3>1
      <3> QED BY <3>2, <3>3 DEF x
    <2>4. ASSUME NEW i
          PROVE  LS!ArchiveRemoveOf(Now, i)
                   = [registry |-> registry, profile |-> profile,
                      layers |-> [layers EXCEPT ![i] = None]]
      <3>1. LS!ArchiveRemoveOf(Now, i) = [Now EXCEPT !.layers[i] = None]
        BY DEF LS!ArchiveRemoveOf
      <3> QED BY <2>1, <3>1
    <2> QED BY <2>2, <2>3, <2>4
  <1> HIDE DEF store
  <1>5. ASSUME NEW i \in Ids, NEW b \in Bindings, ArchiveInstall(i, b) PROVE LS!Next
    <2>1. store' = LS!ArchiveInstallOf(store, i, b, recorded + 1)
      BY <1>4, <1>5, <1>a, <1>b DEF ArchiveInstall, ChangeStore
    <2>2. i \notin LS!Served(store.profile) /\ recorded + 1 \in Layers
      BY <1>3, <1>5, <1>a DEF ArchiveInstall
    <2>3. LS!ArchiveInstall(i, b, recorded + 1)
      BY <2>1, <2>2 DEF LS!ArchiveInstall, store
    <2> QED BY <2>2, <2>3 DEF LS!Next
  <1>6. ASSUME NEW i \in Ids, ArchiveRemove(i) PROVE LS!Next
    <2>1. store' = LS!ArchiveRemoveOf(store, i) /\ i \in LS!Owned(store.layers)
      BY <1>4, <1>6, <1>a, <1>b DEF ArchiveRemove, ChangeStore
    <2>2. LS!ArchiveRemove(i)
      BY <2>1 DEF LS!ArchiveRemove, store
    <2> QED BY <2>2 DEF LS!Next
  <1>7. ASSUME NEW i \in Ids, Forget(i) PROVE LS!Next
    <2>1. /\ store' = LS!ReserveOf(store, i, None) /\ LS!RowsOf(store.registry)[i] # None
          /\ i \notin LS!Served(store.profile) \cup LS!Owned(store.layers)
      BY <1>4, <1>7, <1>a, <1>b DEF Forget, ChangeStore
    <2>2. LS!Forget(i)
      BY <2>1 DEF LS!Forget, store
    <2> QED BY <2>2 DEF LS!Next
  <1> QED BY <1>5, <1>6, <1>7 DEF ArchiveChange

\* No other step is seen by the readers of the ledgers.
LEMMA HiddenSteps ==
    ASSUME Refining, [Laned]_vars, edits' = 0, ~ArchiveChange,
           \A p \in Procs : WriteProfile(p) => profile' = profile
    PROVE  Visible' = Visible /\ layers' = layers
  <1>1. CASE UNCHANGED <<ledgers>>
    BY <1>1 DEF Visible, Current, ledgers, index
  <1>2. ASSUME NEW p \in Procs, StageGeneration(p) \/ WriteManifest(p) \/ WriteWitness(p)
        PROVE  UNCHANGED <<ledgers>>
    BY <1>2 DEF StageGeneration, WriteManifest, WriteWitness
  <1>3. ASSUME NEW p \in Procs, WriteJournal(p) PROVE Visible' = Visible /\ layers' = layers
    <2>1. /\ pc[p] \in Refusing /\ pc[p] = "witnessed" /\ journal' = Entry(p)
          /\ UNCHANGED <<registry, profile, layers>>
      BY <1>3 DEF WriteJournal, Entry, Fault, Refusing, index
    <2>2. journal = None /\ Current = Before(p) /\ Entry(p).before = Before(p)
      BY <2>1, Holder DEF Refining, Quiet, Holds, Entry
    <2> QED BY <2>1, <2>2 DEF Visible, Current
  <1>4. ASSUME NEW p \in Procs, WriteRegistry(p) PROVE Visible' = Visible /\ layers' = layers
    <2>1. /\ pc[p] \in Writing /\ pc[p] = "committing" /\ UNCHANGED <<journal, profile, layers>>
      BY <1>4 DEF WriteRegistry, Writing, index
    <2>2. /\ journal # None /\ Current = journal.before
          /\ journal.before.profile # journal.after.profile
      BY <2>1, Holder, WritingSides DEF Refining, Quiet, Distinct
    <2>3. profile # journal.after.profile
      BY <2>2 DEF Current
    <2>4. Current # journal.after /\ Current' # journal.after
      BY <2>1, <2>3 DEF Current
    <2> QED BY <2>1, <2>2, <2>4 DEF Visible
  <1>5. ASSUME NEW p \in Procs, WriteProfile(p) PROVE UNCHANGED <<ledgers>>
    BY <1>5 DEF WriteProfile, ledgers
  <1>6. ASSUME NEW p \in Procs, RestoreRegistry(p) \/ RestoreProfile(p)
        PROVE  Visible' = Visible /\ layers' = layers
    <2>1. CASE Current = journal.after
      BY <1>6, <2>1, RestoreStep DEF Visible
    <2>2. CASE Current # journal.after
      BY <1>6, <2>2, RestoreStep DEF Visible
    <2> QED BY <2>1, <2>2
  <1>7. ASSUME NEW p \in Procs, UnlinkJournal(p) PROVE Visible' = Visible /\ layers' = layers
    <2>1. /\ pc[p] \in Writing /\ pc[p] = "closing" /\ journal' \in {journal, None}
          /\ UNCHANGED <<registry, profile, layers>>
      BY <1>7 DEF UnlinkJournal, Fault, Writing, index
    <2>2. Current = journal.after
      BY <2>1, WritingSides DEF Refining, Quiet
    <2> QED BY <2>1, <2>2 DEF Visible, Current
  <1>8. ASSUME NEW p \in Procs, UnlinkRecovered(p) PROVE Visible' = Visible /\ layers' = layers
    <2>1. /\ pc[p] \in Deciding /\ journal' \in {journal, None}
          /\ UNCHANGED <<registry, profile, layers>>
          /\ journal' = None => Verified(p)
      BY <1>8, Holder DEF UnlinkRecovered, Fault, Deciding, index, Refining, Quiet
    <2>2. journal \in Journals /\ selected[p] \in {"before", "after"} /\ journal # None
      BY <2>1, Holder DEF Refining, Quiet
    <2>3. Verified(p) => Current \in {journal.before, journal.after}
      BY <2>2 DEF Verified, RecoveredState, Journals
    <2> QED BY <2>1, <2>2, <2>3 DEF Visible, Current
  <1>9. ~Edit
    BY DEF Edit, Refining, Quiet
  <1> QED BY <1>1, <1>2, <1>3, <1>4, <1>5, <1>6, <1>7, <1>8, <1>9, DiskMoves DEF disk

(* The ledgers of any number of processes, identities, failures and deaths   *)
(* behave as LedgerStore: each publication and each archive change becomes   *)
(* visible in one step, computed from what was visible before, as long as    *)
(* no file was written without the lane and profiles were prepared from what *)
(* they saw.                                                                 *)
THEOREM StoreImplemented == Spec => ImplementsStore
  <1> DEFINE A == Undisturbed' /\ (\A p \in Procs : pc[p] = "profiling" => FromObserved(p)) =>
                    (LS!Next \/ UNCHANGED <<Visible, layers>>)
  <1>1. Init => LS!Init
    BY DEF Init, LS!Init, LS!EmptyStore, Visible, Current
  <1>2. ReachedRefining /\ [Next]_vars => A
    <2> SUFFICES ASSUME ReachedRefining, [Next]_vars, Undisturbed',
                        \A p \in Procs : pc[p] = "profiling" => FromObserved(p)
                 PROVE  LS!Next \/ UNCHANGED <<Visible, layers>>
      OBVIOUS
    <2>1. [Laned]_vars /\ edits' = 0 /\ Refining
      BY RefiningStep
    <2>2. CASE ArchiveChange
      BY <2>1, <2>2, ArchiveStep DEF Refining, Quiet, IInv
    <2>3. ASSUME NEW p \in Procs, WriteProfile(p), profile' # profile PROVE LS!Next
      BY <2>1, <2>3, PublishStep DEF WriteProfile
    <2> QED BY <2>1, <2>2, <2>3, HiddenSteps
  <1> QED BY <1>1, <1>2, RefiningHolds, PTL DEF Spec, ImplementsStore
=============================================================================
