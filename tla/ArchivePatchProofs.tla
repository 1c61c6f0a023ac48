-------------------------- MODULE ArchivePatchProofs --------------------------
(***************************************************************************)
(* What patches and restores of the archives keep, for any directories,    *)
(* PAZ files and requests, and any number of patches, failures and deaths. *)
(*                                                                         *)
(* Covered: the backup of an operation under way holds all that it has     *)
(* touched; PutBack: what a restore has done so far.  Editing: what a      *)
(* patch under way has replaced.  Chaining: the checksums it holds.  These *)
(* need nothing of the user.  As long as patches are undone in reverse     *)
(* order (inOrder), the backups that are not restored yet can be relied    *)
(* upon as well (Ordered).  Kept: PAZ files have only grown since each of  *)
(* them was made, and every file that has changed since is in it or in a   *)
(* later one.  Restores: the one an operation falls back on is the latest. *)
(* Sound, BackupsSound: the entries of all indexes, on disk and in         *)
(* backups, are readable.                                                  *)
(***************************************************************************)
EXTENDS ArchivePatch, TLAPS

\* The entry of p, in this index, reads as its payload from these files.
Placed(index, files, p) ==
    /\ index.refs[p].offset \in DOMAIN files[p]
    /\ files[p][index.refs[p].offset] = index.refs[p].payload

Sound(files) == \A p \in Pazes : Placed(files[GroupOf[p]], files, p)

\* PAZ files have only grown.
Extends(old, new) ==
    \A p \in Pazes :
        /\ Len(old[p]) <= Len(new[p])
        /\ \A i \in 1 .. Len(old[p]) : new[p][i] = old[p][i]

Live == DOMAIN backups \ undone

Before(b) == backups[b].before

\* Every file in which these contents differ is in a backup from b on.
Covers(old, new, b, others) ==
    \A f \in Files : new[f] # old[f] =>
        \E c \in others : b <= c /\ f \in backups[c].files

BackupsSound == \A b \in DOMAIN backups : Sound(Before(b))

Kept ==
    \A b \in Live :
        /\ Extends(Before(b), disk)
        /\ Covers(Before(b), disk, b, Live)
        /\ \A d \in Live : b < d =>
             /\ Extends(Before(b), Before(d))
             /\ Covers(Before(b), Before(d), b, {c \in Live : c < d})

Covered ==
    /\ pc # "idle" \/ verdict \in {"crashed", "partial"} =>
         \A f \in Files : disk[f] # base[f] =>
            /\ source \in DOMAIN backups
            /\ f \in backups[source].files
    /\ pc = "backup" => disk = base /\ patches \notin DOMAIN backups
    /\ pc \notin {"idle", "backup", "restoring"} =>
         source = patches /\ Before(source) = base /\ backups[source].files = Touched(request)

PutBack ==
    /\ pc \in Restoring => \A f \in backups[source].files \ left : disk[f] = Before(source)[f]
    /\ pc = "idle" /\ verdict = "undone" => disk = base
    /\ pc = "idle" /\ verdict = "restored" => \A f \in Files :
         disk[f] = IF f \in backups[source].files THEN Before(source)[f] ELSE base[f]

Restores ==
    /\ pc \notin {"idle", "backup"} => source \in Live /\ \A c \in Live : c <= source
    /\ pc = "idle" /\ verdict = "restored" => disk = Before(source)

\* What an index says of an entry the patch has, or has not, replaced.
Replaced(index, p) == index.refs[p].payload = patches
Unchanged(index, p) == index.refs[p] = base[GroupOf[p]].refs[p]

Editing ==
    /\ pc = "append" =>
         \A p \in PazesOf(edit.group) :
            /\ p \in request.pazes \ edit.rest => Placed(edit.index, disk, p) /\ Replaced(edit.index, p)
            /\ p \notin request.pazes => Unchanged(edit.index, p)
            /\ edit.index.sums[p] = base[edit.group].sums[p]
    /\ pc \in Patching =>
         /\ \A p \in Pazes :
              /\ p \in request.pazes /\ GroupOf[p] \notin edit.todo =>
                   Placed(disk[GroupOf[p]], disk, p) /\ Replaced(disk[GroupOf[p]], p)
              /\ p \notin request.pazes => Unchanged(disk[GroupOf[p]], p)
         /\ \A g \in edit.todo : disk[g] = base[g]
         /\ pc \in {"patch", "append", "chain", "meta"} => disk["pathc"] = base["pathc"]
    /\ pc \in {"chain", "meta", "refresh"} => edit.todo = {}
    /\ pc = "refresh" =>
         disk["pathc"] = IF request.meta THEN patches ELSE base["pathc"]

\* The checksums a patch under way holds or has written, below linked files.
Chaining ==
    Linked(base) =>
        /\ pc \in {"patch", "append", "chain"} =>
             \A i \in DOMAIN MountOrder : edit.raw[i] = disk[MountOrder[i]]
        /\ pc \in {"meta", "refresh"} =>
             \A i \in DOMAIN MountOrder : disk["papgt"][i] = disk[MountOrder[i]]
        /\ pc \in Patching => \A p \in Pazes :
             GroupOf[p] \notin edit.todo => disk[GroupOf[p]].sums[p] = disk[p]

Done ==
    pc = "idle" /\ verdict = "done" =>
        /\ \A p \in Pazes : Reads(disk, p) = IF p \in request.pazes THEN patches ELSE Reads(base, p)
        /\ disk["pathc"] = IF request.meta THEN patches ELSE base["pathc"]

DoneLinked == pc = "idle" /\ verdict = "done" /\ Linked(base) => Linked(disk)

Ordered == inOrder => BackupsSound /\ Sound(disk) /\ Kept /\ Restores

Inv == TypeOK /\ Covered /\ PutBack /\ Editing /\ Done /\ Ordered

-----------------------------------------------------------------------------
(* The files, of which the assumptions speak. *)

LEMMA Places ==
    /\ Pazes \subseteq Files /\ Dirs \subseteq Files /\ "papgt" \in Files /\ "pathc" \in Files
    /\ \A p \in Pazes : p \notin Dirs /\ p # "papgt" /\ p # "pathc"
    /\ \A g \in Dirs : g # "papgt" /\ g # "pathc"
    /\ \A p \in Pazes : GroupOf[p] \in Dirs /\ GroupOf[p] \in Groups /\ p \in PazesOf(GroupOf[p])
    /\ Groups \subseteq Dirs
    /\ \A g : PazesOf(g) \subseteq Pazes /\ \A p \in PazesOf(g) : GroupOf[p] = g
BY LayoutAssumption DEF Files, Groups, PazesOf

\* Of two files, one precedes the other at most.
LEMMA Antisymmetric ==
    ASSUME NEW f, NEW g, Precedes(f, g), Precedes(g, f)
    PROVE  FALSE
BY LayoutAssumption DEF Precedes, IsInjective

LEMMA TouchedFiles ==
    ASSUME NEW asked \in Requests
    PROVE  /\ asked.pazes \subseteq Pazes /\ asked.meta \in BOOLEAN
           /\ Touched(asked) \subseteq Files
           /\ asked.pazes \subseteq Touched(asked) /\ "papgt" \in Touched(asked)
           /\ \A p \in asked.pazes : GroupOf[p] \in Touched(asked)
           /\ \A p \in Pazes : p \in Touched(asked) => p \in asked.pazes
           /\ asked.meta => "pathc" \in Touched(asked)
  <1>1. asked.pazes \subseteq Pazes /\ asked.meta \in BOOLEAN
    BY RequestsAssumption
  <1>2. \A p \in asked.pazes : GroupOf[p] \in Dirs
    BY <1>1, Places
  <1> QED BY <1>1, <1>2, Places DEF Touched

-----------------------------------------------------------------------------
(* What the updates of records and functions leave. *)

\* Contents that f may take.
Suits(f, contents) ==
    /\ f \in Files
    /\ f \in Pazes => contents \in Seq(Payloads)
    /\ f \in Dirs => contents \in Indexes(f)
    /\ f = "papgt" => IsMountList(contents)
    /\ f = "pathc" => contents \in 0 .. MaxPatches

LEMMA FileReplaced ==
    ASSUME NEW files, WellFormed(files), NEW f, NEW contents, Suits(f, contents),
           NEW new, new = [files EXCEPT ![f] = contents]
    PROVE  /\ WellFormed(new)
           /\ new[f] = contents
           /\ \A h \in Files : h # f => new[h] = files[h]
  <1>1. \A h \in Files : new[h] = IF h = f THEN contents ELSE files[h]
    BY DEF WellFormed, Suits
  <1>2. new = [h \in Files |-> new[h]]
    BY DEF WellFormed
  <1> QED BY <1>1, <1>2, Places DEF WellFormed, Suits

LEMMA WellFormedSuits ==
    ASSUME NEW files, WellFormed(files), NEW f \in Files
    PROVE  Suits(f, files[f])
BY DEF WellFormed, Suits

\* The index that takes the checksums.
LEMMA IndexSummed ==
    ASSUME edit.index \in Indexes(edit.group), WellFormed(disk)
    PROVE  /\ NewIndex \in Indexes(edit.group)
           /\ NewIndex.refs = edit.index.refs
           /\ \A p \in PazesOf(edit.group) :
                NewIndex.sums[p] = IF p \in request.pazes THEN disk[p] ELSE edit.index.sums[p]
  <1> DEFINE g == edit.group
             index == edit.index
             sums == [p \in PazesOf(g) |-> IF p \in request.pazes THEN disk[p] ELSE index.sums[p]]
  <1>1. sums \in [PazesOf(g) -> Seq(Payloads)]
    BY Places DEF Indexes, WellFormed
  <1>2. NewIndex = [index EXCEPT !.sums = sums]
    BY DEF NewIndex, Indexes
  <1> HIDE DEF index, sums
  <1>3. NewIndex \in Indexes(g) /\ NewIndex.refs = index.refs /\ NewIndex.sums = sums
    BY <1>1, <1>2 DEF Indexes, index
  <1> QED BY <1>3 DEF sums, index
-----------------------------------------------------------------------------
(* Type correctness. *)

LEMMA Shipped ==
    /\ \A g : Index(g) \in Indexes(g)
    /\ \A f \in Dirs : Index(f) \in Indexes(f)
    /\ 0 \in 0 .. MaxPatches
BY BoundsAssumption DEF Index, Indexes, Payloads

LEMMA InitTyped == Init => TypeOK
  <1> SUFFICES ASSUME Init PROVE TypeOK
    OBVIOUS
  <1>1. 0 \in Payloads /\ <<0>> \in Seq(Payloads)
    BY Shipped DEF Payloads
  <1>2. \A f \in Files : disk[f] = IF f \in Pazes THEN <<0>>
                                   ELSE IF f \in Dirs THEN Index(f)
                                   ELSE IF f = "papgt" THEN [i \in DOMAIN MountOrder |-> Index(MountOrder[i])]
                                   ELSE 0
    BY DEF Init
  <1>3. disk["papgt"] = [i \in DOMAIN MountOrder |-> Index(MountOrder[i])] /\ disk["pathc"] = 0
    BY <1>2, Places
  <1>4. WellFormed(disk)
    <2>1. disk = [f \in Files |-> disk[f]]
      BY DEF Init
    <2>2. IsMountList(disk["papgt"])
      BY <1>3 DEF IsMountList
    <2>3. \A p \in Pazes : disk[p] \in Seq(Payloads)
      BY <1>1, <1>2, Places
    <2>4. ASSUME NEW g \in Dirs PROVE disk[g] \in Indexes(g)
      <3>1. disk[g] = Index(g)
        BY <1>2, Places
      <3> QED BY <3>1, Shipped
    <2> QED BY <1>3, <2>1, <2>2, <2>3, <2>4, Shipped DEF WellFormed
  <1>5. DOMAIN backups = {}
    BY DEF Init
  <1>6. WellFormed(base)
    BY <1>4 DEF Init
  <1>7. 0 \in 0 .. MaxPatches /\ 0 \in 0 .. MaxFailures /\ 0 \in 0 .. MaxCrashes
    BY BoundsAssumption
  <1> QED BY <1>4, <1>5, <1>6, <1>7 DEF Init, TypeOK, Patching, Restoring

\* The file f is written, or is not.
LEMMA Written ==
    ASSUME WellFormed(disk), NEW f, NEW contents, Suits(f, contents),
           disk' \in {disk, [disk EXCEPT ![f] = contents]}
    PROVE  WellFormed(disk)'
BY FileReplaced

\* What every line of a patch under way relies on.
LEMMA PatchFacts ==
    ASSUME TypeOK, pc \in Patching
    PROVE  /\ request \in Requests /\ request.pazes \subseteq Pazes
           /\ patches \in Payloads /\ patches \in 0 .. MaxPatches
           /\ source \in DOMAIN backups
           /\ IsEdit(edit) /\ IsMountList(edit.raw)
           /\ edit.todo \subseteq Groups
BY RequestsAssumption DEF TypeOK, Patching, Payloads, IsEdit, Edits

LEMMA AppendFacts ==
    ASSUME TypeOK, pc = "append"
    PROVE  /\ edit.group \in Groups /\ edit.group \in Dirs
           /\ edit.index \in Indexes(edit.group)
           /\ edit.rest \subseteq PazesOf(edit.group) /\ edit.rest \subseteq request.pazes
           /\ edit.rest \subseteq Pazes
           /\ \A p \in edit.rest : GroupOf[p] = edit.group
  <1>1. edit.todo \subseteq Groups
    BY PatchFacts DEF Patching
  <1> QED BY <1>1, Places DEF TypeOK

LEMMA Appended ==
    ASSUME TypeOK, NEW p \in Pazes, NEW x \in Payloads
    PROVE  Suits(p, Append(disk[p], x))
BY Places DEF TypeOK, WellFormed, Suits

LEMMA RestoreSuits ==
    ASSUME TypeOK, pc \in Restoring, NEW f \in left
    PROVE  Suits(f, backups[source].before[f])
  <1>1. source \in DOMAIN backups /\ f \in backups[source].files
    BY DEF TypeOK, Restoring
  <1>2. f \in Files
    BY <1>1, TouchedFiles DEF TypeOK
  <1> QED BY <1>1, <1>2, WellFormedSuits DEF TypeOK

\* A backup is made, of files not yet in one of this number.
LEMMA BackedUp ==
    ASSUME NEW new, new = [b \in DOMAIN backups \cup {patches} |->
                             IF b = patches THEN [files |-> Touched(request), before |-> disk]
                                            ELSE backups[b]]
    PROVE  /\ DOMAIN new = DOMAIN backups \cup {patches}
           /\ new[patches].files = Touched(request) /\ new[patches].before = disk
           /\ \A b \in DOMAIN backups : b # patches => new[b] = backups[b]
OBVIOUS

LEMMA FailsTyped ==
    ASSUME TypeOK, Fails
    PROVE  failures' \in 0 .. MaxFailures /\ patches' = patches /\ crashes' = crashes
BY BoundsAssumption DEF TypeOK, Fails

-----------------------------------------------------------------------------
(* What the lines of a patch under way do. *)

LEMMA StartGroupDoes ==
    ASSUME TypeOK, NEW g \in Groups, StartGroup(g)
    PROVE  /\ IsEdit(edit') /\ edit'.raw = edit.raw /\ edit'.todo = edit.todo
           /\ edit'.group = g /\ edit'.index = disk[g]
           /\ edit'.rest = request.pazes \cap PazesOf(g)
           /\ disk[g] \in Indexes(g)
  <1> USE DEF Edits
  <1> DEFINE index == disk[g]
             rest == request.pazes \cap PazesOf(g)
             R0 == {edit.raw}
             I0 == {edit.index, index}
  <1>1. pc \in Patching
    BY DEF StartGroup, Patching
  <1>2. rest \in SUBSET Pazes /\ index \in Indexes(g)
    BY <1>1, PatchFacts, Places DEF TypeOK, WellFormed
  <1>3. edit' = [edit EXCEPT !.group = g, !.index = index, !.rest = rest]
    BY DEF StartGroup
  <1>4. edit \in Edits(R0, I0) /\ index \in I0
    BY <1>1, PatchFacts DEF IsEdit
  <1> HIDE DEF index, rest, R0, I0
  <1>5. /\ edit'.raw = edit.raw /\ edit'.todo = edit.todo
        /\ edit'.group = g /\ edit'.index = index /\ edit'.rest = rest
    BY <1>3, <1>4
  <1>6. edit' \in Edits(R0, I0)
    BY <1>2, <1>3, <1>4
  <1>7. IsEdit(edit')
    BY <1>6 DEF IsEdit
  <1> QED BY <1>2, <1>5, <1>7 DEF index, rest

\* A line of a patch took effect, or it failed.
Took(f, contents, line) ==
    /\ pc' = line
    /\ disk' = [disk EXCEPT ![f] = contents]
    /\ UNCHANGED <<restoring, verdict, counters>>

Failed(f, contents) ==
    /\ disk' \in {disk, [disk EXCEPT ![f] = contents]}
    /\ Fails
    /\ RestoreWhole("inner")

LEMMA AppendDoes ==
    ASSUME TypeOK, NEW p \in Pazes, AppendPayload(p)
    PROVE  /\ pc = "append" /\ p \in edit.rest
           /\ Suits(p, Append(disk[p], patches))
           /\ \/ Failed(p, Append(disk[p], patches))
              \/ /\ Took(p, Append(disk[p], patches), "append")
                 /\ IsEdit(edit') /\ edit'.raw = edit.raw /\ edit'.todo = edit.todo
                 /\ edit'.group = edit.group /\ edit'.rest = edit.rest \ {p}
                 /\ edit'.index \in Indexes(edit.group)
                 /\ edit'.index.sums = edit.index.sums
                 /\ edit'.index.refs[p] = [offset |-> Len(disk[p]) + 1, payload |-> patches]
                 /\ \A q \in PazesOf(edit.group) : q # p => edit'.index.refs[q] = edit.index.refs[q]
  <1> USE DEF Edits
  <1> DEFINE placed == [offset |-> Len(disk[p]) + 1, payload |-> patches]
             held == [edit EXCEPT !.index.refs[p] = placed, !.rest = @ \ {p}]
             g == edit.group
  <1>1. pc = "append" /\ p \in edit.rest /\ Write(p, Append(disk[p], patches), held, "append")
    BY DEF AppendPayload
  <1>2. patches \in Payloads /\ IsEdit(edit)
    BY <1>1, PatchFacts DEF Patching
  <1>3. disk[p] \in Seq(Payloads)
    BY DEF TypeOK, WellFormed
  <1>4. Len(disk[p]) \in Nat
    BY <1>3
  <1>5. placed \in [offset : Nat, payload : Payloads]
    BY <1>2, <1>4
  <1>6. edit.index \in Indexes(g) /\ p \in PazesOf(g)
    BY <1>1, AppendFacts
  <1> DEFINE R0 == {edit.raw}
             I0 == Indexes(g)
             refs == [edit.index.refs EXCEPT ![p] = placed]
             index == [edit.index EXCEPT !.refs = refs]
  <1> HIDE DEF placed, g, held
  <1>7. edit \in Edits(R0, I0)
    BY <1>2, <1>6 DEF IsEdit
  <1>8. edit.index.refs \in [PazesOf(g) -> [offset : Nat, payload : Payloads]]
    BY <1>6 DEF Indexes
  <1>9. refs \in [PazesOf(g) -> [offset : Nat, payload : Payloads]] /\ refs[p] = placed
        /\ \A q \in PazesOf(g) : q # p => refs[q] = edit.index.refs[q]
    BY <1>5, <1>6, <1>8
  <1> HIDE DEF refs
  <1>10. index \in Indexes(g) /\ index.refs = refs /\ index.sums = edit.index.sums
    BY <1>6, <1>9 DEF Indexes
  <1>11. held = [edit EXCEPT !.index = index, !.rest = edit.rest \ {p}]
    BY <1>7 DEF held, refs
  <1> HIDE DEF R0, I0, index
  <1>12. held.raw = edit.raw /\ held.todo = edit.todo /\ held.group = edit.group
        /\ held.index = index /\ held.rest = edit.rest \ {p}
    BY <1>7, <1>11
  <1>13. index \in I0
    BY <1>10 DEF I0
  <1>14. held \in Edits(R0, I0)
    BY <1>7, <1>11, <1>13
  <1>15. IsEdit(held)
    BY <1>14 DEF IsEdit
  <1>16. Failed(p, Append(disk[p], patches))
        \/ (Took(p, Append(disk[p], patches), "append") /\ edit' = held)
    BY <1>1 DEF Write, Failed, Took
  <1>17. Suits(p, Append(disk[p], patches))
    BY <1>2, Appended
  <1> QED BY <1>1, <1>15, <1>16, <1>17, <1>9, <1>10, <1>12 DEF placed, g

LEMMA WriteIndexDoes ==
    ASSUME TypeOK, WriteIndex
    PROVE  /\ pc = "append" /\ edit.rest = {}
           /\ Suits(edit.group, NewIndex)
           /\ \/ Failed(edit.group, NewIndex)
              \/ /\ Took(edit.group, NewIndex, IF edit.todo = {edit.group} THEN "chain" ELSE "patch")
                 /\ IsEdit(edit') /\ IsMountList(edit'.raw)
                 /\ edit'.raw = [edit.raw EXCEPT ![Slot(edit.group)] = NewIndex]
                 /\ edit'.todo = edit.todo \ {edit.group}
  <1> USE DEF Edits
  <1> DEFINE g == edit.group
             slot == Slot(g)
             held == [edit EXCEPT !.raw[slot] = NewIndex, !.todo = @ \ {g}]
             line == IF edit.todo = {g} THEN "chain" ELSE "patch"
  <1>1. pc = "append" /\ edit.rest = {} /\ Write(g, NewIndex, held, line)
    BY DEF WriteIndex
  <1>2. IsEdit(edit) /\ IsMountList(edit.raw)
    BY <1>1, PatchFacts DEF Patching
  <1>3. g \in Dirs /\ NewIndex \in Indexes(g)
    BY <1>1, AppendFacts, IndexSummed DEF TypeOK
  <1>4. Suits(g, NewIndex)
    BY <1>3, Places DEF Suits
  <1> DEFINE raw == [edit.raw EXCEPT ![slot] = NewIndex]
             R0 == {edit.raw, raw}
             I0 == {edit.index}
  <1> HIDE DEF slot, g
  <1>5. edit \in Edits(R0, I0) /\ raw \in R0
    BY <1>2 DEF IsEdit
  <1>6. held = [edit EXCEPT !.raw = raw, !.todo = edit.todo \ {g}]
    BY <1>5
  <1>7. IsMountList(raw)
    BY <1>2 DEF IsMountList
  <1> HIDE DEF held, R0, I0, raw
  <1>8. held.raw = raw /\ held.todo = edit.todo \ {g}
    BY <1>5, <1>6
  <1>9. held \in Edits(R0, I0)
    BY <1>5, <1>6
  <1>10. IsEdit(held)
    BY <1>9 DEF IsEdit
  <1>11. Failed(g, NewIndex) \/ (Took(g, NewIndex, line) /\ edit' = held)
    BY <1>1 DEF Write, Failed, Took
  <1> QED BY <1>1, <1>4, <1>10, <1>7, <1>11, <1>8 DEF g, slot, raw

LEMMA TypeStep == TypeOK /\ [Next]_vars => TypeOK'
  <1> SUFFICES ASSUME TypeOK, [Next]_vars PROVE TypeOK'
    OBVIOUS
  <1> USE FailsTyped
  <1> USE DEF Patching, Restoring, restoring, counters, RestoreWhole, End, Took, Failed
  <1>1. ASSUME NEW asked \in Requests, Ask(asked) PROVE TypeOK'
    <2>1. patches' \in 0 .. MaxPatches /\ 0 .. patches \subseteq 0 .. patches'
      BY <1>1, BoundsAssumption DEF Ask, TypeOK
    <2> QED BY <1>1, <2>1 DEF Ask, TypeOK
  <1>2. CASE Backup
    <2>1. /\ DOMAIN backups' = DOMAIN backups \cup {patches}
          /\ backups'[patches].files = Touched(request) /\ backups'[patches].before = disk
          /\ \A b \in DOMAIN backups : b # patches => backups'[b] = backups[b]
      BY <1>2, BackedUp DEF Backup
    <2>2. patches \in 0 .. patches /\ request \in Requests
      BY <1>2 DEF Backup, TypeOK
    <2>3. \A b \in DOMAIN backups' :
            /\ WellFormed(backups'[b].before)
            /\ \E asked \in Requests : backups'[b].files = Touched(asked)
      BY <2>1, <2>2 DEF TypeOK
    <2>4. edit'.todo = {GroupOf[p] : p \in request.pazes} /\ edit'.raw = disk["papgt"]
      BY <1>2 DEF Backup
    <2>5. edit'.todo \subseteq Groups
      BY <2>2, <2>4, TouchedFiles DEF Groups
    <2>6. IsEdit(edit')
      BY <1>2, <2>5 DEF Backup, IsEdit, Edits
    <2>7. IsMountList(edit'.raw)
      BY <2>4 DEF TypeOK, WellFormed
    <2>8. left' \subseteq backups'[source'].files
      BY <1>2, <2>1 DEF Backup, TypeOK
    <2> QED BY <1>2, <2>1, <2>2, <2>3, <2>4, <2>6, <2>7, <2>8 DEF Backup, TypeOK
  <1>3. CASE BackupNotMade
    BY <1>3 DEF BackupNotMade, TypeOK
  <1>4. ASSUME NEW g \in Groups, StartGroup(g) PROVE TypeOK'
    BY <1>4, StartGroupDoes DEF StartGroup, TypeOK
  <1>5. ASSUME NEW p \in Pazes, AppendPayload(p) PROVE TypeOK'
    <2>1. WellFormed(disk)'
      BY <1>5, AppendDoes, Written DEF TypeOK
    <2> QED BY <1>5, <2>1, AppendDoes DEF AppendPayload, TypeOK
  <1>6. ASSUME NEW p \in Pazes, AppendTorn(p) PROVE TypeOK'
    <2>1. WellFormed(disk)'
      BY <1>6, Written, Appended DEF AppendTorn, Payloads, TypeOK
    <2> QED BY <1>6, <2>1 DEF AppendTorn, TypeOK
  <1>7. CASE WriteIndex
    <2>1. WellFormed(disk)'
      BY <1>7, WriteIndexDoes, Written DEF TypeOK
    <2> QED BY <1>7, <2>1, WriteIndexDoes DEF WriteIndex, TypeOK
  <1>8. CASE WriteMountList
    <2>1. Suits("papgt", edit.raw)
      BY <1>8, Places DEF WriteMountList, Suits, TypeOK
    <2>2. WellFormed(disk)'
      BY <1>8, <2>1, Written DEF WriteMountList, Write, TypeOK
    <2> QED BY <1>8, <2>2 DEF WriteMountList, Write, TypeOK
  <1>9. CASE WriteMeta
    <2> DEFINE contents == IF request.meta THEN patches ELSE disk["pathc"]
    <2>1. Suits("pathc", contents)
      BY Places DEF Suits, WellFormed, TypeOK
    <2>2. WellFormed(disk)'
      BY <1>9, <2>1, Written DEF WriteMeta, Write, TypeOK
    <2> QED BY <1>9, <2>2 DEF WriteMeta, Write, TypeOK
  <1>10. CASE Refresh
    BY <1>10 DEF Refresh, TypeOK
  <1>11. CASE Cancel
    BY <1>11 DEF Cancel, TypeOK
  <1>12. CASE Observe
    BY <1>12 DEF Observe, TypeOK
  <1>13. CASE Restored
    BY <1>13 DEF Restored, TypeOK
  <1>14. ASSUME NEW f \in Files, RestoreFile(f) PROVE TypeOK'
    <2>1. WellFormed(disk)'
      BY <1>14, RestoreSuits, Written DEF RestoreFile, TypeOK
    <2> QED BY <1>14, <2>1 DEF RestoreFile, TypeOK
  <1>15. ASSUME NEW b \in 1 .. MaxPatches, RestoreBackup(b) PROVE TypeOK'
    BY <1>15 DEF RestoreBackup, TypeOK
  <1>16. CASE Crash
    <2>1. WellFormed(disk)'
      BY <1>16, Written, Appended, AppendFacts DEF Crash, Payloads, TypeOK
    <2>2. crashes' \in 0 .. MaxCrashes
      BY <1>16, BoundsAssumption DEF Crash, TypeOK
    <2> QED BY <1>16, <2>1, <2>2 DEF Crash, TypeOK
  <1>17. CASE UNCHANGED vars
    BY <1>17 DEF vars, TypeOK
  <1> QED BY <1>1, <1>2, <1>3, <1>4, <1>5, <1>6, <1>7, <1>8, <1>9, <1>10, <1>11, <1>12, <1>13, <1>14,
             <1>15, <1>16, <1>17 DEF Next

\* Every file and every variable is well-formed, whatever fails, is cancelled
\* or dies, and in whatever order backups are restored.
THEOREM TypeCorrect == Spec => []TypeOK
  <1> QED BY InitTyped, TypeStep, PTL DEF Spec

-----------------------------------------------------------------------------
(* The steps, by what they do to the files and to the backups. *)

\* At most one file is written, which the backup holds.
LEMMA DiskSteps ==
    ASSUME TypeOK, [Next]_vars
    PROVE  \/ disk' = disk
           \/ /\ pc = "append"
              /\ \E p \in edit.rest, x \in Payloads : disk' = [disk EXCEPT ![p] = Append(disk[p], x)]
           \/ pc = "append" /\ edit.rest = {} /\ disk' = [disk EXCEPT ![edit.group] = NewIndex]
           \/ pc = "chain" /\ disk' = [disk EXCEPT !["papgt"] = edit.raw]
           \/ pc = "meta" /\ request.meta /\ disk' = [disk EXCEPT !["pathc"] = patches]
           \/ /\ pc \in Restoring
              /\ \E f \in left : /\ \A other \in left \ {f} : Precedes(f, other)
                                 /\ disk' = [disk EXCEPT ![f] = Before(source)[f]]
  <1>1. \A asked \in Requests : Ask(asked) => disk' = disk
    BY DEF Ask
  <1>2. Backup \/ BackupNotMade \/ Refresh \/ Cancel \/ Observe \/ Restored \/ UNCHANGED vars => disk' = disk
    BY DEF Backup, BackupNotMade, Refresh, Cancel, Observe, Restored, vars
  <1>3. \A g \in Groups : StartGroup(g) => disk' = disk
    BY DEF StartGroup
  <1>4. \A b \in 1 .. MaxPatches : RestoreBackup(b) => disk' = disk
    BY DEF RestoreBackup
  <1>5. ASSUME NEW p \in Pazes, AppendPayload(p) \/ AppendTorn(p), disk' # disk
        PROVE  /\ pc = "append"
               /\ \E q \in edit.rest, x \in Payloads : disk' = [disk EXCEPT ![q] = Append(disk[q], x)]
    <2>1. CASE AppendPayload(p)
      <3>1. pc = "append" /\ p \in edit.rest /\ disk' = [disk EXCEPT ![p] = Append(disk[p], patches)]
        BY <1>5, <2>1, AppendDoes DEF Took, Failed
      <3>2. patches \in Payloads
        BY <3>1, PatchFacts DEF Patching
      <3> QED BY <3>1, <3>2
    <2>2. CASE AppendTorn(p)
      BY <2>2 DEF AppendTorn, Payloads
    <2> QED BY <1>5, <2>1, <2>2
  <1>6. ASSUME WriteIndex, disk' # disk
        PROVE  pc = "append" /\ edit.rest = {} /\ disk' = [disk EXCEPT ![edit.group] = NewIndex]
    BY <1>6, WriteIndexDoes DEF Took, Failed
  <1>7. ASSUME WriteMountList, disk' # disk
        PROVE  pc = "chain" /\ disk' = [disk EXCEPT !["papgt"] = edit.raw]
    BY <1>7 DEF WriteMountList, Write
  <1>8. ASSUME WriteMeta, disk' # disk
        PROVE  pc = "meta" /\ request.meta /\ disk' = [disk EXCEPT !["pathc"] = patches]
    <2>1. [disk EXCEPT !["pathc"] = disk["pathc"]] = disk
      BY DEF TypeOK, WellFormed
    <2>2. request.meta \in BOOLEAN
      BY <1>8, PatchFacts, TouchedFiles DEF WriteMeta, Patching
    <2> QED BY <1>8, <2>1, <2>2 DEF WriteMeta, Write
  <1>9. ASSUME NEW f \in Files, RestoreFile(f), disk' # disk
        PROVE  /\ pc \in Restoring
               /\ f \in left
               /\ \A other \in left \ {f} : Precedes(f, other)
               /\ disk' = [disk EXCEPT ![f] = Before(source)[f]]
    BY <1>9 DEF RestoreFile, Restoring, Before
  <1>10. ASSUME Crash, disk' # disk
         PROVE  /\ pc = "append"
                /\ \E p \in edit.rest, x \in Payloads : disk' = [disk EXCEPT ![p] = Append(disk[p], x)]
    BY <1>10 DEF Crash, Payloads
  <1> QED BY <1>1, <1>2, <1>3, <1>4, <1>5, <1>6, <1>7, <1>8, <1>9, <1>10 DEF Next

\* Other steps leave the backups, and what the operation is about.
LEMMA Frame ==
    ASSUME TypeOK, [Next]_vars
    PROVE  \/ \E asked \in Requests : Ask(asked)
           \/ Backup
           \/ \E b \in 1 .. MaxPatches : RestoreBackup(b)
           \/ /\ UNCHANGED <<backups, base, source, request, patches>>
              /\ pc = "idle" => UNCHANGED vars
              /\ pc' \notin {"idle", "backup", "restoring"} => pc \notin {"idle", "backup", "restoring"}
              /\ pc' = "restoring" => pc = "restoring"
              /\ pc' = "backup" => pc = "backup"
              /\ pc = "backup" => disk' = disk
              /\ pc' = "idle" /\ pc # "idle" =>
                   /\ verdict' = "restored" => Restored /\ pc = "restoring"
                   /\ verdict' = "done" => Refresh
  <1> USE DEF restoring, counters, Fails, RestoreWhole, End
  <1> DEFINE Framed ==
              /\ UNCHANGED <<backups, base, source, request, patches>>
              /\ pc = "idle" => UNCHANGED vars
              /\ pc' \notin {"idle", "backup", "restoring"} => pc \notin {"idle", "backup", "restoring"}
              /\ pc' = "restoring" => pc = "restoring"
              /\ pc' = "backup" => pc = "backup"
              /\ pc = "backup" => disk' = disk
              /\ pc' = "idle" /\ pc # "idle" =>
                   /\ verdict' = "restored" => Restored /\ pc = "restoring"
                   /\ verdict' = "done" => Refresh
  <1>2. BackupNotMade => Framed
    BY DEF BackupNotMade
  <1>3. \A g \in Groups : StartGroup(g) => Framed
    BY DEF StartGroup
  <1>4. \A p \in Pazes : AppendPayload(p) => Framed
    BY DEF AppendPayload, Write
  <1>5. \A p \in Pazes : AppendTorn(p) => Framed
    BY DEF AppendTorn
  <1>6. WriteIndex => Framed
    BY DEF WriteIndex, Write
  <1>7. WriteMountList => Framed
    BY DEF WriteMountList, Write
  <1>8. WriteMeta => Framed
    BY DEF WriteMeta, Write
  <1>9. Refresh => Framed
    BY DEF Refresh
  <1>10. Cancel \/ Observe => Framed
    BY DEF Cancel, Observe
  <1>11. Restored => Framed
    BY DEF Restored
  <1>12. \A f \in Files : RestoreFile(f) => Framed
    BY DEF RestoreFile
  <1>13. Crash => Framed
    BY DEF Crash
  <1>14. UNCHANGED vars => Framed
    BY DEF vars
  <1> HIDE DEF Framed
  <1>15. \/ \E asked \in Requests : Ask(asked)
         \/ Backup
         \/ \E b \in 1 .. MaxPatches : RestoreBackup(b)
         \/ Framed
    BY <1>2, <1>3, <1>4, <1>5, <1>6, <1>7, <1>8, <1>9, <1>10, <1>11, <1>12, <1>13, <1>14 DEF Next
  <1> QED BY <1>15 DEF Framed

LEMMA OneFile ==
    ASSUME TypeOK, Covered, [Next]_vars, disk' # disk
    PROVE  /\ pc \notin {"idle", "backup"}
           /\ \E f \in backups[source].files :
                /\ f \in Files
                /\ \A h \in Files : h # f => disk'[h] = disk[h]
  <1> USE DEF Patching, Restoring
  <1>1. ASSUME NEW f \in Files, NEW contents, disk' = [disk EXCEPT ![f] = contents]
        PROVE  \A h \in Files : h # f => disk'[h] = disk[h]
    BY <1>1 DEF TypeOK, WellFormed
  <1>2. pc \in Patching => /\ request \in Requests
                           /\ backups[source].files = Touched(request)
    BY PatchFacts DEF Covered
  <1>3. CASE pc = "append" /\ \E p \in edit.rest, x \in Payloads : disk' = [disk EXCEPT ![p] = Append(disk[p], x)]
    <2>1. PICK p \in edit.rest, x \in Payloads : disk' = [disk EXCEPT ![p] = Append(disk[p], x)]
      BY <1>3
    <2>2. p \in Touched(request) /\ p \in Files
      BY <1>2, <1>3, AppendFacts, TouchedFiles
    <2>3. \A h \in Files : h # p => disk'[h] = disk[h]
      BY <1>1, <2>1, <2>2
    <2> QED BY <1>2, <1>3, <2>2, <2>3
  <1>4. CASE pc = "append" /\ edit.rest = {} /\ disk' = [disk EXCEPT ![edit.group] = NewIndex]
    <2>1. edit.group \in {GroupOf[p] : p \in request.pazes}
      BY <1>4 DEF TypeOK
    <2>2. edit.group \in Touched(request) /\ edit.group \in Files
      BY <1>2, <1>4, <2>1, TouchedFiles
    <2>3. \A h \in Files : h # edit.group => disk'[h] = disk[h]
      BY <1>1, <1>4, <2>2
    <2> QED BY <1>2, <1>4, <2>2, <2>3
  <1>5. CASE pc = "chain" /\ disk' = [disk EXCEPT !["papgt"] = edit.raw]
    <2>1. "papgt" \in Touched(request) /\ "papgt" \in Files
      BY <1>2, <1>5, TouchedFiles
    <2>2. \A h \in Files : h # "papgt" => disk'[h] = disk[h]
      BY <1>1, <1>5, <2>1
    <2> QED BY <1>2, <1>5, <2>1, <2>2
  <1>6. CASE pc = "meta" /\ request.meta /\ disk' = [disk EXCEPT !["pathc"] = patches]
    <2>1. "pathc" \in Touched(request) /\ "pathc" \in Files
      BY <1>2, <1>6, TouchedFiles
    <2>2. \A h \in Files : h # "pathc" => disk'[h] = disk[h]
      BY <1>1, <1>6, <2>1
    <2> QED BY <1>2, <1>6, <2>1, <2>2
  <1>7. CASE /\ pc \in Restoring
             /\ \E f \in left : disk' = [disk EXCEPT ![f] = Before(source)[f]]
    <2>1. PICK f \in left : disk' = [disk EXCEPT ![f] = Before(source)[f]]
      BY <1>7
    <2>2. f \in backups[source].files /\ f \in Files
      BY <1>7, RestoreSuits DEF TypeOK, Suits
    <2>3. \A h \in Files : h # f => disk'[h] = disk[h]
      BY <1>1, <2>1, <2>2
    <2> QED BY <1>7, <2>2, <2>3
  <1> QED BY <1>3, <1>4, <1>5, <1>6, <1>7, DiskSteps

-----------------------------------------------------------------------------
(* Backups cover what an operation has touched. *)

LEMMA CoveredStep == TypeOK /\ Covered /\ [Next]_vars => Covered'
  <1> SUFFICES ASSUME TypeOK, Covered, [Next]_vars PROVE Covered'
    OBVIOUS
  <1>1. ASSUME NEW asked \in Requests, Ask(asked) PROVE Covered'
    <2>1. patches' \notin DOMAIN backups
      BY <1>1 DEF Ask, TypeOK
    <2> QED BY <1>1, <2>1 DEF Ask, Covered
  <1>2. CASE Backup
    <2>1. /\ DOMAIN backups' = DOMAIN backups \cup {patches}
          /\ backups'[patches].files = Touched(request) /\ backups'[patches].before = disk
      BY <1>2, BackedUp DEF Backup
    <2>2. disk = base /\ pc' = "patch" /\ UNCHANGED <<disk, base, request, patches>> /\ source' = patches
      BY <1>2 DEF Backup, Covered, counters
    <2>3. Before(source)' = base'
      BY <2>1, <2>2 DEF Before
    <2>4. backups'[source'].files = Touched(request)'
      BY <2>1, <2>2
    <2> QED BY <2>2, <2>3, <2>4 DEF Covered
  <1>3. ASSUME NEW b \in 1 .. MaxPatches, RestoreBackup(b) PROVE Covered'
    BY <1>3 DEF RestoreBackup, Covered
  <1>4. CASE /\ UNCHANGED <<backups, base, source, request, patches>>
             /\ pc = "idle" => UNCHANGED vars
             /\ pc' \notin {"idle", "backup", "restoring"} => pc \notin {"idle", "backup", "restoring"}
             /\ pc' = "backup" => pc = "backup"
             /\ pc = "backup" => disk' = disk
    <2>1. ASSUME NEW f \in Files, disk'[f] # base[f], pc # "idle"
          PROVE  source \in DOMAIN backups /\ f \in backups[source].files
      <3>1. CASE disk'[f] = disk[f]
        BY <2>1, <3>1 DEF Covered
      <3>2. CASE disk'[f] # disk[f]
        <4>1. source \in DOMAIN backups
          BY <3>2, OneFile DEF TypeOK
        <4> QED BY <3>2, <4>1, OneFile
      <3> QED BY <3>1, <3>2
    <2>2. CASE pc = "idle"
      BY <1>4, <2>2 DEF Covered, vars, Before
    <2>3. CASE pc # "idle"
      BY <1>4, <2>1, <2>3 DEF Covered, Before
    <2> QED BY <2>2, <2>3
  <1> QED BY <1>1, <1>2, <1>3, <1>4, Frame

\* Whenever a patch may have to be taken back, its backup holds every file that
\* is not as the patch found it: _create_backup is given all files that
\* apply_archive_mutations may touch.
THEOREM BackupAlwaysCovers == Spec => []BackupCovers
  <1>1. Init => Covered
    BY DEF Init, Covered
  <1>2. TypeOK /\ Covered => BackupCovers
    BY DEF TypeOK, Covered, BackupCovers
  <1> QED BY <1>1, <1>2, InitTyped, TypeStep, CoveredStep, PTL DEF Spec

-----------------------------------------------------------------------------
(* Restoring. *)

LEMMA SameFiles ==
    ASSUME NEW old, WellFormed(old), NEW new, WellFormed(new), \A f \in Files : new[f] = old[f]
    PROVE  new = old
BY DEF WellFormed

\* A file is put back.
LEMMA RestoreFileDoes ==
    ASSUME TypeOK, NEW f \in Files, RestoreFile(f)
    PROVE  /\ pc \in Restoring /\ f \in left
           /\ \A other \in left \ {f} : Precedes(f, other)
           /\ \/ /\ disk'[f] = Before(source)[f]
                 /\ \A h \in Files : h # f => disk'[h] = disk[h]
                 /\ left' = left \ {f} /\ UNCHANGED <<pc, verdict>>
              \/ pc' = "outer" /\ left' = backups[source].files
              \/ pc' = "idle" /\ verdict' = "partial"
  <1>1. f \in DOMAIN disk /\ \A h \in Files : h \in DOMAIN disk
    BY DEF TypeOK, WellFormed
  <1> QED BY <1>1 DEF RestoreFile, RestoreWhole, End, Before, Restoring

LEMMA PutBackStep == TypeOK /\ Covered /\ PutBack /\ [Next]_vars => PutBack'
  <1> SUFFICES ASSUME TypeOK, Covered, PutBack, [Next]_vars PROVE PutBack'
    OBVIOUS
  <1> USE DEF PutBack, Restoring
  <1>1. \A asked \in Requests : Ask(asked) => PutBack'
    BY DEF Ask
  <1>2. Backup => PutBack'
    BY DEF Backup
  <1>3. BackupNotMade => PutBack'
    BY DEF BackupNotMade, End, Covered
  <1>4. \A g \in Groups : StartGroup(g) => PutBack'
    BY DEF StartGroup
  <1>5. \A p \in Pazes : AppendPayload(p) => PutBack'
    BY DEF AppendPayload, Write, RestoreWhole
  <1>6. \A p \in Pazes : AppendTorn(p) => PutBack'
    BY DEF AppendTorn, RestoreWhole
  <1>7. WriteIndex => PutBack'
    BY DEF WriteIndex, Write, RestoreWhole
  <1>8. WriteMountList => PutBack'
    BY DEF WriteMountList, Write, RestoreWhole
  <1>9. WriteMeta => PutBack'
    BY DEF WriteMeta, Write, RestoreWhole
  <1>10. Refresh => PutBack'
    BY DEF Refresh, End, RestoreWhole
  <1>11. Cancel => PutBack'
    BY DEF Cancel, restoring, Before
  <1>12. Observe => PutBack'
    BY DEF Observe, RestoreWhole
  <1>13. ASSUME Restored PROVE PutBack'
    <2>1. CASE pc = "inner"
      BY <1>13, <2>1 DEF Restored, RestoreWhole
    <2>2. CASE pc = "outer"
      <3>1. ASSUME NEW f \in Files PROVE disk[f] = base[f]
        BY <1>13, <2>2, <3>1 DEF Restored, Covered
      <3>2. disk = base
        BY <3>1, SameFiles DEF TypeOK
      <3> QED BY <1>13, <2>2, <3>2 DEF Restored, End
    <2>3. CASE pc = "restoring"
      <3>1. ASSUME NEW f \in Files
            PROVE  disk[f] = IF f \in backups[source].files THEN Before(source)[f] ELSE base[f]
        BY <1>13, <2>3, <3>1 DEF Restored, Covered
      <3>2. UNCHANGED <<disk, base, backups, source>> /\ Before(source)' = Before(source)
        BY <1>13, <2>3 DEF Restored, Before
      <3> QED BY <1>13, <2>3, <3>1, <3>2 DEF Restored, End
    <2> QED BY <1>13, <2>1, <2>2, <2>3 DEF Restored
  <1>14. ASSUME NEW f \in Files, RestoreFile(f) PROVE PutBack'
    <2>1. UNCHANGED <<backups, source>>
      BY <1>14 DEF RestoreFile, RestoreWhole
    <2>2. backups[source].files \subseteq Files
      BY <1>14, RestoreFileDoes, TouchedFiles DEF TypeOK
    <2> QED BY <1>14, <2>1, <2>2, RestoreFileDoes DEF Before
  <1>15. \A b \in 1 .. MaxPatches : RestoreBackup(b) => PutBack'
    BY DEF RestoreBackup
  <1>16. Crash => PutBack'
    BY DEF Crash, End
  <1>17. UNCHANGED vars => PutBack'
    BY DEF vars, restoring, Before
  <1> QED BY <1>1, <1>2, <1>3, <1>4, <1>5, <1>6, <1>7, <1>8, <1>9, <1>10, <1>11, <1>12, <1>13, <1>14,
             <1>15, <1>16, <1>17 DEF Next

LEMMA ExtendsReflexive ==
    ASSUME NEW files, WellFormed(files)
    PROVE  Extends(files, files)
  <1>1. \A p \in Pazes : Len(files[p]) \in Nat
    BY DEF WellFormed
  <1> QED BY <1>1 DEF Extends

LEMMA ExtendsTransitive ==
    ASSUME NEW a, WellFormed(a), NEW b, WellFormed(b), NEW c, WellFormed(c), Extends(a, b), Extends(b, c)
    PROVE  Extends(a, c)
  <1> SUFFICES ASSUME NEW p \in Pazes
               PROVE  /\ Len(a[p]) <= Len(c[p])
                      /\ \A i \in 1 .. Len(a[p]) : c[p][i] = a[p][i]
    BY DEF Extends
  <1>1. Len(a[p]) \in Nat /\ Len(b[p]) \in Nat /\ Len(c[p]) \in Nat
    BY DEF WellFormed
  <1> QED BY <1>1 DEF Extends

\* But for a restore, PAZ files only grow.
LEMMA Growing ==
    ASSUME TypeOK, [Next]_vars, pc \notin Restoring
    PROVE  Extends(disk, disk')
  <1> SUFFICES ASSUME NEW p \in Pazes
               PROVE  /\ Len(disk[p]) <= Len(disk'[p])
                      /\ \A i \in 1 .. Len(disk[p]) : disk'[p][i] = disk[p][i]
    BY DEF Extends
  <1>0. disk[p] \in Seq(Payloads) /\ disk = [f \in Files |-> disk[f]] /\ p \in Files
    BY Places DEF TypeOK, WellFormed
  <1>1. disk[p] \in Seq(Payloads) /\ Len(disk[p]) \in Nat /\ p \in DOMAIN disk
    BY <1>0
  <1>2. CASE disk'[p] = disk[p]
    BY <1>1, <1>2
  <1>3. CASE pc = "append" /\ \E q \in edit.rest, x \in Payloads : disk' = [disk EXCEPT ![q] = Append(disk[q], x)]
    <2>1. PICK q \in edit.rest, x \in Payloads : disk' = [disk EXCEPT ![q] = Append(disk[q], x)]
      BY <1>3
    <2>2. CASE q = p
      <3>1. disk'[p] = Append(disk[p], x)
        BY <1>1, <2>1, <2>2
      <3> QED BY <1>1, <3>1
    <2>3. CASE q # p
      BY <1>1, <1>2, <2>1, <2>3
    <2> QED BY <2>2, <2>3
  <1>4. CASE \E f \in Files : \E contents : f # p /\ disk' = [disk EXCEPT ![f] = contents]
    BY <1>1, <1>2, <1>4
  <1>5. pc = "append" => edit.group \in Files /\ edit.group # p
    BY AppendFacts, Places
  <1>6. "papgt" \in Files /\ "papgt" # p /\ "pathc" \in Files /\ "pathc" # p
    BY Places
  <1> QED BY <1>2, <1>3, <1>4, <1>5, <1>6, DiskSteps DEF Restoring

\* Backups come and go.
LEMMA LiveSteps ==
    ASSUME TypeOK, [Next]_vars
    PROVE  \/ Backup
           \/ Restored /\ pc \in {"outer", "restoring"}
           \/ UNCHANGED <<backups, undone>>
  <1> USE DEF restoring, RestoreWhole
  <1>1. \A asked \in Requests : Ask(asked) => UNCHANGED <<backups, undone>>
    BY DEF Ask
  <1>2. BackupNotMade \/ Refresh \/ Cancel \/ Observe \/ Crash \/ UNCHANGED vars => UNCHANGED <<backups, undone>>
    BY DEF BackupNotMade, Refresh, Cancel, Observe, Crash, vars
  <1>3. \A g \in Groups : StartGroup(g) => UNCHANGED <<backups, undone>>
    BY DEF StartGroup
  <1>4. \A p \in Pazes : AppendPayload(p) \/ AppendTorn(p) => UNCHANGED <<backups, undone>>
    BY DEF AppendPayload, AppendTorn, Write
  <1>5. WriteIndex \/ WriteMountList \/ WriteMeta => UNCHANGED <<backups, undone>>
    BY DEF WriteIndex, WriteMountList, WriteMeta, Write
  <1>6. \A f \in Files : RestoreFile(f) => UNCHANGED <<backups, undone>>
    BY DEF RestoreFile
  <1>7. \A b \in 1 .. MaxPatches : RestoreBackup(b) => UNCHANGED <<backups, undone>>
    BY DEF RestoreBackup
  <1>8. Restored => pc \in {"outer", "restoring"} \/ UNCHANGED <<backups, undone>>
    BY DEF Restored
  <1> QED BY <1>1, <1>2, <1>3, <1>4, <1>5, <1>6, <1>7, <1>8 DEF Next

\* What a restore leaves when all files are put back.
LEMMA AllPutBack ==
    ASSUME TypeOK, Kept, Restores, PutBack, pc \in Restoring, left = {}
    PROVE  disk = Before(source)
  <1>1. source \in Live /\ \A c \in Live : c <= source
    BY DEF Restores, Restoring
  <1>2. WellFormed(disk) /\ WellFormed(Before(source))
    BY <1>1 DEF TypeOK, Live, Before
  <1>3. ASSUME NEW f \in Files, disk[f] # Before(source)[f] PROVE FALSE
    <2>1. PICK c \in Live : source <= c /\ f \in backups[c].files
      BY <1>1, <1>3 DEF Kept, Covers
    <2>2. c \in Nat /\ source \in Nat /\ c <= source
      BY <1>1 DEF TypeOK, Live
    <2>3. c = source
      BY <2>1, <2>2
    <2> QED BY <1>3, <2>1, <2>3 DEF PutBack
  <1> QED BY <1>2, <1>3, SameFiles

\* Once a patch was taken back below a later one, it was.
LEMMA InOrderStep == [Next]_vars => (inOrder' => inOrder)
  <1> SUFFICES ASSUME [Next]_vars PROVE inOrder' => inOrder
    OBVIOUS
  <1> USE DEF restoring, RestoreWhole
  <1>1. \A asked \in Requests : Ask(asked) => inOrder' = inOrder
    BY DEF Ask
  <1>2. Backup \/ BackupNotMade \/ Refresh \/ Cancel \/ Observe \/ Restored \/ Crash \/ UNCHANGED vars
            => inOrder' = inOrder
    BY DEF Backup, BackupNotMade, Refresh, Cancel, Observe, Restored, Crash, vars
  <1>3. \A g \in Groups : StartGroup(g) => inOrder' = inOrder
    BY DEF StartGroup
  <1>4. \A p \in Pazes : AppendPayload(p) \/ AppendTorn(p) => inOrder' = inOrder
    BY DEF AppendPayload, AppendTorn, Write
  <1>5. WriteIndex \/ WriteMountList \/ WriteMeta => inOrder' = inOrder
    BY DEF WriteIndex, WriteMountList, WriteMeta, Write
  <1>6. \A f \in Files : RestoreFile(f) => inOrder' = inOrder
    BY DEF RestoreFile
  <1>7. \A b \in 1 .. MaxPatches : RestoreBackup(b) => (inOrder' => inOrder)
    BY DEF RestoreBackup
  <1> QED BY <1>1, <1>2, <1>3, <1>4, <1>5, <1>6, <1>7 DEF Next

LEMMA RestoresStep ==
    ASSUME inOrder', TypeOK, Covered, PutBack, Kept, Restores, [Next]_vars
    PROVE  Restores'
  <1>1. ASSUME NEW asked \in Requests, Ask(asked) PROVE Restores'
    BY <1>1 DEF Ask, Restores
  <1>2. CASE Backup
    <2>1. DOMAIN backups' = DOMAIN backups \cup {patches} /\ undone' = undone /\ source' = patches
      BY <1>2, BackedUp DEF Backup
    <2>2. patches \notin undone /\ \A c \in DOMAIN backups : c <= patches
      BY <1>2 DEF Backup, Covered, TypeOK
    <2>3. patches \in Live' /\ \A c \in Live' : c <= patches
      BY <2>1, <2>2 DEF Live, TypeOK
    <2> QED BY <1>2, <2>1, <2>3 DEF Backup, Restores
  <1>3. ASSUME NEW b \in 1 .. MaxPatches, RestoreBackup(b) PROVE Restores'
    BY <1>3 DEF RestoreBackup, Restores, Live
  <1>4. CASE Restored /\ pc \in {"outer", "restoring"}
    <2>1. disk = Before(source)
      BY <1>4, AllPutBack DEF Restored, Restoring
    <2> QED BY <1>4, <2>1 DEF Restored, End, Restores, Before
  <1>5. CASE /\ UNCHANGED <<backups, base, source, request, patches, undone>>
             /\ pc = "idle" => UNCHANGED vars
             /\ pc' \notin {"idle", "backup", "restoring"} => pc \notin {"idle", "backup", "restoring"}
             /\ pc' = "restoring" => pc = "restoring"
             /\ pc' = "idle" /\ pc # "idle" => verdict' # "restored"
    <2>1. Live' = Live
      BY <1>5 DEF Live
    <2>2. pc' \notin {"idle", "backup"} => source' \in Live' /\ \A c \in Live' : c <= source'
      BY <1>5, <2>1 DEF Restores
    <2>3. pc' = "idle" /\ verdict' = "restored" => disk' = Before(source)'
      BY <1>5 DEF Restores, vars, restoring, Before
    <2> QED BY <2>2, <2>3 DEF Restores
  <1> QED BY <1>1, <1>2, <1>3, <1>4, <1>5, Frame, LiveSteps

\* What the backups are worth, step by step.
LEMMA KeptStep ==
    ASSUME TypeOK, Covered, PutBack, Kept, Restores, [Next]_vars
    PROVE  Kept'
  <1>0. /\ WellFormed(disk) /\ WellFormed(disk')
        /\ \A b \in Live : b \in Nat /\ WellFormed(Before(b)) /\ b \in DOMAIN backups
    BY TypeStep DEF TypeOK, Live, Before
  <1>1. CASE Backup
    <2>1. /\ DOMAIN backups' = DOMAIN backups \cup {patches}
          /\ backups'[patches].before = disk
          /\ \A b \in DOMAIN backups : b # patches => backups'[b] = backups[b]
          /\ patches \notin DOMAIN backups /\ patches \in Nat
          /\ \A b \in DOMAIN backups : b <= patches
          /\ UNCHANGED <<disk, undone>>
      BY <1>1, BackedUp DEF Backup, Covered, TypeOK
    <2>2. Live' = Live \cup {patches} /\ patches \notin Live
      BY <2>1 DEF Live, TypeOK
    <2>3. \A b \in Live : Before(b)' = Before(b) /\ backups'[b] = backups[b] /\ b <= patches
      BY <1>0, <2>1 DEF Before
    <2>4. PICK new : new = patches
      OBVIOUS
    <2>5. Before(new)' = disk /\ \A b \in Live : b < new
      BY <1>0, <2>1, <2>2, <2>3, <2>4 DEF Before
    <2>6. ASSUME NEW b \in Live'
          PROVE  Extends(Before(b), disk)' /\ Covers(Before(b), disk, b, Live)'
      <3>1. CASE b \in Live
        BY <2>1, <2>2, <2>3, <3>1 DEF Kept, Covers
      <3>2. CASE b = new
        <4>1. Extends(disk, disk)
          BY <1>0, ExtendsReflexive
        <4> QED BY <2>1, <2>5, <3>2, <4>1 DEF Covers
      <3> QED BY <2>2, <2>4, <3>1, <3>2
    <2>7. ASSUME NEW b \in Live', NEW d \in Live', b < d
          PROVE  /\ Extends(Before(b), Before(d))'
                 /\ Covers(Before(b), Before(d), b, {c \in Live : c < d})'
      <3>1. b \in Live
        BY <1>0, <2>2, <2>4, <2>5, <2>7, <2>1
      <3>2. CASE d \in Live
        BY <2>2, <2>3, <2>7, <3>1, <3>2 DEF Kept, Covers
      <3>3. CASE d = new
        <4>1. Extends(Before(b), disk) /\ Covers(Before(b), disk, b, Live)
          BY <3>1 DEF Kept
        <4> QED BY <2>2, <2>3, <2>5, <3>1, <3>3, <4>1 DEF Covers
      <3> QED BY <2>2, <2>4, <3>2, <3>3
    <2> QED BY <2>6, <2>7 DEF Kept
  <1>2. CASE Restored /\ pc \in {"outer", "restoring"}
    <2>1. disk = Before(source) /\ source \in Live /\ source \in Nat
      BY <1>0, <1>2, AllPutBack DEF Restored, Restores, Restoring
    <2>2. PICK old : old = source
      OBVIOUS
    <2>3. Live' = Live \ {old} /\ disk' = disk /\ UNCHANGED backups
      BY <1>2, <2>2 DEF Restored, Live
    <2>4. \A b \in Live' : b \in Live /\ b < old
      BY <1>0, <1>2, <2>1, <2>2, <2>3 DEF Restores
    <2>5. \A b : Before(b)' = Before(b)
      BY <2>3 DEF Before
    <2>6. \A d \in Live' : {c \in Live' : c < d} = {c \in Live : c < d}
      BY <1>0, <2>1, <2>2, <2>3, <2>4
    <2>7. {c \in Live : c < old} = Live'
      <3>1. \A c \in Live : c < old <=> c # old
        BY <1>0, <1>2, <2>1, <2>2, <2>3, <2>4
      <3> QED BY <2>3, <3>1
    <2>8. ASSUME NEW b \in Live'
          PROVE  Extends(Before(b), disk)' /\ Covers(Before(b), disk, b, Live)'
      <3>1. Extends(Before(b), Before(old)) /\ Covers(Before(b), Before(old), b, Live')
        BY <2>1, <2>2, <2>4, <2>7 DEF Kept
      <3> QED BY <2>1, <2>2, <2>3, <2>5, <3>1 DEF Covers
    <2>9. ASSUME NEW b \in Live', NEW d \in Live', b < d
          PROVE  /\ Extends(Before(b), Before(d))'
                 /\ Covers(Before(b), Before(d), b, {c \in Live : c < d})'
      <3>1. /\ Extends(Before(b), Before(d))
            /\ Covers(Before(b), Before(d), b, {c \in Live : c < d})
        BY <2>4, <2>9 DEF Kept
      <3> QED BY <2>3, <2>5, <2>6, <3>1 DEF Covers
    <2> QED BY <2>8, <2>9 DEF Kept
  <1>3. CASE UNCHANGED <<backups, undone>>
    <2>1. Live' = Live /\ \A b : Before(b)' = Before(b)
      BY <1>3 DEF Live, Before
    <2>2. ASSUME NEW b \in Live PROVE Extends(Before(b), disk')
      <3>1. CASE pc \notin Restoring
        BY <1>0, <2>2, <3>1, Growing, ExtendsTransitive DEF Kept
      <3>2. CASE pc \in Restoring
        <4>1. source \in Live /\ b \in Nat /\ source \in Nat /\ b <= source
          BY <1>0, <3>2 DEF Restores, Restoring
        <4>2. Extends(Before(b), Before(source)) /\ Extends(Before(b), disk)
          <5>1. CASE b = source
            <6>1. Before(source) = Before(b)
              BY <5>1
            <6> QED BY <1>0, <2>2, <6>1, ExtendsReflexive DEF Kept
          <5>2. CASE b < source
            BY <4>1, <5>2 DEF Kept
          <5> QED BY <4>1, <5>1, <5>2
        <4>3. \A p \in Pazes : disk'[p] = disk[p] \/ disk'[p] = Before(source)[p]
          BY <1>0, <3>2, DiskSteps, Places DEF WellFormed, Restoring
        <4> QED BY <4>2, <4>3 DEF Extends
      <3> QED BY <3>1, <3>2
    <2>3. ASSUME NEW b \in Live, NEW f \in Files, disk'[f] # Before(b)[f]
          PROVE  \E c \in Live : b <= c /\ f \in backups[c].files
      <3>1. CASE disk'[f] = disk[f]
        BY <2>3, <3>1 DEF Kept, Covers
      <3>2. CASE disk'[f] # disk[f]
        <4>1. pc \notin {"idle", "backup"} /\ f \in backups[source].files
          BY <3>2, OneFile
        <4>2. source \in Live /\ b <= source
          BY <4>1 DEF Restores
        <4> QED BY <4>1, <4>2
      <3> QED BY <3>1, <3>2
    <2> QED BY <1>3, <2>1, <2>2, <2>3 DEF Kept, Covers
  <1> QED BY <1>1, <1>2, <1>3, LiveSteps

-----------------------------------------------------------------------------
(* Entries stay readable. *)

LEMMA PlacedExtends ==
    ASSUME NEW old, WellFormed(old), NEW new, WellFormed(new), Extends(old, new),
           NEW p \in Pazes, NEW index, Placed(index, old, p)
    PROVE  Placed(index, new, p)
  <1>1. old[p] \in Seq(Payloads) /\ new[p] \in Seq(Payloads)
    BY DEF WellFormed
  <1>2. Len(old[p]) \in Nat /\ Len(new[p]) \in Nat /\ Len(old[p]) <= Len(new[p])
        /\ DOMAIN old[p] = 1 .. Len(old[p]) /\ DOMAIN new[p] = 1 .. Len(new[p])
    BY <1>1 DEF Extends
  <1>3. index.refs[p].offset \in 1 .. Len(new[p])
    BY <1>2 DEF Placed
  <1> QED BY <1>2, <1>3 DEF Placed, Extends

\* An index comes back before its PAZ files.
LEMMA RestoreSound ==
    ASSUME TypeOK, BackupsSound, Sound(disk), Kept, Restores, PutBack, [Next]_vars,
           pc \in Restoring, disk' # disk
    PROVE  Sound(disk')
  <1>1. /\ source \in Live /\ source \in DOMAIN backups
        /\ WellFormed(disk) /\ WellFormed(Before(source)) /\ Sound(Before(source))
        /\ Extends(Before(source), disk)
    BY DEF Restores, Restoring, Live, TypeOK, Before, BackupsSound, Kept
  <1>2. PICK f \in left : /\ \A other \in left \ {f} : Precedes(f, other)
                          /\ disk' = [disk EXCEPT ![f] = Before(source)[f]]
    BY DiskSteps DEF Restoring
  <1>3. PICK asked \in Requests : backups[source].files = Touched(asked)
    BY <1>1 DEF TypeOK
  <1>4. f \in Touched(asked) /\ f \in Files
    BY <1>2, <1>3, TouchedFiles DEF TypeOK, Restoring
  <1>5. disk'[f] = Before(source)[f] /\ \A h \in Files : h # f => disk'[h] = disk[h]
    BY <1>1, <1>2, <1>4 DEF WellFormed
  <1> SUFFICES ASSUME NEW p \in Pazes PROVE Placed(disk'[GroupOf[p]], disk', p)
    BY DEF Sound
  <1> DEFINE g == GroupOf[p]
  <1>6. p \in Files /\ g \in Files /\ g # p
    BY Places
  <1>7. Placed(disk[g], disk, p) /\ Placed(Before(source)[g], Before(source), p)
    BY <1>1 DEF Sound
  <1>8. CASE f = p
    <2>1. g \in backups[source].files /\ f # g
      BY <1>3, <1>4, <1>6, <1>8, TouchedFiles
    <2>2. g \notin left
      BY <1>2, <1>8, <2>1, LayoutAssumption, Antisymmetric
    <2>3. disk'[g] = Before(source)[g]
      BY <1>5, <1>6, <2>1, <2>2 DEF PutBack
    <2> QED BY <1>5, <1>7, <1>8, <2>3 DEF Placed
  <1>9. CASE f = g
    <2>1. Placed(Before(source)[g], disk, p)
      BY <1>1, <1>7, PlacedExtends
    <2> QED BY <1>5, <1>6, <1>9, <2>1 DEF Placed
  <1>10. CASE f # p /\ f # g
    BY <1>5, <1>6, <1>7, <1>10 DEF Placed
  <1> QED BY <1>8, <1>9, <1>10

LEMMA SoundStep ==
    ASSUME TypeOK, BackupsSound, Sound(disk), Kept, Restores, PutBack, Editing, [Next]_vars
    PROVE  Sound(disk')
  <1>0. WellFormed(disk) /\ WellFormed(disk')
    BY TypeStep DEF TypeOK
  <1>1. CASE disk' = disk
    BY <1>1
  <1>2. CASE pc \in Restoring /\ disk' # disk
    BY <1>2, RestoreSound
  <1>3. CASE pc \notin Restoring /\ disk' # disk
    <2> SUFFICES ASSUME NEW p \in Pazes PROVE Placed(disk'[GroupOf[p]], disk', p)
      BY DEF Sound
    <2> DEFINE g == GroupOf[p]
    <2>1. Extends(disk, disk')
      BY <1>3, Growing
    <2>2. CASE disk'[g] = disk[g]
      BY <1>0, <2>1, <2>2, PlacedExtends DEF Sound
    <2>3. CASE disk'[g] # disk[g]
      <3>1. /\ g \in Dirs /\ g \in Files /\ g \notin Pazes /\ g # "papgt" /\ g # "pathc"
            /\ p \in PazesOf(g)
        BY Places
      <3>2. pc = "append" /\ edit.group = g /\ disk'[g] = NewIndex
        <4>1. pc = "append" => edit.rest \subseteq Pazes
          BY AppendFacts
        <4> QED BY <1>0, <1>3, <2>3, <3>1, <4>1, DiskSteps DEF WellFormed
      <3>3. Placed(edit.index, disk, p) /\ disk'[g].refs = edit.index.refs
        <4>1. edit.rest = {}
          BY <1>0, <1>3, <2>3, <3>1, <3>2, AppendFacts, DiskSteps DEF WellFormed
        <4>2. p \in request.pazes => Placed(edit.index, disk, p)
          BY <3>1, <3>2, <4>1 DEF Editing
        <4>3. p \notin request.pazes => edit.index.refs[p] = disk[g].refs[p]
          BY <3>1, <3>2 DEF Editing, Patching, Unchanged
        <4>4. p \notin request.pazes => Placed(edit.index, disk, p)
          BY <4>3 DEF Sound, Placed
        <4> QED BY <3>2, <4>2, <4>4, AppendFacts, IndexSummed DEF TypeOK
      <3>4. Placed(edit.index, disk', p)
        BY <1>0, <2>1, <3>3, PlacedExtends
      <3> QED BY <3>3, <3>4 DEF Placed
    <2> QED BY <2>2, <2>3
  <1> QED BY <1>1, <1>2, <1>3

LEMMA BackupsSoundStep ==
    ASSUME TypeOK, Covered, BackupsSound, Sound(disk), [Next]_vars
    PROVE  BackupsSound'
  <1>1. CASE Backup
    <2>1. /\ DOMAIN backups' = DOMAIN backups \cup {patches}
          /\ backups'[patches].before = disk
          /\ \A b \in DOMAIN backups : b # patches => backups'[b] = backups[b]
      BY <1>1, BackedUp DEF Backup
    <2> QED BY <2>1 DEF BackupsSound, Before
  <1>2. CASE UNCHANGED backups
    BY <1>2 DEF BackupsSound, Before
  <1>3. Restored => UNCHANGED backups
    BY DEF Restored
  <1> QED BY <1>1, <1>2, <1>3, LiveSteps

-----------------------------------------------------------------------------
(* What a patch has done so far. *)

LEMMA EditingBackup ==
    ASSUME TypeOK, Covered, Backup
    PROVE  Editing'
  <1>1. /\ pc' = "patch" /\ disk = base /\ UNCHANGED <<disk, base, request, patches>>
        /\ edit'.todo = {GroupOf[p] : p \in request.pazes}
    BY DEF Backup, Covered, counters
  <1>2. \A p \in Pazes : p \in request.pazes => GroupOf[p] \in edit'.todo
    BY <1>1
  <1> QED BY <1>1, <1>2 DEF Editing, Unchanged, Patching

LEMMA EditingStart ==
    ASSUME TypeOK, Editing, NEW g \in Groups, StartGroup(g)
    PROVE  Editing'
  <1>1. /\ pc = "patch" /\ pc' = "append" /\ g \in edit.todo
        /\ UNCHANGED <<disk, base, request, patches>>
    BY DEF StartGroup, counters
  <1>2. /\ edit'.todo = edit.todo /\ edit'.group = g /\ edit'.index = disk[g]
        /\ edit'.rest = request.pazes \cap PazesOf(g)
    BY StartGroupDoes
  <1>3. disk[g] = base[g] /\ \A p \in PazesOf(g) : p \in Pazes /\ GroupOf[p] = g
    BY <1>1, Places DEF Editing, Patching
  <1> QED BY <1>1, <1>2, <1>3 DEF Editing, Patching, Placed, Unchanged, Replaced

LEMMA EditingAppend ==
    ASSUME TypeOK, Editing, NEW p \in Pazes, AppendPayload(p), pc' \in Patching
    PROVE  Editing'
  <1> DEFINE g == edit.group
             placed == [offset |-> Len(disk[p]) + 1, payload |-> patches]
  <1>1. /\ pc = "append" /\ pc' = "append" /\ p \in edit.rest
        /\ disk' = [disk EXCEPT ![p] = Append(disk[p], patches)]
        /\ edit'.todo = edit.todo /\ edit'.group = g /\ edit'.rest = edit.rest \ {p}
        /\ edit'.index.sums = edit.index.sums
        /\ edit'.index.refs[p] = placed
        /\ \A q \in PazesOf(g) : q # p => edit'.index.refs[q] = edit.index.refs[q]
    BY AppendDoes DEF Failed, Took, RestoreWhole, Patching
  <1>2. UNCHANGED <<base, request, patches>>
    BY <1>1 DEF AppendPayload, Write, RestoreWhole, counters
  <1>3. /\ disk[p] \in Seq(Payloads) /\ Len(disk[p]) \in Nat
        /\ disk'[p] = Append(disk[p], patches)
        /\ \A h \in Files : h # p => disk'[h] = disk[h]
    BY <1>1, Places DEF TypeOK, WellFormed
  <1>4. /\ edit.rest \subseteq request.pazes /\ edit.group \in Dirs
        /\ \A q \in PazesOf(g) : q \in Pazes /\ q \in Files
        /\ \A q \in Pazes : GroupOf[q] \in Files /\ GroupOf[q] # p
        /\ \A h \in Groups : h \in Files /\ h # p
        /\ "pathc" \in Files /\ "pathc" # p
    BY <1>1, AppendFacts, Places
  <1>5. edit.todo \subseteq Groups
    BY <1>1, PatchFacts DEF Patching
  <1>6. ASSUME NEW q \in PazesOf(g)
        PROVE  /\ q \in request.pazes \ edit'.rest =>
                    Placed(edit'.index, disk', q) /\ edit'.index.refs[q].payload = patches
               /\ q \notin request.pazes => edit'.index.refs[q] = base[GroupOf[q]].refs[q]
               /\ edit'.index.sums[q] = base[g].sums[q]
    <2>0. edit'.index.sums[q] = base[g].sums[q]
      BY <1>1 DEF Editing
    <2>1. CASE q = p
      <3>1. placed.offset = Len(disk[p]) + 1 /\ placed.payload = patches
        OBVIOUS
      <3>2. placed.offset \in DOMAIN disk'[p] /\ disk'[p][placed.offset] = patches
        BY <1>3, <3>1
      <3> HIDE DEF placed
      <3>3. edit'.index.refs[q] = placed
        BY <1>1, <2>1
      <3> QED BY <1>1, <1>4, <2>0, <2>1, <3>1, <3>2, <3>3 DEF Placed
    <2>2. CASE q # p
      <3>1. edit'.index.refs[q] = edit.index.refs[q] /\ disk'[q] = disk[q]
        BY <1>1, <1>3, <1>4, <2>2
      <3> QED BY <1>1, <2>0, <2>2, <3>1 DEF Editing, Placed, Replaced, Unchanged
    <2> QED BY <2>1, <2>2
  <1>6a. GroupOf[p] \in edit.todo /\ \A q \in Pazes : q \in Files
    BY <1>1, AppendFacts, Places DEF TypeOK
  <1>7. /\ \A q \in Pazes : disk'[GroupOf[q]] = disk[GroupOf[q]]
        /\ \A q \in Pazes : GroupOf[q] \notin edit.todo => disk'[q] = disk[q]
        /\ \A h \in edit.todo : disk'[h] = disk[h]
        /\ disk'["pathc"] = disk["pathc"]
    BY <1>3, <1>4, <1>5, <1>6a
  <1> HIDE DEF placed
  <1>7a. \A q \in Pazes : q \in request.pazes /\ GroupOf[q] \notin edit'.todo
                    => Placed(disk'[GroupOf[q]], disk', q)
    BY <1>1, <1>7 DEF Editing, Patching, Placed
  <1>8. /\ \A q \in Pazes :
             /\ q \in request.pazes /\ GroupOf[q] \notin edit'.todo
                    => disk'[GroupOf[q]].refs[q].payload = patches
             /\ q \notin request.pazes => disk'[GroupOf[q]].refs[q] = base[GroupOf[q]].refs[q]
        /\ \A h \in edit'.todo : disk'[h] = base[h]
        /\ disk'["pathc"] = base["pathc"]
    BY <1>1, <1>7 DEF Editing, Patching, Replaced, Unchanged
  <1>9. (pc = "append" => \A q \in PazesOf(edit.group) :
             /\ q \in request.pazes \ edit.rest => Placed(edit.index, disk, q) /\ Replaced(edit.index, q)
             /\ q \notin request.pazes => Unchanged(edit.index, q)
             /\ edit.index.sums[q] = base[edit.group].sums[q])'
    BY <1>1, <1>2, <1>6 DEF Replaced, Unchanged
  <1>10. (pc \in Patching =>
         /\ \A q \in Pazes :
              /\ q \in request.pazes /\ GroupOf[q] \notin edit.todo =>
                   Placed(disk[GroupOf[q]], disk, q) /\ Replaced(disk[GroupOf[q]], q)
              /\ q \notin request.pazes => Unchanged(disk[GroupOf[q]], q)
         /\ \A h \in edit.todo : disk[h] = base[h]
         /\ pc \in {"patch", "append", "chain", "meta"} => disk["pathc"] = base["pathc"])'
    BY <1>2, <1>7a, <1>8 DEF Replaced, Unchanged
  <1> QED BY <1>1, <1>9, <1>10 DEF Editing

LEMMA EditingIndex ==
    ASSUME TypeOK, Editing, WriteIndex, pc' \in Patching
    PROVE  Editing'
  <1> DEFINE g == edit.group
  <1>1. /\ pc = "append" /\ edit.rest = {}
        /\ pc' = IF edit.todo = {g} THEN "chain" ELSE "patch"
        /\ disk' = [disk EXCEPT ![g] = NewIndex]
        /\ edit'.todo = edit.todo \ {g}
    BY WriteIndexDoes DEF Failed, Took, RestoreWhole, Patching
  <1>2. UNCHANGED <<base, request, patches>>
    BY <1>1 DEF WriteIndex, Write, RestoreWhole, counters
  <1>3. /\ g \in Dirs /\ g \in Files /\ g # "pathc" /\ "pathc" \in Files
        /\ \A h \in Groups : h \in Files
        /\ \A p \in Pazes : /\ GroupOf[p] \in Files /\ p \in PazesOf(GroupOf[p])
                            /\ p \in Files /\ p # g
    BY <1>1, AppendFacts, Places
  <1>4. /\ disk'[g] = NewIndex
        /\ \A h \in Files : h # g => disk'[h] = disk[h]
    BY <1>1, <1>3 DEF TypeOK, WellFormed
  <1>5. NewIndex.refs = edit.index.refs
    BY <1>1, IndexSummed DEF TypeOK
  <1>6. edit.todo \subseteq Groups
    BY <1>1, PatchFacts DEF Patching
  <1>7. ASSUME NEW p \in Pazes
        PROVE  /\ p \in request.pazes /\ GroupOf[p] \notin edit'.todo =>
                    Placed(disk'[GroupOf[p]], disk', p) /\ disk'[GroupOf[p]].refs[p].payload = patches
               /\ p \notin request.pazes => disk'[GroupOf[p]].refs[p] = base[GroupOf[p]].refs[p]
    <2>1. CASE GroupOf[p] = g
      <3>1. /\ p \in PazesOf(g) /\ disk'[GroupOf[p]].refs[p] = edit.index.refs[p]
            /\ disk'[p] = disk[p]
        BY <1>3, <1>4, <1>5, <2>1
      <3> QED BY <1>1, <3>1 DEF Editing, Replaced, Unchanged, Placed
    <2>2. CASE GroupOf[p] # g
      <3>1. disk'[GroupOf[p]] = disk[GroupOf[p]] /\ disk'[p] = disk[p]
        BY <1>3, <1>4, <2>2
      <3> QED BY <1>1, <2>2, <3>1 DEF Editing, Replaced, Unchanged, Patching, Placed
    <2> QED BY <2>1, <2>2
  <1>8. \A h \in edit'.todo : disk'[h] = base[h]
    BY <1>1, <1>3, <1>4, <1>6 DEF Editing, Patching
  <1>9. disk'["pathc"] = base["pathc"]
    BY <1>1, <1>3, <1>4 DEF Editing, Patching
  <1> QED BY <1>1, <1>2, <1>7, <1>8, <1>9 DEF Editing, Replaced, Unchanged

LEMMA EditingStep ==
    ASSUME TypeOK, Covered, Editing, [Next]_vars
    PROVE  Editing'
  <1>0. pc' \notin Patching => Editing'
    BY DEF Editing, Patching
  <1> USE DEF Patching
  <1>1. \A asked \in Requests : Ask(asked) => pc' \notin Patching
    BY DEF Ask
  <1>2. BackupNotMade \/ Observe \/ Restored \/ Crash \/ Refresh => pc' \notin Patching
    BY DEF BackupNotMade, Observe, Restored, Crash, Refresh, End, RestoreWhole
  <1>3. \A p \in Pazes : AppendTorn(p) => pc' \notin Patching
    BY DEF AppendTorn, RestoreWhole
  <1>4. \A f \in Files : RestoreFile(f) => pc' \notin Patching
    BY DEF RestoreFile, RestoreWhole, End
  <1>5. \A b \in 1 .. MaxPatches : RestoreBackup(b) => pc' \notin Patching
    BY DEF RestoreBackup
  <1>6. Backup => Editing'
    BY EditingBackup
  <1>7. \A g \in Groups : StartGroup(g) => Editing'
    BY EditingStart
  <1>8. \A p \in Pazes : AppendPayload(p) => Editing'
    BY <1>0, EditingAppend
  <1>9. WriteIndex => Editing'
    BY <1>0, EditingIndex
  <1>10. ASSUME WriteMountList, pc' \in Patching PROVE Editing'
    <2>1. /\ pc = "chain" /\ pc' = "meta" /\ disk' = [disk EXCEPT !["papgt"] = edit.raw]
          /\ UNCHANGED <<edit, base, request, patches>>
      BY <1>10 DEF WriteMountList, Write, RestoreWhole, counters
    <2>2. /\ \A p \in Pazes : disk'[GroupOf[p]] = disk[GroupOf[p]] /\ disk'[p] = disk[p]
          /\ disk'["pathc"] = disk["pathc"]
      BY <2>1, Places DEF TypeOK, WellFormed
    <2> QED BY <2>1, <2>2 DEF Editing, Replaced, Unchanged, Placed
  <1>11. ASSUME WriteMeta, pc' \in Patching PROVE Editing'
    <2>1. /\ pc = "meta" /\ pc' = "refresh"
          /\ disk' = [disk EXCEPT !["pathc"] = IF request.meta THEN patches ELSE disk["pathc"]]
          /\ UNCHANGED <<edit, base, request, patches>>
      BY <1>11 DEF WriteMeta, Write, RestoreWhole, counters
    <2>2. /\ \A p \in Pazes : disk'[GroupOf[p]] = disk[GroupOf[p]] /\ disk'[p] = disk[p]
          /\ disk'["pathc"] = IF request.meta THEN patches ELSE disk["pathc"]
      BY <2>1, Places DEF TypeOK, WellFormed
    <2> QED BY <2>1, <2>2 DEF Editing, Replaced, Unchanged, Placed
  <1>12. Cancel \/ UNCHANGED vars => Editing'
    BY DEF Cancel, vars, counters, Editing, Replaced, Unchanged, Placed
  <1> QED BY <1>0, <1>1, <1>2, <1>3, <1>4, <1>5, <1>6, <1>7, <1>8, <1>9, <1>10, <1>11, <1>12 DEF Next

-----------------------------------------------------------------------------
(* The chain of checksums, when the mount list names the directories in the *)
(* order of their folders.                                                  *)

LEMMA SlotFacts ==
    ASSUME SortedDirs = MountOrder, NEW g \in Dirs
    PROVE  /\ Slot(g) \in DOMAIN MountOrder /\ MountOrder[Slot(g)] = g
           /\ \A i \in DOMAIN MountOrder : MountOrder[i] = g => i = Slot(g)
  <1>1. \E i \in DOMAIN SortedDirs : SortedDirs[i] = g
    BY DEF Dirs, Range
  <1>2. Slot(g) \in DOMAIN MountOrder /\ MountOrder[Slot(g)] = g
    BY <1>1 DEF Slot
  <1> QED BY <1>2, LayoutAssumption DEF IsInjective

LEMMA ChainingIndex ==
    ASSUME SortedDirs = MountOrder, TypeOK, Covered, Editing, Chaining, WriteIndex, pc' \in Patching
    PROVE  Chaining'
  <1> DEFINE g == edit.group
  <1>1. /\ pc = "append" /\ edit.rest = {}
        /\ pc' \in {"chain", "patch"}
        /\ disk' = [disk EXCEPT ![g] = NewIndex]
        /\ edit'.todo = edit.todo \ {g}
        /\ edit'.raw = [edit.raw EXCEPT ![Slot(g)] = NewIndex]
    BY WriteIndexDoes DEF Failed, Took, RestoreWhole, Patching
  <1>2. UNCHANGED <<base, request, patches>>
    BY <1>1 DEF WriteIndex, Write, RestoreWhole, counters
  <1>3. /\ g \in Dirs /\ g \in Files
        /\ \A p \in Pazes : /\ GroupOf[p] \in Files /\ p \in Files /\ p # g
                            /\ p \in PazesOf(GroupOf[p])
        /\ \A i \in DOMAIN MountOrder : MountOrder[i] \in Files
    BY <1>1, AppendFacts, Places DEF Dirs, Range
  <1>4. /\ disk'[g] = NewIndex
        /\ \A h \in Files : h # g => disk'[h] = disk[h]
    BY <1>1, <1>3 DEF TypeOK, WellFormed
  <1>5. \A p \in PazesOf(g) : NewIndex.sums[p] = IF p \in request.pazes THEN disk[p] ELSE edit.index.sums[p]
    BY <1>1, IndexSummed DEF TypeOK
  <1> SUFFICES ASSUME Linked(base) PROVE Chaining'
    BY <1>2 DEF Chaining
  <1>6. \A i \in DOMAIN MountOrder : edit.raw[i] = disk[MountOrder[i]]
    BY <1>1 DEF Chaining
  <1>7. ASSUME NEW i \in DOMAIN MountOrder PROVE edit'.raw[i] = disk'[MountOrder[i]]
    <2>1. i \in DOMAIN edit.raw
      BY <1>1, PatchFacts DEF IsMountList, Patching
    <2>2. CASE i = Slot(g)
      BY <1>1, <1>3, <1>4, <2>1, <2>2, SlotFacts
    <2>3. CASE i # Slot(g)
      <3>1. MountOrder[i] # g
        BY <1>3, <2>3, SlotFacts
      <3>2. edit'.raw[i] = edit.raw[i]
        BY <1>1, <2>1, <2>3
      <3> QED BY <1>3, <1>4, <1>6, <3>1, <3>2
    <2> QED BY <2>2, <2>3
  <1>8. ASSUME NEW p \in Pazes, GroupOf[p] \notin edit'.todo
        PROVE  disk'[GroupOf[p]].sums[p] = disk'[p]
    <2>1. disk'[p] = disk[p]
      BY <1>3, <1>4
    <2>2. CASE GroupOf[p] = g
      <3>1. p \in PazesOf(g) /\ disk'[GroupOf[p]] = NewIndex
        BY <1>3, <1>4, <2>2
      <3>2. CASE p \in request.pazes
        BY <1>5, <2>1, <3>1, <3>2
      <3>3. CASE p \notin request.pazes
        <4>1. NewIndex.sums[p] = base[g].sums[p]
          BY <1>1, <1>5, <3>1, <3>3 DEF Editing
        <4>2. base[g].sums[p] = base[p]
          BY <2>2 DEF Linked
        <4>3. p \notin Touched(request) /\ backups[source].files = Touched(request)
          BY <1>1, <3>3, PatchFacts, TouchedFiles DEF Covered, Patching
        <4>4. disk[p] = base[p]
          BY <1>1, <1>3, <4>3 DEF Covered
        <4> QED BY <2>1, <3>1, <4>1, <4>2, <4>4
      <3> QED BY <3>2, <3>3
    <2>3. CASE GroupOf[p] # g
      BY <1>1, <1>3, <1>4, <1>8, <2>1, <2>3 DEF Chaining, Patching
    <2> QED BY <2>2, <2>3
  <1> QED BY <1>1, <1>7, <1>8 DEF Chaining

LEMMA ChainingAppend ==
    ASSUME TypeOK, Chaining, NEW p \in Pazes, AppendPayload(p), pc' \in Patching
    PROVE  Chaining'
  <1>1. /\ pc = "append" /\ pc' = "append" /\ p \in edit.rest
        /\ disk' = [disk EXCEPT ![p] = Append(disk[p], patches)]
        /\ edit'.todo = edit.todo /\ edit'.raw = edit.raw
    BY AppendDoes DEF Failed, Took, RestoreWhole, Patching
  <1>2. base' = base
    BY <1>1 DEF AppendPayload
  <1>3. \A h \in Files : h # p => disk'[h] = disk[h]
    BY <1>1, Places DEF TypeOK, WellFormed
  <1>4. GroupOf[p] \in edit.todo
    BY <1>1, AppendFacts DEF TypeOK
  <1>5. /\ \A q \in Pazes : GroupOf[q] \in Files /\ GroupOf[q] # p /\ q \in Files
        /\ \A i \in DOMAIN MountOrder : MountOrder[i] \in Files /\ MountOrder[i] # p
    BY Places DEF Dirs, Range
  <1>6. /\ \A i \in DOMAIN MountOrder : disk'[MountOrder[i]] = disk[MountOrder[i]]
        /\ \A q \in Pazes : disk'[GroupOf[q]] = disk[GroupOf[q]]
        /\ \A q \in Pazes : GroupOf[q] \notin edit.todo => disk'[q] = disk[q]
    BY <1>3, <1>4, <1>5
  <1> QED BY <1>1, <1>2, <1>6 DEF Chaining, Patching

LEMMA ChainingStep ==
    ASSUME SortedDirs = MountOrder, TypeOK, Covered, Editing, Chaining, [Next]_vars
    PROVE  Chaining'
  <1>0. pc' \notin Patching => Chaining'
    BY DEF Chaining, Patching
  <1> USE DEF Patching
  <1>1. \A asked \in Requests : Ask(asked) => pc' \notin Patching
    BY DEF Ask
  <1>2. BackupNotMade \/ Observe \/ Restored \/ Crash \/ Refresh => pc' \notin Patching
    BY DEF BackupNotMade, Observe, Restored, Crash, Refresh, End, RestoreWhole
  <1>3. \A p \in Pazes : AppendTorn(p) => pc' \notin Patching
    BY DEF AppendTorn, RestoreWhole
  <1>4. \A f \in Files : RestoreFile(f) => pc' \notin Patching
    BY DEF RestoreFile, RestoreWhole, End
  <1>5. \A b \in 1 .. MaxPatches : RestoreBackup(b) => pc' \notin Patching
    BY DEF RestoreBackup
  <1>6. ASSUME Backup PROVE Chaining'
    <2>1. /\ pc' = "patch" /\ disk = base /\ UNCHANGED <<disk, base>>
          /\ edit'.raw = disk["papgt"]
      BY <1>6 DEF Backup, Covered
    <2> QED BY <2>1 DEF Chaining, Linked
  <1>7. ASSUME NEW g \in Groups, StartGroup(g) PROVE Chaining'
    <2>1. pc = "patch" /\ pc' = "append" /\ UNCHANGED <<disk, base>>
      BY <1>7 DEF StartGroup
    <2>2. edit'.raw = edit.raw /\ edit'.todo = edit.todo
      BY <1>7, StartGroupDoes
    <2> QED BY <2>1, <2>2 DEF Chaining
  <1>8. \A p \in Pazes : AppendPayload(p) => Chaining'
    BY <1>0, ChainingAppend
  <1>9. WriteIndex => Chaining'
    BY <1>0, ChainingIndex
  <1>10. /\ \A p \in Pazes : p \in Files /\ p # "papgt" /\ p # "pathc"
                             /\ GroupOf[p] \in Files /\ GroupOf[p] # "papgt" /\ GroupOf[p] # "pathc"
         /\ \A i \in DOMAIN MountOrder :
                MountOrder[i] \in Files /\ MountOrder[i] # "papgt" /\ MountOrder[i] # "pathc"
         /\ "papgt" \in Files /\ "pathc" \in Files
    BY Places DEF Dirs, Range
  <1>11. ASSUME WriteMountList, pc' \in Patching PROVE Chaining'
    <2>1. /\ pc = "chain" /\ pc' = "meta" /\ disk' = [disk EXCEPT !["papgt"] = edit.raw]
          /\ UNCHANGED <<edit, base>>
      BY <1>11 DEF WriteMountList, Write, RestoreWhole
    <2>2. /\ disk'["papgt"] = edit.raw
          /\ \A h \in Files : h # "papgt" => disk'[h] = disk[h]
      BY <1>10, <2>1 DEF TypeOK, WellFormed
    <2> QED BY <1>10, <2>1, <2>2 DEF Chaining
  <1>12. ASSUME WriteMeta, pc' \in Patching PROVE Chaining'
    <2>1. /\ pc = "meta" /\ pc' = "refresh"
          /\ disk' = [disk EXCEPT !["pathc"] = IF request.meta THEN patches ELSE disk["pathc"]]
          /\ UNCHANGED <<edit, base>>
      BY <1>12 DEF WriteMeta, Write, RestoreWhole
    <2>2. \A h \in Files : h # "pathc" => disk'[h] = disk[h]
      BY <2>1 DEF TypeOK, WellFormed
    <2>3. "papgt" # "pathc"
      OBVIOUS
    <2> QED BY <1>10, <2>1, <2>2, <2>3 DEF Chaining
  <1>13. Cancel \/ UNCHANGED vars => Chaining'
    BY DEF Cancel, vars, Chaining
  <1> QED BY <1>0, <1>1, <1>2, <1>3, <1>4, <1>5, <1>6, <1>7, <1>8, <1>9, <1>11, <1>12, <1>13 DEF Next

-----------------------------------------------------------------------------
(* A patch that reports success. *)

LEMMA DoneStep ==
    ASSUME TypeOK, Covered, Editing, Done, [Next]_vars
    PROVE  Done'
  <1>1. CASE pc' # "idle" \/ verdict' # "done"
    BY <1>1 DEF Done
  <1>2. CASE pc = "idle" /\ UNCHANGED vars
    BY <1>2 DEF Done, vars, counters, Reads
  <1>3. CASE Refresh /\ pc' = "idle"
    <2>1. pc = "refresh" /\ UNCHANGED <<disk, base, request>>
      BY <1>3 DEF Refresh
    <2>2. patches' = patches
      BY <1>3 DEF Refresh, RestoreWhole, Fails, counters
    <2>3. backups[source].files = Touched(request) /\ request \in Requests
      BY <2>1, PatchFacts DEF Covered, Patching
    <2>4. ASSUME NEW p \in Pazes
          PROVE  Reads(disk, p) = IF p \in request.pazes THEN patches ELSE Reads(base, p)
      <3>2. CASE p \in request.pazes
        <4>1. Placed(disk[GroupOf[p]], disk, p) /\ Replaced(disk[GroupOf[p]], p)
          BY <2>1, <3>2 DEF Editing, Patching
        <4> QED BY <3>2, <4>1 DEF Placed, Replaced, Reads
      <3>3. CASE p \notin request.pazes
        <4>1. disk[GroupOf[p]].refs[p] = base[GroupOf[p]].refs[p]
          BY <2>1, <3>3 DEF Editing, Patching, Unchanged
        <4>2. disk[p] = base[p]
          BY <2>1, <2>3, <3>3, Places, TouchedFiles DEF Covered
        <4> QED BY <3>3, <4>1, <4>2 DEF Reads
      <3> QED BY <3>2, <3>3
    <2>5. disk["pathc"] = IF request.meta THEN patches ELSE base["pathc"]
      BY <2>1 DEF Editing
    <2> QED BY <2>1, <2>2, <2>4, <2>5 DEF Done, Reads
  <1>4. CASE pc # "idle" /\ pc' = "idle" /\ verdict' = "done"
    BY <1>3, <1>4, Frame DEF Ask, Backup, RestoreBackup
  <1> QED BY <1>1, <1>2, <1>4, Frame DEF Ask, Backup, RestoreBackup

LEMMA DoneLinkedStep ==
    ASSUME TypeOK, Editing, Chaining, DoneLinked, [Next]_vars
    PROVE  DoneLinked'
  <1>1. CASE pc' # "idle" \/ verdict' # "done"
    BY <1>1 DEF DoneLinked
  <1>2. CASE pc = "idle" /\ UNCHANGED vars
    BY <1>2 DEF DoneLinked, vars
  <1>3. CASE Refresh /\ pc' = "idle"
    <2>1. pc = "refresh" /\ UNCHANGED <<disk, base>>
      BY <1>3 DEF Refresh
    <2>2. edit.todo = {}
      BY <2>1 DEF Editing
    <2>3. Linked(base) => Linked(disk)
      BY <2>1, <2>2 DEF Chaining, Linked, Patching
    <2> QED BY <2>1, <2>3 DEF DoneLinked
  <1>4. CASE pc # "idle" /\ pc' = "idle" /\ verdict' = "done"
    BY <1>3, <1>4, Frame DEF Ask, Backup, RestoreBackup
  <1> QED BY <1>1, <1>2, <1>4, Frame DEF Ask, Backup, RestoreBackup

-----------------------------------------------------------------------------
(* The theorems. *)

LEMMA InitInv == Init => Inv
  <1> SUFFICES ASSUME Init PROVE Inv
    OBVIOUS
  <1>1. TypeOK
    BY InitTyped
  <1>2. DOMAIN backups = {} /\ pc = "idle" /\ verdict = "none"
    BY DEF Init
  <1>3. ASSUME NEW p \in Pazes PROVE Placed(disk[GroupOf[p]], disk, p)
    <2>1. disk[p] = <<0>> /\ disk[GroupOf[p]] = Index(GroupOf[p]) /\ p \in PazesOf(GroupOf[p])
      BY Places DEF Init
    <2>2. disk[GroupOf[p]].refs[p] = [offset |-> 1, payload |-> 0]
      BY <2>1 DEF Index
    <2> QED BY <2>1, <2>2 DEF Placed
  <1> QED BY <1>1, <1>2, <1>3 DEF Inv, Ordered, Covered, PutBack, BackupsSound, Sound, Kept, Restores,
             Editing, Done, Live, Patching, Restoring

LEMMA InvStep == Inv /\ [Next]_vars => Inv'
  <1> SUFFICES ASSUME Inv, [Next]_vars PROVE Inv'
    OBVIOUS
  <1>1. TypeOK' /\ Covered' /\ PutBack'
    BY TypeStep, CoveredStep, PutBackStep DEF Inv
  <1>2. Editing' /\ Done'
    BY EditingStep, DoneStep DEF Inv
  <1>3. ASSUME inOrder' PROVE BackupsSound' /\ Sound(disk)' /\ Kept' /\ Restores'
    <2>1. BackupsSound /\ Sound(disk) /\ Kept /\ Restores
      BY <1>3, InOrderStep DEF Inv, Ordered
    <2> QED BY <1>3, <2>1, BackupsSoundStep, SoundStep, KeptStep, RestoresStep DEF Inv
  <1> QED BY <1>1, <1>2, <1>3 DEF Inv, Ordered

\* The invariant that holds the parts together.
THEOREM InvAlways == Spec => []Inv
  <1> QED BY InitInv, InvStep, PTL DEF Spec

\* Until a patch is taken back below a later one, every entry of every index on
\* disk reads as the payload it was written for, at every moment of appending,
\* of replacing an index and of restoring: _append_paz_payload only appends, and
\* _restore_backup meets an index before its PAZ files.
THEOREM EntriesAlwaysReadable == Spec => []EntriesReadable
  <1>1. Inv => EntriesReadable
    BY DEF Inv, Ordered, Sound, Placed, EntriesReadable, Reads
  <1> QED BY <1>1, InvAlways, PTL

\* A patch that reports success has done what it was asked to and nothing else,
\* one that reports an error has changed nothing unless restoring failed, and a
\* restored backup gives back the files it holds and touches no other, whatever
\* was restored before; all files are as they were before the patch if patches
\* were undone in reverse order.
THEOREM OutcomeAlwaysExact == Spec => []OutcomeExact
  <1>1. Inv => OutcomeExact
    BY DEF Inv, Ordered, Done, PutBack, Restores, OutcomeExact, Before
  <1> QED BY <1>1, InvAlways, PTL

\* Where the records of the mount list are in the order of the folders, as
\* _papgt_crc_offset supposes (no overlay is mounted), operations that come to
\* a clean end keep the chain of checksums linked.
THEOREM ChainAlwaysMaintained ==
    ASSUME SortedDirs = MountOrder
    PROVE  Spec => []ChainMaintained
  <1>1. Init => Chaining /\ DoneLinked
    BY DEF Init, Chaining, DoneLinked, Patching
  <1>2. Inv /\ Chaining /\ DoneLinked /\ [Next]_vars => (Chaining /\ DoneLinked)'
    BY ChainingStep, DoneLinkedStep DEF Inv
  <1>3. Inv /\ DoneLinked => ChainMaintained
    BY DEF Inv, Ordered, DoneLinked, PutBack, Restores, ChainMaintained, Before
  <1> QED BY <1>1, <1>2, <1>3, InvAlways, PTL DEF Spec

==============================================================================
