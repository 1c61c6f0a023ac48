----------------------------- MODULE ArchivePatch -----------------------------
(***************************************************************************)
(* Patching the game's archives under a backup, as                         *)
(* ArchiveMutationService.apply_patch and restore_backup do with           *)
(* core/archive_patching.py and core/archive_entry_addition.py.            *)
(*                                                                         *)
(* An archive directory has PAZ files, which hold the payloads, and an     *)
(* index (0.pamt), which gives for each entry the place of its payload and *)
(* for each PAZ file its checksum.  meta/0.papgt gives for each mounted    *)
(* directory the checksum of its index.  A checksum is represented by what *)
(* it is computed from.  One entry stands for those of a PAZ file.         *)
(*                                                                         *)
(* The installation lane lets one patch or restore run at a time.  Any     *)
(* write may fail before or after its effect, an append halfway as well;   *)
(* the user may cancel at any moment, which the patch finds out when it    *)
(* next logs a line; and the process may die anywhere.                     *)
(***************************************************************************)
EXTENDS Naturals, Sequences, Functions

CONSTANTS Pazes,        \* PAZ files of the shipped directories
          GroupOf,      \* the directory of each
          SortedDirs,   \* directories with an index in the game folder, sorted
          MountOrder,   \* directories in the order of the records of 0.papgt
          FileOrder,    \* all files that can be backed up, sorted by path
          Requests,     \* what patches may ask for: payloads for entries, and
                        \* whether a loose index file (0.pathc) comes along
          Torn, None,   \* a payload that was not written completely; nothing
          MaxPatches, MaxFailures, MaxCrashes   \* bounds

Dirs == Range(MountOrder)
Groups == {GroupOf[p] : p \in Pazes}
Files == Pazes \cup Dirs \cup {"papgt", "pathc"}
PazesOf(g) == {p \in Pazes : GroupOf[p] = g}

\* The manifest lists the files sorted by path, and the restore follows it.
Precedes(f, g) ==
    \E i, j \in DOMAIN FileOrder : i < j /\ FileOrder[i] = f /\ FileOrder[j] = g

\* An index ("0.pamt") sorts before the PAZ files of its directory.
ASSUME LayoutAssumption ==
    /\ GroupOf \in [Pazes -> Dirs]
    /\ Pazes \cap Dirs = {} /\ {"papgt", "pathc"} \cap (Pazes \cup Dirs) = {}
    /\ IsInjective(MountOrder) /\ IsInjective(SortedDirs) /\ IsInjective(FileOrder)
    /\ Range(SortedDirs) = Dirs
    /\ Range(FileOrder) = Pazes \cup Groups \cup {"papgt", "pathc"}
    /\ DOMAIN FileOrder \subseteq Nat
    /\ \A p \in Pazes : Precedes(GroupOf[p], p)

ASSUME RequestsAssumption ==
    Requests \subseteq [pazes : (SUBSET Pazes) \ {{}}, meta : BOOLEAN]

ASSUME BoundsAssumption == {MaxPatches, MaxFailures, MaxCrashes} \subseteq Nat

VARIABLES
    disk,               \* the contents of every file
    backups,            \* complete backups (with a manifest), by the patch they belong to
    pc, request,        \* the next line to run, the patch under way
    edit,               \* what the patch holds in memory: papgt_raw, the groups
                        \* still to be written, the one being edited, its index
                        \* and its payloads still to be written
    source, left,       \* the backup of this operation, files still to be restored
    cancelled,          \* the stop event
    verdict, base,      \* history: how the last operation ended, and the
                        \* files as it found them
    undone, inOrder,    \* history: backups that are restored, and whether each
                        \* was that of the latest patch not yet undone
    patches, failures, crashes

restoring == <<source, left, undone, inOrder>>
counters == <<patches, failures, crashes>>
vars == <<disk, backups, pc, request, edit, restoring, cancelled, verdict, base, counters>>

\* A shipped index: each entry's payload is the first of its PAZ file.
Index(g) == [refs |-> [p \in PazesOf(g) |-> [offset |-> 1, payload |-> 0]],
             sums |-> [p \in PazesOf(g) |-> <<0>>]]

Init ==
    /\ disk = [f \in Files |-> IF f \in Pazes THEN <<0>>
                               ELSE IF f \in Dirs THEN Index(f)
                               ELSE IF f = "papgt" THEN [i \in DOMAIN MountOrder |-> Index(MountOrder[i])]
                               ELSE 0]
    /\ backups = <<>>
    /\ pc = "idle"
    /\ request = [pazes |-> {}, meta |-> FALSE]
    /\ edit = None
    /\ source = 0 /\ left = {}
    /\ cancelled = FALSE
    /\ verdict = "none" /\ base = disk
    /\ undone = {} /\ inOrder = TRUE
    /\ patches = 0 /\ failures = 0 /\ crashes = 0

Fails == failures < MaxFailures /\ failures' = failures + 1 /\ UNCHANGED <<patches, crashes>>

\* A plausible slip: the loose index files are not backed up.
ArchivesTouched(asked) ==
    asked.pazes \cup {GroupOf[p] : p \in asked.pazes} \cup {"papgt"}

\* backup_targets: all files a patch may touch.
Touched(asked) ==
    asked.pazes \cup {GroupOf[p] : p \in asked.pazes} \cup {"papgt"}
        \cup (IF asked.meta THEN {"pathc"} ELSE {})

RestoreWhole(line) ==
    /\ pc' = line
    /\ left' = backups[source].files
    /\ edit' = None
    /\ UNCHANGED <<source, undone, inOrder, verdict>>

End(answer) == pc' = "idle" /\ verdict' = answer /\ left' = {} /\ cancelled' = FALSE /\ edit' = None

-----------------------------------------------------------------------------
(* apply_patch: preflight and backup *)

Ask(asked) ==
    /\ pc = "idle" /\ patches < MaxPatches
    /\ patches' = patches + 1
    /\ request' = asked
    /\ base' = disk
    /\ cancelled' = FALSE
    /\ verdict' = "open"
    /\ pc' = "backup"
    /\ UNCHANGED <<disk, backups, edit, restoring, failures, crashes>>

\* The last chance to stop before the backup, which then runs to completion.
\* Its manifest is written last.
Backup ==
    /\ pc = "backup" /\ ~cancelled
    /\ backups' = [b \in DOMAIN backups \cup {patches} |->
                      IF b = patches THEN [files |-> Touched(request), before |-> disk]
                                     ELSE backups[b]]
    /\ source' = patches
    /\ edit' = [raw |-> disk["papgt"], todo |-> {GroupOf[p] : p \in request.pazes},
                group |-> None, index |-> None, rest |-> {}]
    /\ pc' = "patch"
    /\ UNCHANGED <<disk, request, left, undone, inOrder, cancelled, verdict, base, counters>>

\* Cancelled, or copying failed: there is nothing to restore.
BackupNotMade ==
    /\ pc = "backup"
    /\ IF cancelled THEN UNCHANGED counters ELSE Fails
    /\ End("undone")
    /\ UNCHANGED <<disk, backups, request, source, undone, inOrder, base>>

-----------------------------------------------------------------------------
(* _run_archive_mutation: one group after the other, then the mount list *)

\* A line of the try block that writes the file f: it may fail before or after
\* it has taken effect, and the files are then restored.  held is what the
\* patch holds in memory after it.
Write(f, contents, held, line) ==
    \/ /\ disk' = [disk EXCEPT ![f] = contents]
       /\ pc' = line
       /\ edit' = held
       /\ UNCHANGED <<restoring, verdict, counters>>
    \/ /\ disk' \in {disk, [disk EXCEPT ![f] = contents]}
       /\ Fails
       /\ RestoreWhole("inner")

StartGroup(g) ==
    /\ pc = "patch" /\ ~cancelled
    /\ g \in edit.todo
    /\ edit' = [edit EXCEPT !.group = g, !.index = disk[g],
                            !.rest = request.pazes \cap PazesOf(g)]
    /\ pc' = "append"
    /\ UNCHANGED <<disk, backups, request, restoring, cancelled, verdict, base, counters>>

\* A plausible slip: the payload replaces the entry's old one.
WriteOver(p) ==
    /\ pc = "append" /\ ~cancelled /\ p \in edit.rest
    /\ Write(p, [disk[p] EXCEPT ![edit.index.refs[p].offset] = patches],
             [edit EXCEPT !.index.refs[p].payload = patches, !.rest = @ \ {p}], "append")
    /\ UNCHANGED <<backups, request, cancelled, base>>

\* The new payload goes behind what the PAZ file holds, the entry points there.
AppendPayload(p) ==
    /\ pc = "append" /\ ~cancelled /\ p \in edit.rest
    /\ LET placed == [offset |-> Len(disk[p]) + 1, payload |-> patches]
       IN  Write(p, Append(disk[p], patches),
                 [edit EXCEPT !.index.refs[p] = placed, !.rest = @ \ {p}], "append")
    /\ UNCHANGED <<backups, request, cancelled, base>>

AppendTorn(p) ==
    /\ pc = "append" /\ ~cancelled /\ p \in edit.rest
    /\ disk' = [disk EXCEPT ![p] = Append(@, Torn)]
    /\ Fails
    /\ RestoreWhole("inner")
    /\ UNCHANGED <<backups, request, cancelled, base>>

\* _papgt_crc_offset: the record of a group is found by its place among the
\* directories in the game folder.
Slot(g) == CHOOSE i \in DOMAIN SortedDirs : SortedDirs[i] = g

\* The index takes the checksums of the PAZ files that grew.
NewIndex ==
    [edit.index EXCEPT !.sums =
        [p \in PazesOf(edit.group) |-> IF p \in request.pazes THEN disk[p] ELSE @[p]]]

WriteIndex ==
    /\ pc = "append" /\ ~cancelled /\ edit.rest = {}
    /\ Write(edit.group, NewIndex,
             [edit EXCEPT !.raw[Slot(edit.group)] = NewIndex, !.todo = @ \ {edit.group}],
             IF edit.todo = {edit.group} THEN "chain" ELSE "patch")
    /\ UNCHANGED <<backups, request, cancelled, base>>

\* A plausible slip: the records are checked, but the list is not written.
ListUnwritten ==
    /\ pc = "chain" /\ ~cancelled
    /\ Write("papgt", disk["papgt"], edit, "meta")
    /\ UNCHANGED <<backups, request, cancelled, base>>

\* The check that follows compares each file with its own checksum only, which
\* was just computed: it cannot fail but for an error of reading.
WriteMountList ==
    /\ pc = "chain" /\ ~cancelled
    /\ Write("papgt", edit.raw, edit, "meta")
    /\ UNCHANGED <<backups, request, cancelled, base>>

WriteMeta ==
    /\ pc = "meta" /\ ~cancelled
    /\ Write("pathc", IF request.meta THEN patches ELSE disk["pathc"], edit, "refresh")
    /\ UNCHANGED <<backups, request, cancelled, base>>

\* The changed entries are read back, outside the try block but inside that of
\* the service.
Refresh ==
    /\ pc = "refresh" /\ ~cancelled
    /\ \/ End("done") /\ UNCHANGED <<source, undone, inOrder, counters>>
       \/ Fails /\ RestoreWhole("outer") /\ UNCHANGED cancelled
    /\ UNCHANGED <<disk, backups, request, base>>

-----------------------------------------------------------------------------
(* cancellation, restore, crash *)

Cancel ==
    /\ pc \notin {"idle", "outer", "restoring"} /\ ~cancelled
    /\ cancelled' = TRUE
    /\ UNCHANGED <<disk, backups, pc, request, edit, restoring, verdict, base, counters>>

\* A plausible slip: a patch whose mount list is out is not taken back.
ObserveEarly ==
    /\ pc \in {"patch", "append", "chain", "inner", "meta", "refresh"} /\ cancelled
    /\ IF pc \in {"meta", "refresh"}
       THEN End("undone") /\ UNCHANGED <<source, undone, inOrder>>
       ELSE RestoreWhole("outer") /\ UNCHANGED cancelled
    /\ UNCHANGED <<disk, backups, request, base, counters>>

\* guarded_log raises in the try block.  Its handler logs, too, and so the
\* inner restore is not begun, or is broken off: the service restores.
Observe ==
    /\ pc \in {"patch", "append", "chain", "inner", "meta", "refresh"} /\ cancelled
    /\ RestoreWhole("outer")
    /\ UNCHANGED <<disk, backups, request, cancelled, base, counters>>

\* _restore_backup: the next file is copied beside its target and replaces it.
RestoreFile(f) ==
    /\ pc \in {"inner", "outer", "restoring"}
    /\ f \in left /\ \A other \in left \ {f} : Precedes(f, other)
    /\ pc = "inner" => ~cancelled
    /\ LET restored == [disk EXCEPT ![f] = backups[source].before[f]]
       IN  \/ /\ disk' = restored
              /\ left' = left \ {f}
              /\ UNCHANGED <<pc, edit, source, undone, inOrder, cancelled, verdict, counters>>
           \/ /\ disk' \in {disk, restored}
              /\ Fails
              /\ IF pc = "inner" THEN RestoreWhole("outer") /\ UNCHANGED cancelled
                 ELSE End("partial") /\ UNCHANGED <<source, undone, inOrder>>
    /\ UNCHANGED <<backups, request, base>>

\* The inner restore raises the error on, and the service restores once more.
Restored ==
    /\ pc \in {"inner", "outer", "restoring"} /\ left = {}
    /\ IF pc = "inner" THEN ~cancelled /\ RestoreWhole("outer") /\ UNCHANGED cancelled
       ELSE /\ End(IF pc = "outer" THEN "undone" ELSE "restored")
            /\ undone' = undone \cup {source}
            /\ UNCHANGED <<source, inOrder>>
    /\ UNCHANGED <<disk, backups, request, base, counters>>

\* restore_backup: the user picks any backup folder.
RestoreBackup(b) ==
    /\ pc = "idle"
    /\ b \in DOMAIN backups \ undone
    /\ inOrder' = (inOrder /\ \A later \in DOMAIN backups \ undone : later <= b)
    /\ source' = b
    /\ left' = backups[b].files
    /\ base' = disk
    /\ verdict' = "open"
    /\ pc' = "restoring"
    /\ UNCHANGED <<disk, backups, request, edit, undone, cancelled, counters>>

\* The process dies: an append may be cut off.
Crash ==
    /\ pc # "idle" /\ crashes < MaxCrashes
    /\ crashes' = crashes + 1
    /\ \/ disk' = disk
       \/ /\ pc = "append"
          /\ \E p \in edit.rest : disk' = [disk EXCEPT ![p] = Append(@, Torn)]
    /\ End("crashed")
    /\ UNCHANGED <<backups, request, source, undone, inOrder, base, patches, failures>>

Next ==
    \/ \E asked \in Requests : Ask(asked)
    \/ Backup \/ BackupNotMade
    \/ \E g \in Groups : StartGroup(g)
    \/ \E p \in Pazes : AppendPayload(p) \/ AppendTorn(p)
    \/ WriteIndex \/ WriteMountList \/ WriteMeta \/ Refresh
    \/ Cancel \/ Observe \/ Restored
    \/ \E f \in Files : RestoreFile(f)
    \/ \E b \in 1 .. MaxPatches : RestoreBackup(b)
    \/ Crash

Spec == Init /\ [][Next]_vars

-----------------------------------------------------------------------------
(* properties *)

Payloads == 0 .. MaxPatches \cup {Torn}

Indexes(g) == [refs : [PazesOf(g) -> [offset : Nat, payload : Payloads]],
               sums : [PazesOf(g) -> Seq(Payloads)]]

IsMountList(raw) == raw = [i \in DOMAIN MountOrder |-> raw[i]]

Edits(raws, indexes) == [raw : raws, todo : SUBSET Groups, group : Groups \cup {None},
                         index : indexes, rest : SUBSET Pazes]

IsEdit(held) == held \in Edits({held.raw}, {held.index})

\* Every file holds contents of its kind.
WellFormed(files) ==
    /\ files = [f \in Files |-> files[f]]
    /\ \A p \in Pazes : files[p] \in Seq(Payloads)
    /\ \A g \in Dirs : files[g] \in Indexes(g)
    /\ IsMountList(files["papgt"])
    /\ files["pathc"] \in 0 .. MaxPatches

Restoring == {"inner", "outer", "restoring"}
Patching == {"patch", "append", "chain", "meta", "refresh"}

TypeOK ==
    /\ WellFormed(disk) /\ WellFormed(base)
    /\ DOMAIN backups \subseteq 0 .. patches
    /\ \A b \in DOMAIN backups :
           /\ WellFormed(backups[b].before)
           /\ \E asked \in Requests : backups[b].files = Touched(asked)
    /\ pc \in {"idle", "backup"} \cup Patching \cup Restoring
    /\ pc \notin {"idle", "restoring"} => request \in Requests
    /\ pc \in Patching =>
           /\ IsEdit(edit) /\ IsMountList(edit.raw)
           /\ edit.todo \subseteq {GroupOf[p] : p \in request.pazes}
    /\ pc = "append" =>
           /\ edit.group \in edit.todo
           /\ edit.index \in Indexes(edit.group)
           /\ edit.rest \subseteq request.pazes \cap PazesOf(edit.group)
    /\ IF pc \in {"idle", "backup"} THEN left = {}
       ELSE source \in DOMAIN backups /\ left \subseteq backups[source].files
    /\ cancelled \in BOOLEAN
    /\ verdict \in {"none", "open", "done", "undone", "partial", "restored", "crashed"}
    /\ undone \subseteq DOMAIN backups /\ inOrder \in BOOLEAN
    /\ patches \in 0 .. MaxPatches /\ failures \in 0 .. MaxFailures
    /\ crashes \in 0 .. MaxCrashes

\* What an entry reads as: the payload at its place, if there is one.
Reads(files, p) ==
    LET ref == files[GroupOf[p]].refs[p]
    IN  IF ref.offset \in DOMAIN files[p] THEN files[p][ref.offset] ELSE Torn

\* At every moment, and so after a crash, every entry of every index on disk
\* reads as the payload it was written for ("keeps the previous archive bytes
\* intact until the updated PAMT has been written", _append_paz_payload):
\* while patching, while restoring (an index is restored before its PAZ files,
\* which sort behind it) and however often either is interrupted, until a user
\* takes back a patch below a later one.
EntriesReadable ==
    inOrder => \A p \in Pazes : Reads(disk, p) = disk[GroupOf[p]].refs[p].payload

\* A patch that reports success has replaced what it was asked to, and nothing
\* else; one that reports an error has changed nothing, unless restoring
\* failed; and a restored backup gives back what it holds and touches nothing
\* else, in whatever order backups are picked.  Where the latest patch goes
\* first, all files are as they were before the patch, however later patches
\* were interrupted and undone.
OutcomeExact ==
    pc = "idle" =>
        /\ verdict = "done" =>
               /\ \A p \in Pazes : Reads(disk, p) =
                      IF p \in request.pazes THEN patches ELSE Reads(base, p)
               /\ disk["pathc"] = IF request.meta THEN patches ELSE base["pathc"]
        /\ verdict = "undone" => disk = base
        /\ verdict = "restored" =>
               /\ \A f \in Files : disk[f] = IF f \in backups[source].files
                                            THEN backups[source].before[f] ELSE base[f]
               /\ inOrder => disk = backups[source].before

\* Whenever a patch may have to be taken back (it is under way, its process
\* died, or restoring failed) its backup on disk covers every file that is not
\* as the patch found it.
BackupCovers ==
    pc \notin {"idle", "restoring"} \/ verdict \in {"crashed", "partial"} =>
        \A f \in Files : disk[f] # base[f] =>
            /\ source \in DOMAIN backups
            /\ f \in backups[source].files

\* The chain of checksums: each record of the mount list belongs to the index
\* of its directory, each index to its PAZ files.
Linked(files) ==
    /\ \A i \in DOMAIN MountOrder : files["papgt"][i] = files[MountOrder[i]]
    /\ \A p \in Pazes : files[GroupOf[p]].sums[p] = files[p]

\* "That checksum makes the file the head of the checksum chain the patcher
\* maintains" (papgt_format.py): an operation that comes to a clean end leaves
\* the chain linked, if it was; a restored backup does, if it holds linked files
\* and no patch was taken back below a later one.
ChainMaintained ==
    /\ pc = "idle" /\ verdict \in {"done", "undone", "restored"}
    /\ Linked(base)
    /\ verdict = "restored" => inOrder /\ Linked(backups[source].before)
    => Linked(disk)

==============================================================================
