----------------------------- MODULE OverlayPlans -----------------------------
(***************************************************************************)
(* The changes that run under OverlayTargetRecovery: which files each      *)
(* caller writes, in which order, and where it may still stop.  An overlay *)
(* is an archive directory of its own (owner marker, 0.paz, 0.pamt) that   *)
(* the mount list meta/0.papgt names; an install either creates it or      *)
(* rewrites the one that is mounted already.                               *)
(***************************************************************************)
EXTENDS OverlayRecovery

\* All a plan tells apart of what it finds and writes.
ASSUME PlanContentsAssumption == {"old", "older", "new"} \subseteq Contents

Directory == {"marker", "paz", "pamt"}

Files == Directory \cup
    {"papgt", "pathc",                  \* meta/0.papgt and meta/0.pathc
     "group",                           \* the archive index of a shipped group
     "baseline", "receipt",             \* kept by the legacy install
     "index", "layer", "retired",       \* .cdmw/overlays.json, a layer's journal
                                        \* and the history of retired sets
     "registry"}                        \* .cdmw/independent-items.json

Before(existing, created) ==
    [p \in existing \cup created |-> IF p \in existing THEN "old" ELSE Missing]
Write(p, contents) == [after |-> [q \in {p} |-> contents], from |-> None]
Put(p) == Write(p, "new")
PutOlder(p) == Write(p, "older")
Delete(p) == Write(p, Missing)

\* A plausible slip: the mount list goes out before the archive's index.
InstallMountsEarly(mounted) ==
    LET own == Directory \cup {"baseline", "receipt"}
    IN  [before |-> Before({"pathc", "papgt"} \cup IF mounted THEN own ELSE {},
                           IF mounted THEN {} ELSE own),
         steps |-> (IF mounted THEN <<>> ELSE <<Put("baseline")>>)
                   \o <<Put("marker"), Put("paz"), Put("papgt"), Put("pamt"),
                        Put("pathc"), Put("receipt")>>,
         stops |-> {"paz", "pamt", "pathc", "receipt", "papgt"},
         backups |-> BOOLEAN, confirms |-> TRUE]

\* apply_overlay_install: baselines first, the mount list last.
Install(mounted) ==
    LET own == Directory \cup {"baseline", "receipt"}
    IN  [before |-> Before({"pathc", "papgt"} \cup IF mounted THEN own ELSE {},
                           IF mounted THEN {} ELSE own),
         steps |-> (IF mounted THEN <<>> ELSE <<Put("baseline")>>)
                   \o <<Put("marker"), Put("paz"), Put("pamt"), Put("pathc"),
                        Put("receipt"), Put("papgt")>>,
         stops |-> {"paz", "pamt", "pathc", "receipt", "papgt"},
         backups |-> BOOLEAN, confirms |-> TRUE]

\* apply_overlay_change, when layers remain: the mount list after all writes.
ChangeLayers(mounted) ==
    LET own == Directory \cup {"index"}
    IN  [before |-> Before({"pathc", "papgt"} \cup IF mounted THEN own ELSE {},
                           {"layer"} \cup IF mounted THEN {} ELSE own),
         steps |-> <<Put("layer"), Put("pamt"), Put("paz"), Put("marker"), Put("pathc"),
                     Put("index"), Put("papgt")>>,
         stops |-> {"layer", "pamt", "paz", "marker", "pathc", "index", "papgt"},
         backups |-> {TRUE}, confirms |-> TRUE]

\* apply_overlay_change, when the last layer goes: deletes follow the mount list.
RemoveLastLayer ==
    [before |-> Before(Directory \cup {"pathc", "papgt", "index"}, {}),
     steps |-> <<Put("pathc"), Put("index"), Put("papgt"),
                 Delete("pamt"), Delete("paz"), Delete("marker")>>,
     stops |-> {"pathc", "index", "papgt"},
     backups |-> {TRUE}, confirms |-> TRUE]

\* remove_overlay: nothing stops it once it has started.
RemoveOverlay ==
    [before |-> Before(Directory \cup {"pathc", "papgt"}, {}),
     steps |-> <<Put("papgt"), Delete("pamt"), Delete("paz"), Delete("marker"),
                 Put("pathc")>>,
     stops |-> {},
     backups |-> BOOLEAN, confirms |-> TRUE]

\* migrate_into_overlay: shipped files, the mount list among them, go back to
\* their oldest backup before the overlay is written and mounted.
Migrate(mounted) ==
    [before |-> Before({"group", "papgt"} \cup IF mounted THEN Directory ELSE {},
                       IF mounted THEN {} ELSE Directory),
     steps |-> <<PutOlder("group"), PutOlder("papgt"), Put("marker"), Put("paz"),
                 Put("pamt"), Put("papgt")>>,
     stops |-> {"group", "papgt", "marker"},
     backups |-> BOOLEAN, confirms |-> TRUE]

\* apply_overlay_retirement: one rename.
Retire ==
    [before |-> Before({"index"}, {"retired"}),
     steps |-> <<[after |-> [q \in {"index", "retired"} |-> IF q = "index" THEN Missing
                                                            ELSE "old"],
                  from |-> "index"]>>,
     stops |-> {},
     backups |-> {TRUE}, confirms |-> TRUE]

\* apply_identity_deletion: both ledgers, as a unit.  It hands over restore_backup
\* as it is, without a confirmation.
DeleteIdentity ==
    [before |-> Before({"registry", "index"}, {}),
     steps |-> <<Put("registry"), Put("index")>>,
     stops |-> {},
     backups |-> {TRUE}, confirms |-> FALSE]

\* The mount list names the new archive for the first time in these.
FirstMounts == {Install(FALSE), ChangeLayers(FALSE), Migrate(FALSE)}

AllPlans == FirstMounts \cup
    {Install(TRUE), ChangeLayers(TRUE), Migrate(TRUE), RemoveLastLayer, RemoveOverlay,
     Retire, DeleteIdentity}
IdentityPlans == {DeleteIdentity}

-----------------------------------------------------------------------------

\* "Everything the mount list names is complete" (archive_overlay_install.py):
\* a mount list that names a new directory finds the index and the payload it
\* was built with, in every step forward and of every rollback, and so after a
\* crash at any moment.
NewMountsWhole ==
    plan \in FirstMounts /\ disk["papgt"] = "new" /\ "papgt" \in Ours =>
        \A p \in {"paz", "pamt"} \cap Ours : disk[p] = "new"

==============================================================================
