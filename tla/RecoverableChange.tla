-------------------------- MODULE RecoverableChange --------------------------
(***************************************************************************)
(* What a confirmed change to several game files promises, whatever the    *)
(* files are and however it goes about writing them.  Files that a foreign *)
(* program touched meanwhile are outside the promise; of the others:       *)
(*                                                                         *)
(*   - nothing is written before there is evidence on disk that a change   *)
(*     was attempted;                                                      *)
(*   - "done" is answered only when all of them hold their new contents,   *)
(*     and "undone" only when all of them hold their old ones;             *)
(*   - otherwise the change ends "demanded" (the user is told to recover)  *)
(*     or "crashed", and the evidence stays.                               *)
(***************************************************************************)
EXTENDS Naturals

VARIABLES whole,      \* every file outside foreign hands holds its new contents
          untouched,  \* every file outside foreign hands holds its old contents
          evidence,   \* a record on disk says that a change was attempted
          verdict     \* the answer: "open" until there is one

vars == <<whole, untouched, evidence, verdict>>

Verdicts == {"open", "done", "undone", "demanded", "crashed"}

TypeOK ==
    /\ whole \in BOOLEAN
    /\ untouched \in BOOLEAN
    /\ evidence \in BOOLEAN
    /\ verdict \in Verdicts

Init ==
    /\ whole = FALSE
    /\ untouched = TRUE
    /\ evidence = FALSE
    /\ verdict = "open"

\* The record of the attempt is published.
Announce ==
    /\ verdict = "open"
    /\ evidence' = TRUE
    /\ UNCHANGED <<whole, untouched, verdict>>

\* One file is written, restored or removed.
Write ==
    /\ verdict = "open"
    /\ evidence
    /\ whole' \in BOOLEAN
    /\ untouched' \in BOOLEAN
    /\ UNCHANGED <<evidence, verdict>>

\* A foreign program takes a file over: one file less to answer for.
Meddle ==
    /\ verdict = "open"
    /\ whole' \in BOOLEAN
    /\ untouched' \in BOOLEAN
    /\ whole => whole'
    /\ untouched => untouched'
    /\ UNCHANGED <<evidence, verdict>>

\* Success.  The record may be kept or cleared away.
Deliver ==
    /\ verdict = "open"
    /\ whole
    /\ verdict' = "done"
    /\ evidence' \in BOOLEAN
    /\ UNCHANGED <<whole, untouched>>

\* Refused, cancelled or failed, and everything is as it was.
Withdraw ==
    /\ verdict = "open"
    /\ untouched
    /\ verdict' = "undone"
    /\ evidence' \in BOOLEAN
    /\ UNCHANGED <<whole, untouched>>

\* No clean end: the record stays for the user, or is written at last.
Abandon ==
    /\ verdict = "open"
    /\ verdict' \in {"demanded", "crashed"}
    /\ evidence' \in BOOLEAN
    /\ evidence => evidence'
    /\ UNCHANGED <<whole, untouched>>

Next == Announce \/ Write \/ Meddle \/ Deliver \/ Withdraw \/ Abandon

Spec == Init /\ [][Next]_vars

\* Files that are not all old are accounted for: by the answer "done", or by
\* the evidence of an attempt (also after a crash).
Accounted == verdict = "done" \/ untouched \/ evidence

==============================================================================
