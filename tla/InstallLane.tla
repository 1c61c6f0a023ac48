------------------------------ MODULE InstallLane ------------------------------
(***************************************************************************)
(* Who may work on an installation, and when the application may end.      *)
(*                                                                         *)
(* services/installation_lane.py gives every installation one lane, held   *)
(* by a thread of one process through a non-blocking file lock and         *)
(* re-entered by the thread that holds it; an ordinary operation is        *)
(* refused while an interrupted transaction's journal is there.            *)
(* services/application_shutdown_service.py counts the archive writes a    *)
(* process has admitted, refuses new ones once the window is closing, and  *)
(* ends the process after a grace period, but never under a write.         *)
(*                                                                         *)
(* An operation is the sequence of contexts its function enters before its *)
(* body runs; they are left in the reverse order, whatever happened.       *)
(***************************************************************************)
EXTENDS Naturals, Sequences

CONSTANTS
    Procs,      \* processes: application windows and virtual session hosts
    Threads,    \* their threads
    ProcOf,     \* the process of each thread
    Tracked,    \* QThreads the window waits for; the others Python joins
    Windows,    \* processes that are application windows
    Roots,      \* installations
    None,
    MaxCrashes  \* bound: processes that die

ASSUME ProcOfAssumption == ProcOf \in [Threads -> Procs]
ASSUME NoneAssumption == None \notin Threads \cup Roots
ASSUME CrashBoundAssumption == MaxCrashes \in Nat

VARIABLES
    lock,     \* per root: the thread whose handle has the lock file locked
    held,     \* per thread: _local.held, the roots it has the lane of
    journal,  \* roots with .cdmw/virtual-loader/transaction.json
    admitted, \* the scopes counted in _active_archive_writes: <<thread, k>>
    armed,    \* processes with _shutdown_started_at set
    expired,  \* processes whose grace period is over
    phase,    \* per process: the window's way to its end
    op,       \* per thread: the contexts of its operation
    at,       \* per thread: how many of them are entered
    owning,   \* per thread: those of them that locked a lock file
    mode,     \* per thread: idle, entering (then the body), checking, leaving
    wrote,    \* per thread: the root whose journal its operation wrote
    crashes

lanes   == <<lock, held, journal>>
exits   == <<admitted, armed, expired, phase>>
threads == <<op, at, owning, mode, wrote>>
vars    == <<lanes, exits, threads, crashes>>

Scope           == [kind |-> "scope", root |-> None]
Lane(r)         == [kind |-> "lane", root |-> r]
RecoveryLane(r) == [kind |-> "recovery", root |-> r]

Frames == {Scope} \cup {Lane(r) : r \in Roots} \cup {RecoveryLane(r) : r \in Roots}

(* Publishing a profile, changing overlays or patching an archive. *)
Transaction(r) == <<Scope, Lane(r)>>

(* restore_backup inside such a transaction; recover_profile inside it. *)
RollingBack(r) == <<Scope, Lane(r), Scope, Lane(r)>>
Recovering(r)  == <<Scope, Lane(r), Scope, RecoveryLane(r)>>

(* Launches and standalone publication take a lane outside the scope, save
   transfers several; a backup is restored over every root it names. *)
Operations ==
    {Transaction(r) : r \in Roots} \cup {<<Lane(r)>> : r \in Roots}
    \cup {<<Scope, RecoveryLane(r)>> : r \in Roots}
    \cup {<<Lane(r), Lane(s)>> : r, s \in Roots}
    \cup {<<Scope, Lane(r), Lane(s)>> : r, s \in Roots}

Extended == {RollingBack(r) : r \in Roots} \cup {Recovering(r) : r \in Roots}

Alive(t) == phase[ProcOf[t]] # "exited"
NextFrame(t) == op[t][at[t] + 1]
AtBody(t) == mode[t] = "entering" /\ at[t] = Len(op[t])
Nested(t) == \E a \in admitted : a[1] = t
Writes(p) == {a \in admitted : ProcOf[a[1]] = p}

Turn(t, m) == mode' = [mode EXCEPT ![t] = m]
Entered(t) == at' = [at EXCEPT ![t] = @ + 1]

Init ==
    /\ lock = [r \in Roots |-> None]
    /\ held = [t \in Threads |-> {}]
    /\ journal = {} /\ admitted = {} /\ armed = {} /\ expired = {}
    /\ phase = [p \in Procs |-> "open"]
    /\ op = [t \in Threads |-> <<>>]
    /\ at = [t \in Threads |-> 0]
    /\ owning = [t \in Threads |-> {}]
    /\ mode = [t \in Threads |-> "idle"]
    /\ wrote = [t \in Threads |-> None]
    /\ crashes = 0
-----------------------------------------------------------------------------
Begin(t, contexts) ==
    /\ Alive(t) /\ mode[t] = "idle"
    /\ op' = [op EXCEPT ![t] = contexts]
    /\ Turn(t, "entering")
    /\ UNCHANGED <<lanes, exits, at, owning, wrote, crashes>>

Entering(t, kinds) ==
    /\ mode[t] = "entering" /\ at[t] < Len(op[t])
    /\ NextFrame(t).kind \in kinds

(* archive_write_scope: a nested scope of an admitted transaction passes. *)
EnterScope(t) ==
    /\ Entering(t, {"scope"})
    /\ IF ProcOf[t] \in armed /\ ~Nested(t)
         THEN Turn(t, "leaving") /\ UNCHANGED <<admitted, at>>
         ELSE /\ admitted' = admitted \cup {<<t, at[t] + 1>>}
              /\ Entered(t)
              /\ UNCHANGED mode
    /\ UNCHANGED <<lanes, armed, expired, phase, op, owning, wrote, crashes>>

(* A plausible slip: the held roots are those of the process. *)
HeldByProcess(t, r) == \E u \in Threads : ProcOf[u] = ProcOf[t] /\ r \in held[u]

Holds(t, r) == r \in held[t]

(* installation_lane: yield at once in the thread that holds the root. *)
ReenterLane(t) ==
    /\ Entering(t, {"lane", "recovery"})
    /\ Holds(t, NextFrame(t).root)
    /\ Entered(t)
    /\ UNCHANGED <<lanes, exits, op, owning, mode, wrote, crashes>>

(* The lock is tried once: whoever finds it taken is refused. *)
LockLane(t) ==
    /\ Entering(t, {"lane", "recovery"})
    /\ LET r == NextFrame(t).root
       IN  /\ ~Holds(t, r)
           /\ \/ /\ lock[r] = None
                 /\ lock' = [lock EXCEPT ![r] = t]
                 /\ held' = [held EXCEPT ![t] = @ \cup {r}]
                 /\ owning' = [owning EXCEPT ![t] = @ \cup {at[t] + 1}]
                 /\ Turn(t, "checking")
              \/ /\ lock[r] # None
                 /\ Turn(t, "leaving")
                 /\ UNCHANGED <<lock, held, owning>>
    /\ UNCHANGED <<journal, exits, op, at, wrote, crashes>>

Unlocked(t, r, k) ==
    /\ lock' = [lock EXCEPT ![r] = None]
    /\ held' = [held EXCEPT ![t] = @ \ {r}]
    /\ owning' = [owning EXCEPT ![t] = @ \ {k}]

(* A plausible slip: the check is left to the caller. *)
CheckSkipped(t) ==
    /\ mode[t] = "checking"
    /\ Entered(t) /\ Turn(t, "entering")
    /\ UNCHANGED <<lanes, exits, op, owning, wrote, crashes>>

(* A plausible slip: the check stands outside the try that closes the file. *)
CheckKeepsLock(t) ==
    /\ mode[t] = "checking"
    /\ LET f == NextFrame(t)
       IN  IF f.kind = "recovery" \/ f.root \notin journal
             THEN Entered(t) /\ Turn(t, "entering")
             ELSE Turn(t, "leaving") /\ UNCHANGED at
    /\ UNCHANGED <<lanes, exits, op, owning, wrote, crashes>>

(* With the lock taken, an interrupted transaction stops all but recovery. *)
CheckJournal(t) ==
    /\ mode[t] = "checking"
    /\ LET f == NextFrame(t)
       IN  IF f.kind = "recovery" \/ f.root \notin journal
             THEN /\ Entered(t) /\ Turn(t, "entering")
                  /\ UNCHANGED <<lock, held, owning>>
             ELSE /\ Turn(t, "leaving")
                  /\ Unlocked(t, f.root, at[t] + 1)
                  /\ UNCHANGED at
    /\ UNCHANGED <<journal, exits, op, wrote, crashes>>
-----------------------------------------------------------------------------
(* Bodies, as far as they matter here: what they do to the journal. *)

WriteJournal(t, r) ==
    /\ AtBody(t) /\ op[t] = Transaction(r)
    /\ wrote[t] = None /\ r \notin journal
    /\ journal' = journal \cup {r}
    /\ wrote' = [wrote EXCEPT ![t] = r]
    /\ UNCHANGED <<lock, held, exits, op, at, owning, mode, crashes>>

(* The transaction commits, or a recovery settles what it found. *)
SettleJournal(t, r) ==
    /\ AtBody(t) /\ r \in journal
    /\ op[t] \in {Transaction(r), Recovering(r), <<Scope, RecoveryLane(r)>>}
    /\ journal' = journal \ {r}
    /\ Turn(t, "leaving")
    /\ UNCHANGED <<lock, held, exits, op, at, owning, wrote, crashes>>

(* A transaction that failed calls recovery, or the restore of its backup,
   before it lets go of anything. *)
CallRecovery(t, r) ==
    /\ AtBody(t) /\ op[t] = Transaction(r)
    /\ op' = [op EXCEPT ![t] =
            IF wrote[t] = r THEN Recovering(r) ELSE RollingBack(r)]
    /\ UNCHANGED <<lanes, exits, at, owning, mode, wrote, crashes>>

(* The body returns or raises; so may whatever is still being entered.  An
   error in the journal write itself leaves the journal to a later recovery. *)
Leave(t) ==
    /\ mode[t] = "entering"
    /\ Turn(t, "leaving")
    /\ UNCHANGED <<lanes, exits, op, at, owning, wrote, crashes>>

LeaveScope(t) ==
    /\ mode[t] = "leaving" /\ at[t] > 0 /\ op[t][at[t]].kind = "scope"
    /\ admitted' = admitted \ {<<t, at[t]>>}
    /\ at' = [at EXCEPT ![t] = @ - 1]
    /\ UNCHANGED <<lanes, armed, expired, phase, op, owning, mode, wrote, crashes>>

LeaveLane(t) ==
    /\ mode[t] = "leaving" /\ at[t] > 0 /\ op[t][at[t]].kind # "scope"
    /\ IF at[t] \in owning[t]
         THEN Unlocked(t, op[t][at[t]].root, at[t])
         ELSE UNCHANGED <<lock, held, owning>>
    /\ at' = [at EXCEPT ![t] = @ - 1]
    /\ UNCHANGED <<journal, exits, op, mode, wrote, crashes>>

End(t) ==
    /\ mode[t] = "leaving" /\ at[t] = 0
    /\ op' = [op EXCEPT ![t] = <<>>]
    /\ wrote' = [wrote EXCEPT ![t] = None]
    /\ Turn(t, "idle")
    /\ UNCHANGED <<lanes, exits, at, owning, crashes>>
-----------------------------------------------------------------------------
(* The end of a process. *)

(* A plausible slip: workers are looked for before writes are refused. *)
CloseUnarmed(p) ==
    /\ p \in Windows /\ phase[p] = "open"
    /\ phase' = [phase EXCEPT ![p] = "closing"]
    /\ UNCHANGED <<lanes, admitted, armed, expired, threads, crashes>>

(* closeEvent: arm the watchdog, then wait for the workers. *)
Close(p) ==
    /\ p \in Windows /\ phase[p] = "open"
    /\ armed' = armed \cup {p}
    /\ phase' = [phase EXCEPT ![p] = "closing"]
    /\ UNCHANGED <<lanes, admitted, expired, threads, crashes>>

WorkersStopped(p, workers) ==
    \A t \in workers : ProcOf[t] = p => mode[t] = "idle"

(* _finish_deferred_close_if_workers_stopped accepts the close. *)
AcceptClose(p) ==
    /\ phase[p] = "closing"
    /\ Writes(p) = {}
    /\ WorkersStopped(p, Tracked)
    /\ phase' = [phase EXCEPT ![p] = "accepted"]
    /\ UNCHANGED <<lanes, admitted, armed, expired, threads, crashes>>

(* What a process leaves behind: the system closes its lock files, and
   nothing of its memory remains. *)
Vanish(p, last) ==
    /\ lock' = [r \in Roots |->
            IF lock[r] # None /\ ProcOf[lock[r]] = p THEN None ELSE lock[r]]
    /\ phase' = [phase EXCEPT ![p] = last]
    /\ admitted' = admitted \ Writes(p)
    /\ armed' = armed \ {p} /\ expired' = expired \ {p}
    /\ LET gone(f, x) == [t \in Threads |-> IF ProcOf[t] = p THEN x ELSE f[t]]
       IN  /\ held' = gone(held, {}) /\ op' = gone(op, <<>>)
           /\ at' = gone(at, 0) /\ owning' = gone(owning, {})
           /\ mode' = gone(mode, "idle") /\ wrote' = gone(wrote, None)
    /\ UNCHANGED journal

(* The event loop ends; the interpreter joins its executor threads. *)
Quit(p) ==
    /\ phase[p] = "accepted"
    /\ WorkersStopped(p, Threads \ Tracked)
    /\ Vanish(p, "exited")
    /\ UNCHANGED crashes

GraceExpires(p) ==
    /\ p \in armed \ expired
    /\ expired' = expired \cup {p}
    /\ UNCHANGED <<lanes, admitted, armed, phase, threads, crashes>>

(* A plausible slip: the watchdog waits for every operation. *)
WatchdogPatient(p) ==
    /\ p \in expired /\ WorkersStopped(p, Threads)
    /\ Vanish(p, "exited")
    /\ UNCHANGED crashes

(* _finish_shutdown_after_grace ends the process over stuck workers. *)
WatchdogExit(p) ==
    /\ p \in expired /\ Writes(p) = {}
    /\ Vanish(p, "exited")
    /\ UNCHANGED crashes

(* A process dies, and the user starts another. *)
Crash(p) ==
    /\ phase[p] # "exited" /\ crashes < MaxCrashes
    /\ crashes' = crashes + 1
    /\ Vanish(p, "open")
-----------------------------------------------------------------------------
Step(t) ==
    \/ EnterScope(t) \/ ReenterLane(t) \/ LockLane(t) \/ CheckJournal(t)
    \/ \E r \in Roots : WriteJournal(t, r) \/ SettleJournal(t, r) \/ CallRecovery(t, r)
    \/ Leave(t) \/ LeaveScope(t) \/ LeaveLane(t) \/ End(t)

Exit(p) == Quit(p) \/ WatchdogExit(p)

Next ==
    \/ \E t \in Threads : Step(t) \/ \E contexts \in Operations : Begin(t, contexts)
    \/ \E p \in Procs : Close(p) \/ AcceptClose(p) \/ GraceExpires(p) \/ Exit(p)
                        \/ Crash(p)

Spec == Init /\ [][Next]_vars

(* The watchdog has a thread of its own and a deadline.  An admitted write
   ends: its loops are finite and its file operations return.  Nothing else
   is promised, neither other workers nor the window's event loop. *)
Fairness ==
    /\ \A t \in Threads : WF_vars(Nested(t) /\ Step(t))
    /\ \A p \in Procs : WF_vars(GraceExpires(p)) /\ WF_vars(WatchdogExit(p))

FairSpec == Spec /\ Fairness
-----------------------------------------------------------------------------
TypeOK ==
    /\ lock \in [Roots -> Threads \cup {None}]
    /\ held \in [Threads -> SUBSET Roots]
    /\ journal \subseteq Roots
    /\ admitted \subseteq Threads \X (1 .. 4)
    /\ armed \subseteq Procs /\ expired \subseteq armed
    /\ phase \in [Procs -> {"open", "closing", "accepted", "exited"}]
    /\ op \in [Threads -> Operations \cup Extended \cup {<<>>}]
    /\ at \in [Threads -> 0 .. 4]
    /\ owning \in [Threads -> SUBSET (1 .. 4)]
    /\ mode \in [Threads -> {"idle", "entering", "checking", "leaving"}]
    /\ wrote \in [Threads -> Roots \cup {None}]
    /\ crashes \in 0 .. MaxCrashes

(* The thread is inside installation_lane for r, in whichever frame. *)
Inside(t, r) == \E k \in 1 .. at[t] : op[t][k].root = r

InScope(t) == \E k \in 1 .. at[t] : op[t][k].kind = "scope"

(* No two threads, of one process or of two, are ever inside the lane of one
   installation, however their contexts nest, fail and unwind. *)
LaneExclusive ==
    \A r \in Roots, t, u \in Threads :
        Inside(t, r) /\ Inside(u, r) => t = u

(* While the journal of a transaction is there, only the operation that wrote
   it and recoveries are inside that installation's lane. *)
InterruptedIsolated ==
    \A r \in journal, t \in Threads :
        Inside(t, r) => \/ wrote[t] = r
                        \/ \E k \in 1 .. at[t] : op[t][k] = RecoveryLane(r)

(* Refused, failed and dead operations give their lanes back: a lock file is
   locked only by a thread whose operation is under way. *)
LanesGivenBack ==
    \A r \in Roots : lock[r] # None =>
        /\ mode[lock[r]] # "idle"
        /\ Inside(lock[r], r) \/ mode[lock[r]] = "checking"

(* Neither the closed window nor the watchdog ends a process while one of its
   threads is inside an archive write scope, nested or not. *)
ExitSparesWrites ==
    [][\A p \in Procs : phase[p] # "exited" /\ phase'[p] = "exited" =>
        \A t \in Threads : ProcOf[t] = p => ~InScope(t)]_vars

(* A window that was closed is gone in the end, even when a worker outside
   the write scope hangs or the event loop does. *)
CloseEnds == \A p \in Procs : phase[p] = "closing" ~> phase[p] \in {"exited", "open"}
=============================================================================
