--------------------------- MODULE InstallLaneProofs ---------------------------
(***************************************************************************)
(* Lane exclusion, isolation of interrupted transactions and exits that    *)
(* spare writes, for any number of processes, threads and installations.   *)
(*                                                                         *)
(* Exclusion follows from three facts about the bookkeeping: what a thread *)
(* holds mirrors the lock files (HeldIsLocked), whatever lane a thread is  *)
(* inside it holds (InsideIsHeld), and the frame that took a lock is the   *)
(* outermost one for its root (OwnerIsOutermost), so that unwinding never  *)
(* gives up a lane that a frame further out still relies on.               *)
(***************************************************************************)
EXTENDS InstallLane, TLAPS

HeldIsLocked == \A t \in Threads, r \in Roots : r \in held[t] <=> lock[r] = t

Placed(t) ==
    /\ at[t] <= Len(op[t])
    /\ mode[t] = "idle" => at[t] = 0
    /\ mode[t] = "checking" =>
        /\ at[t] < Len(op[t]) /\ at[t] + 1 \in owning[t]
    /\ \A k \in owning[t] :
        /\ k \in 1 .. at[t] \/ (mode[t] = "checking" /\ k = at[t] + 1)
        /\ op[t][k].root \in held[t]

InsideIsHeld(t) ==
    \A k \in 1 .. at[t] : op[t][k].root # None => op[t][k].root \in held[t]

OwnerIsOutermost(t) ==
    \A k \in owning[t], j \in 1 .. at[t] : op[t][j].root = op[t][k].root => k <= j

OneOwner(t) ==
    \A k, j \in owning[t] : op[t][j].root = op[t][k].root => k = j

HeldIsOwned(t) == \A r \in held[t] : \E k \in owning[t] : op[t][k].root = r

Bookkeeping(t) ==
    /\ Placed(t) /\ InsideIsHeld(t) /\ OwnerIsOutermost(t)
    /\ OneOwner(t) /\ HeldIsOwned(t)

LaneInv == HeldIsLocked /\ \A t \in Threads : Bookkeeping(t)

(* Recovery nested in a transaction is that of the journal it wrote. *)
RecoveryOfOwn ==
    \A t \in Threads, r \in Roots : op[t] = Recovering(r) => wrote[t] = r

JournalInv == RecoveryOfOwn /\ InterruptedIsolated

ScopesAdmitted ==
    \A t \in Threads : \A k \in 1 .. at[t] :
        op[t][k].kind = "scope" => <<t, k>> \in admitted

(* Once the close is accepted no write is left, and none can be admitted. *)
AcceptedIsQuiet ==
    \A p \in Procs :
        /\ phase[p] \in {"closing", "accepted"} => p \in armed
        /\ phase[p] = "accepted" => Writes(p) = {}

ExitInv == ScopesAdmitted /\ AcceptedIsQuiet
-----------------------------------------------------------------------------
LEMMA NextPosition ==
    \A m, n \in 0 .. 4 : m < n => m + 1 \in 1 .. n /\ m + 1 \in 1 .. 4
  OBVIOUS

LEMMA OperationsType ==
    \A o \in Operations \cup Extended \cup {<<>>} :
        o \in Seq(Frames) /\ Len(o) \in 0 .. 4
  <1>1. /\ Scope \in Frames
        /\ \A r \in Roots : Lane(r) \in Frames /\ RecoveryLane(r) \in Frames
    BY DEF Frames
  <1>2. \A r \in Roots :
            /\ Transaction(r) \in Seq(Frames) /\ Len(Transaction(r)) = 2
            /\ RollingBack(r) \in Seq(Frames) /\ Len(RollingBack(r)) = 4
            /\ Recovering(r) \in Seq(Frames) /\ Len(Recovering(r)) = 4
    BY <1>1 DEF Transaction, RollingBack, Recovering
  <1>3. ASSUME NEW r \in Roots, NEW s \in Roots
        PROVE  /\ <<Lane(r)>> \in Seq(Frames) /\ Len(<<Lane(r)>>) = 1
               /\ <<Scope, RecoveryLane(r)>> \in Seq(Frames)
               /\ Len(<<Scope, RecoveryLane(r)>>) = 2
               /\ <<Lane(r), Lane(s)>> \in Seq(Frames)
               /\ Len(<<Lane(r), Lane(s)>>) = 2
               /\ <<Scope, Lane(r), Lane(s)>> \in Seq(Frames)
               /\ Len(<<Scope, Lane(r), Lane(s)>>) = 3
    BY <1>1
  <1>4. <<>> \in Seq(Frames) /\ Len(<<>>) = 0
    OBVIOUS
  <1> SUFFICES ASSUME NEW o \in Operations \cup Extended \cup {<<>>}
               PROVE  o \in Seq(Frames) /\ Len(o) \in 0 .. 4
    OBVIOUS
  <1>5. CASE o \in Operations
    <2>1. \/ \E r \in Roots : o \in {Transaction(r), <<Lane(r)>>, <<Scope, RecoveryLane(r)>>}
          \/ \E r, s \in Roots : o \in {<<Lane(r), Lane(s)>>, <<Scope, Lane(r), Lane(s)>>}
      BY <1>5 DEF Operations
    <2>2. ASSUME NEW r \in Roots, o = Transaction(r) PROVE o \in Seq(Frames) /\ Len(o) = 2
      BY <1>2, <2>2
    <2>3. ASSUME NEW r \in Roots, o = <<Lane(r)>> PROVE o \in Seq(Frames) /\ Len(o) = 1
      BY <1>3, <2>3
    <2>4. ASSUME NEW r \in Roots, o = <<Scope, RecoveryLane(r)>>
          PROVE  o \in Seq(Frames) /\ Len(o) = 2
      BY <1>3, <2>4
    <2>5. ASSUME NEW r \in Roots, NEW s \in Roots, o = <<Lane(r), Lane(s)>>
          PROVE  o \in Seq(Frames) /\ Len(o) = 2
      BY <1>3, <2>5
    <2>6. ASSUME NEW r \in Roots, NEW s \in Roots, o = <<Scope, Lane(r), Lane(s)>>
          PROVE  o \in Seq(Frames) /\ Len(o) = 3
      BY <1>3, <2>6
    <2>7. o \in Seq(Frames) /\ \E n \in 1 .. 3 : Len(o) = n
      BY <2>1, <2>2, <2>3, <2>4, <2>5, <2>6
    <2> QED BY <2>7
  <1>6. CASE o \in Extended
    BY <1>2, <1>6 DEF Extended
  <1>7. CASE o = <<>>
    BY <1>4, <1>7
  <1> QED BY <1>5, <1>6, <1>7

LEMMA FrameType ==
    ASSUME TypeOK, NEW t \in Threads, NEW k \in 1 .. Len(op[t])
    PROVE  /\ op[t][k].kind = "scope" <=> op[t][k].root = None
           /\ op[t][k].kind # "scope" => op[t][k].root \in Roots
  <1>1. op[t] \in Seq(Frames)
    BY OperationsType DEF TypeOK
  <1>2. op[t][k] \in Frames
    BY <1>1
  <1> QED BY <1>2, NoneAssumption DEF Frames, Scope, Lane, RecoveryLane

LEMMA InitInv == Init => TypeOK /\ LaneInv /\ JournalInv /\ ExitInv
  <1> SUFFICES ASSUME Init PROVE TypeOK /\ LaneInv /\ JournalInv /\ ExitInv
    OBVIOUS
  <1>1. TypeOK
    BY CrashBoundAssumption DEF Init, TypeOK
  <1>2. LaneInv
    BY NoneAssumption DEF Init, LaneInv, HeldIsLocked, Bookkeeping, Placed, InsideIsHeld,
         OwnerIsOutermost, OneOwner, HeldIsOwned
  <1>3. JournalInv
    BY DEF Init, JournalInv, RecoveryOfOwn, InterruptedIsolated, Recovering
  <1>4. ExitInv
    BY DEF Init, ExitInv, ScopesAdmitted, AcceptedIsQuiet
  <1> QED BY <1>1, <1>2, <1>3, <1>4

LEMMA TypeStep == TypeOK /\ LaneInv /\ [Next]_vars => TypeOK'
  <1> SUFFICES ASSUME TypeOK, LaneInv, [Next]_vars PROVE TypeOK'
    OBVIOUS
  <1> USE DEF TypeOK, lanes, exits, threads, vars, Turn, Entered
  <1>0. \A t \in Threads : Len(op[t]) \in 0 .. 4
    BY OperationsType
  <1>1. ASSUME NEW t \in Threads, Step(t) PROVE TypeOK'
    <2>0. at[t] < Len(op[t]) => at[t] + 1 \in 1 .. Len(op[t]) /\ at[t] + 1 \in 1 .. 4
      <3>1. Len(op[t]) \in 0 .. 4 /\ at[t] \in 0 .. 4
        BY <1>0
      <3> QED BY <3>1, NextPosition
    <2>1. CASE EnterScope(t)
      <3>1. at[t] + 1 \in 1 .. 4
        BY <2>0, <2>1 DEF EnterScope, Entering
      <3>2. <<t, at[t] + 1>> \in Threads \X (1 .. 4)
        BY <3>1
      <3>3. admitted' \subseteq Threads \X (1 .. 4)
        BY <2>1, <3>2 DEF EnterScope
      <3>4. at' \in [Threads -> 0 .. 4] /\ mode' \in [Threads -> {"idle", "entering", "checking", "leaving"}]
        BY <2>1, <3>1 DEF EnterScope
      <3> QED BY <2>1, <3>3, <3>4 DEF EnterScope
    <2>2. CASE ReenterLane(t)
      <3>1. at[t] + 1 \in 1 .. 4
        BY <2>0, <2>2 DEF ReenterLane, Entering
      <3> QED BY <2>2, <3>1 DEF ReenterLane
    <2>3. CASE LockLane(t)
      <3>1. at[t] + 1 \in 1 .. Len(op[t]) /\ at[t] + 1 \in 1 .. 4
        BY <2>0, <2>3 DEF LockLane, Entering
      <3>2. NextFrame(t).root \in Roots
        BY <2>3, <3>1, FrameType DEF LockLane, Entering, NextFrame
      <3> QED BY <2>3, <3>1, <3>2 DEF LockLane
    <2>4. CASE CheckJournal(t)
      <3>1. at[t] + 1 \in 1 .. 4
        BY <2>0, <2>4 DEF CheckJournal, LaneInv, Bookkeeping, Placed
      <3> QED BY <2>4, <3>1 DEF CheckJournal, Unlocked
    <2>5. CASE \E r \in Roots : WriteJournal(t, r)
      BY <2>5 DEF WriteJournal
    <2>6. CASE \E r \in Roots : SettleJournal(t, r)
      BY <2>6 DEF SettleJournal
    <2>7. CASE \E r \in Roots : CallRecovery(t, r)
      BY <2>7 DEF CallRecovery, Extended
    <2>8. CASE Leave(t)
      BY <2>8 DEF Leave
    <2>9. CASE LeaveScope(t)
      BY <2>9 DEF LeaveScope
    <2>10. CASE LeaveLane(t)
      BY <2>10 DEF LeaveLane, Unlocked
    <2>11. CASE End(t)
      BY <2>11 DEF End
    <2> QED BY <1>1, <2>1, <2>2, <2>3, <2>4, <2>5, <2>6, <2>7, <2>8, <2>9, <2>10, <2>11 DEF Step
  <1>2. ASSUME NEW t \in Threads, NEW contexts \in Operations, Begin(t, contexts)
        PROVE  TypeOK'
    BY <1>2 DEF Begin
  <1>3. ASSUME NEW p \in Procs, Close(p) \/ AcceptClose(p) \/ GraceExpires(p)
        PROVE  TypeOK'
    BY <1>3 DEF Close, AcceptClose, GraceExpires
  <1>4. ASSUME NEW p \in Procs, Exit(p) \/ Crash(p) PROVE TypeOK'
    <2>1. PICK last \in {"exited", "open"} : Vanish(p, last)
      BY <1>4 DEF Exit, Quit, WatchdogExit, Crash
    <2>2. crashes' \in 0 .. MaxCrashes
      BY <1>4, CrashBoundAssumption DEF Exit, Quit, WatchdogExit, Crash
    <2> QED BY <2>1, <2>2, ProcOfAssumption DEF Vanish, Writes
  <1>5. CASE UNCHANGED vars
    BY <1>5
  <1> QED BY <1>1, <1>2, <1>3, <1>4, <1>5 DEF Next


(* The bookkeeping of a thread a step does not touch. *)
Same(u) ==
    /\ held'[u] = held[u] /\ op'[u] = op[u] /\ at'[u] = at[u]
    /\ owning'[u] = owning[u] /\ mode'[u] = mode[u]

LEMMA SameKeeps ==
    ASSUME NEW u, Bookkeeping(u), Same(u) PROVE Bookkeeping(u)'
  BY DEF Same, Bookkeeping, Placed, InsideIsHeld, OwnerIsOutermost, OneOwner, HeldIsOwned, NextFrame

(* Entering one more context without locking anything. *)
LEMMA EnterKeeps ==
    ASSUME TypeOK, NEW t \in Threads, Bookkeeping(t), at[t] < Len(op[t]),
           NextFrame(t).root # None => NextFrame(t).root \in held[t],
           mode[t] \in {"entering", "checking"}, mode'[t] = "entering",
           at'[t] = at[t] + 1,
           held'[t] = held[t], op'[t] = op[t], owning'[t] = owning[t]
    PROVE  Bookkeeping(t)'
  <1>0. /\ Len(op[t]) \in 0 .. 4 /\ at[t] \in 0 .. 4 /\ owning[t] \subseteq 1 .. 4
        /\ at'[t] \in 1 .. Len(op[t])
    BY OperationsType, NextPosition DEF TypeOK
  <1>1. Placed(t)'
    BY <1>0 DEF Bookkeeping, Placed
  <1>2. InsideIsHeld(t)'
    BY <1>0 DEF Bookkeeping, InsideIsHeld, NextFrame
  <1>3. OwnerIsOutermost(t)'
    BY <1>0 DEF Bookkeeping, Placed, OwnerIsOutermost
  <1>4. OneOwner(t)' /\ HeldIsOwned(t)'
    BY DEF Bookkeeping, OneOwner, HeldIsOwned
  <1> QED BY <1>1, <1>2, <1>3, <1>4 DEF Bookkeeping

(* Turning back, or going on to leave, with everything kept. *)
LEMMA TurnKeeps ==
    ASSUME NEW t, Bookkeeping(t), mode[t] = "entering", mode'[t] = "leaving",
           at'[t] = at[t], held'[t] = held[t], op'[t] = op[t], owning'[t] = owning[t]
    PROVE  Bookkeeping(t)'
  BY DEF Bookkeeping, Placed, InsideIsHeld, OwnerIsOutermost, OneOwner, HeldIsOwned

(* Taking a lane the thread did not hold. *)
LEMMA LockKeeps ==
    ASSUME TypeOK, NEW t \in Threads, Bookkeeping(t), at[t] < Len(op[t]),
           mode[t] = "entering", mode'[t] = "checking",
           NextFrame(t).root # None, NextFrame(t).root \notin held[t],
           at'[t] = at[t], op'[t] = op[t],
           owning'[t] = owning[t] \cup {at[t] + 1},
           held'[t] = held[t] \cup {NextFrame(t).root}
    PROVE  Bookkeeping(t)'
  <1>0. /\ Len(op[t]) \in 0 .. 4 /\ at[t] \in 0 .. 4 /\ owning[t] \subseteq 1 .. 4
    BY OperationsType DEF TypeOK
  <1>1. Placed(t)'
    BY <1>0 DEF Bookkeeping, Placed, NextFrame
  <1>2. InsideIsHeld(t)'
    BY <1>0 DEF Bookkeeping, InsideIsHeld
  <1>3. OwnerIsOutermost(t)'
    BY <1>0 DEF Bookkeeping, InsideIsHeld, OwnerIsOutermost, NextFrame
  <1>4. OneOwner(t)'
    BY DEF Bookkeeping, Placed, OneOwner, NextFrame
  <1>5. HeldIsOwned(t)'
    BY DEF Bookkeeping, HeldIsOwned, NextFrame
  <1> QED BY <1>1, <1>2, <1>3, <1>4, <1>5 DEF Bookkeeping

(* Giving a lane up in the frame that took it: as its journal check refuses,
   or as the frame is left. *)
LEMMA UnlockKeeps ==
    ASSUME TypeOK, NEW t \in Threads, Bookkeeping(t), NEW k \in owning[t],
           \/ mode[t] = "checking" /\ k = at[t] + 1 /\ at'[t] = at[t]
           \/ mode[t] = "leaving" /\ k = at[t] /\ at'[t] = at[t] - 1,
           mode'[t] = "leaving", op'[t] = op[t],
           owning'[t] = owning[t] \ {k},
           held'[t] = held[t] \ {op[t][k].root}
    PROVE  Bookkeeping(t)'
  <1>0. /\ Len(op[t]) \in 0 .. 4 /\ at[t] \in 0 .. 4 /\ owning[t] \subseteq 1 .. 4
    BY OperationsType DEF TypeOK
  <1>1. Placed(t)'
    BY <1>0 DEF Bookkeeping, Placed, OneOwner
  <1>2. InsideIsHeld(t)'
    BY <1>0 DEF Bookkeeping, InsideIsHeld, OwnerIsOutermost
  <1>3. OwnerIsOutermost(t)'
    BY <1>0 DEF Bookkeeping, OwnerIsOutermost
  <1>4. OneOwner(t)'
    BY DEF Bookkeeping, OneOwner
  <1>5. HeldIsOwned(t)'
    BY DEF Bookkeeping, HeldIsOwned
  <1> QED BY <1>1, <1>2, <1>3, <1>4, <1>5 DEF Bookkeeping

(* Leaving a frame that took no lock. *)
LEMMA LeaveKeeps ==
    ASSUME TypeOK, NEW t \in Threads, Bookkeeping(t), mode[t] = "leaving",
           at[t] > 0, at[t] \notin owning[t],
           at'[t] = at[t] - 1, mode'[t] = "leaving",
           held'[t] = held[t], op'[t] = op[t], owning'[t] = owning[t]
    PROVE  Bookkeeping(t)'
  <1>0. /\ Len(op[t]) \in 0 .. 4 /\ at[t] \in 0 .. 4 /\ owning[t] \subseteq 1 .. 4
    BY OperationsType DEF TypeOK
  <1>1. Placed(t)'
    BY <1>0 DEF Bookkeeping, Placed
  <1>2. InsideIsHeld(t)' /\ OwnerIsOutermost(t)'
    BY <1>0 DEF Bookkeeping, InsideIsHeld, OwnerIsOutermost
  <1>3. OneOwner(t)' /\ HeldIsOwned(t)'
    BY DEF Bookkeeping, OneOwner, HeldIsOwned
  <1> QED BY <1>1, <1>2, <1>3 DEF Bookkeeping

(* An operation begins, ends, or turns into one that only adds contexts. *)
LEMMA ExchangeKeeps ==
    ASSUME TypeOK, NEW t \in Threads, Bookkeeping(t),
           \A k \in 1 .. at[t] : op'[t][k] = op[t][k], Len(op'[t]) \in Nat,
           at[t] <= Len(op'[t]), at'[t] = at[t],
           mode[t] # "checking", mode'[t] # "checking",
           mode'[t] = "idle" => at[t] = 0,
           held'[t] = held[t], owning'[t] = owning[t]
    PROVE  Bookkeeping(t)'
  BY DEF Bookkeeping, Placed, InsideIsHeld, OwnerIsOutermost, OneOwner, HeldIsOwned

LEMMA LaneStep == TypeOK /\ LaneInv /\ [Next]_vars => LaneInv'
  <1> SUFFICES ASSUME TypeOK, LaneInv, [Next]_vars PROVE LaneInv'
    OBVIOUS
  <1> USE DEF lanes, exits, threads, vars, Turn, Entered
  <1>0. ASSUME NEW t \in Threads
        PROVE  /\ Bookkeeping(t)
               /\ Len(op[t]) \in 0 .. 4 /\ at[t] \in 0 .. 4
               /\ at[t] < Len(op[t]) => at[t] + 1 \in 1 .. Len(op[t])
               /\ at[t] > 0 => at[t] \in 1 .. Len(op[t])
    <2>1. Bookkeeping(t) /\ Len(op[t]) \in 0 .. 4 /\ at[t] \in 0 .. 4
      BY OperationsType DEF TypeOK, LaneInv
    <2> QED BY <2>1 DEF Bookkeeping, Placed
  <1>1. ASSUME NEW t \in Threads, Step(t),
               Bookkeeping(t)', HeldIsLocked', \A u \in Threads \ {t} : Same(u)
        PROVE  LaneInv'
    BY <1>0, <1>1, SameKeeps DEF LaneInv
  <1>2. ASSUME NEW t \in Threads, Step(t) PROVE LaneInv'
    <2>1. CASE EnterScope(t)
      <3>1. \A u \in Threads \ {t} : Same(u)
        BY <2>1 DEF EnterScope, Same, TypeOK
      <3>2. Bookkeeping(t)'
        <4>1. NextFrame(t).root = None
          BY <2>1, <1>0, FrameType DEF EnterScope, Entering, NextFrame
        <4>2. CASE mode' = mode
          BY <2>1, <4>1, <4>2, <1>0, EnterKeeps DEF EnterScope, Entering, TypeOK
        <4>3. CASE mode' # mode
          BY <2>1, <4>3, <1>0, TurnKeeps DEF EnterScope, Entering, TypeOK
        <4> QED BY <4>2, <4>3
      <3>3. HeldIsLocked'
        BY <2>1 DEF EnterScope, LaneInv, HeldIsLocked
      <3> QED BY <1>1, <1>2, <3>1, <3>2, <3>3
    <2>2. CASE ReenterLane(t)
      <3>1. \A u \in Threads \ {t} : Same(u)
        BY <2>2 DEF ReenterLane, Same, TypeOK
      <3>2. Bookkeeping(t)'
        BY <2>2, <1>0, EnterKeeps DEF ReenterLane, Entering, Holds, TypeOK
      <3>3. HeldIsLocked'
        BY <2>2 DEF ReenterLane, LaneInv, HeldIsLocked
      <3> QED BY <1>1, <1>2, <3>1, <3>2, <3>3
    <2>3. CASE LockLane(t)
      <3>1. \A u \in Threads \ {t} : Same(u)
        BY <2>3 DEF LockLane, Same, TypeOK
      <3>2. NextFrame(t).root \in Roots
        BY <2>3, <1>0, FrameType DEF LockLane, Entering, NextFrame
      <3>3. Bookkeeping(t)' /\ HeldIsLocked'
        <4>1. CASE lock[NextFrame(t).root] = None
          <5>1. Bookkeeping(t)'
            BY <2>3, <3>2, <4>1, <1>0, LockKeeps, NoneAssumption
               DEF LockLane, Entering, Holds, TypeOK
          <5>2. HeldIsLocked'
            BY <2>3, <3>2, <4>1, NoneAssumption DEF LockLane, LaneInv, HeldIsLocked, TypeOK
          <5> QED BY <5>1, <5>2
        <4>2. CASE lock[NextFrame(t).root] # None
          BY <2>3, <4>2, <1>0, TurnKeeps
             DEF LockLane, Entering, TypeOK, LaneInv, HeldIsLocked
        <4> QED BY <4>1, <4>2
      <3> QED BY <1>1, <1>2, <3>1, <3>3
    <2>4. CASE CheckJournal(t)
      <3>1. \A u \in Threads \ {t} : Same(u)
        BY <2>4 DEF CheckJournal, Unlocked, Same, TypeOK
      <3>2. /\ at[t] < Len(op[t]) /\ at[t] + 1 \in owning[t]
            /\ NextFrame(t).root \in held[t]
        BY <2>4, <1>0 DEF CheckJournal, Bookkeeping, Placed, NextFrame
      <3>3. CASE at' = at
        <4>1. Bookkeeping(t)'
          BY <2>4, <3>2, <3>3, <1>0, UnlockKeeps DEF CheckJournal, Unlocked, NextFrame, TypeOK
        <4>2. HeldIsLocked'
          BY <2>4, <3>2, <3>3, <1>0, NoneAssumption
             DEF CheckJournal, Unlocked, LaneInv, HeldIsLocked, TypeOK
        <4> QED BY <1>1, <1>2, <3>1, <4>1, <4>2
      <3>4. CASE at' # at
        <4>1. Bookkeeping(t)'
          BY <2>4, <3>2, <3>4, <1>0, EnterKeeps DEF CheckJournal, TypeOK
        <4>2. HeldIsLocked'
          BY <2>4, <3>4 DEF CheckJournal, LaneInv, HeldIsLocked
        <4> QED BY <1>1, <1>2, <3>1, <4>1, <4>2
      <3> QED BY <3>3, <3>4
    <2>5. CASE \E r \in Roots : WriteJournal(t, r)
      <3>1. \A u \in Threads : Same(u)
        BY <2>5 DEF WriteJournal, Same
      <3>2. HeldIsLocked'
        BY <2>5 DEF WriteJournal, LaneInv, HeldIsLocked
      <3> QED BY <1>0, <3>1, <3>2, SameKeeps DEF LaneInv
    <2>6. CASE (\E r \in Roots : SettleJournal(t, r)) \/ Leave(t)
      <3>1. \A u \in Threads \ {t} : Same(u)
        BY <2>6 DEF SettleJournal, Leave, Same, TypeOK
      <3>2. Bookkeeping(t)'
        BY <2>6, <1>0, TurnKeeps DEF SettleJournal, Leave, AtBody, TypeOK
      <3>3. HeldIsLocked'
        BY <2>6 DEF SettleJournal, Leave, LaneInv, HeldIsLocked
      <3> QED BY <1>1, <1>2, <3>1, <3>2, <3>3
    <2>7. CASE \E r \in Roots : CallRecovery(t, r)
      <3>0. PICK r \in Roots : CallRecovery(t, r) BY <2>7
      <3>1. \A u \in Threads \ {t} : Same(u)
        BY <3>0 DEF CallRecovery, Same, TypeOK
      <3>2. Bookkeeping(t)'
        <4>1. /\ at[t] = 2 /\ mode[t] = "entering" /\ mode'[t] = "entering"
              /\ Len(op'[t]) = 4
              /\ op'[t][1] = op[t][1] /\ op'[t][2] = op[t][2]
          BY <3>0 DEF CallRecovery, AtBody, Transaction, Recovering, RollingBack, TypeOK
        <4>2. \A k \in 1 .. at[t] : op'[t][k] = op[t][k]
          BY <4>1
        <4> QED BY <3>0, <4>1, <4>2, <1>0, ExchangeKeeps DEF CallRecovery
      <3>3. HeldIsLocked'
        BY <3>0 DEF CallRecovery, LaneInv, HeldIsLocked
      <3> QED BY <1>1, <1>2, <3>1, <3>2, <3>3
    <2>8. CASE LeaveScope(t)
      <3>1. \A u \in Threads \ {t} : Same(u)
        BY <2>8 DEF LeaveScope, Same, TypeOK
      <3>2. Bookkeeping(t)'
        <4>1. op[t][at[t]].root = None
          BY <2>8, <1>0, FrameType DEF LeaveScope
        <4>2. at[t] \notin owning[t]
          BY <4>1, <1>0, NoneAssumption DEF Bookkeeping, Placed, TypeOK
        <4> QED BY <2>8, <4>2, <1>0, LeaveKeeps DEF LeaveScope, TypeOK
      <3>3. HeldIsLocked'
        BY <2>8 DEF LeaveScope, LaneInv, HeldIsLocked
      <3> QED BY <1>1, <1>2, <3>1, <3>2, <3>3
    <2>9. CASE LeaveLane(t)
      <3>1. \A u \in Threads \ {t} : Same(u)
        BY <2>9 DEF LeaveLane, Unlocked, Same, TypeOK
      <3>2. CASE at[t] \in owning[t]
        <4>1. op[t][at[t]].root \in held[t]
          BY <3>2, <1>0 DEF Bookkeeping, Placed
        <4>2. Bookkeeping(t)'
          BY <2>9, <3>2, <1>0, UnlockKeeps DEF LeaveLane, Unlocked, TypeOK
        <4>3. HeldIsLocked'
          BY <2>9, <3>2, <4>1, NoneAssumption
             DEF LeaveLane, Unlocked, LaneInv, HeldIsLocked, TypeOK
        <4> QED BY <1>1, <1>2, <3>1, <4>2, <4>3
      <3>3. CASE at[t] \notin owning[t]
        <4>1. Bookkeeping(t)'
          BY <2>9, <3>3, <1>0, LeaveKeeps DEF LeaveLane, TypeOK
        <4>2. HeldIsLocked'
          BY <2>9, <3>3 DEF LeaveLane, LaneInv, HeldIsLocked
        <4> QED BY <1>1, <1>2, <3>1, <4>1, <4>2
      <3> QED BY <3>2, <3>3
    <2>10. CASE End(t)
      <3>1. \A u \in Threads \ {t} : Same(u)
        BY <2>10 DEF End, Same, TypeOK
      <3>2. /\ op'[t] = <<>> /\ at[t] = 0 /\ at'[t] = 0 /\ mode[t] = "leaving"
            /\ mode'[t] = "idle" /\ held'[t] = held[t] /\ owning'[t] = owning[t]
        BY <2>10 DEF End, TypeOK
      <3>3. Bookkeeping(t)'
        BY <3>2, <1>0, ExchangeKeeps
      <3>4. HeldIsLocked'
        BY <2>10 DEF End, LaneInv, HeldIsLocked
      <3> QED BY <1>1, <1>2, <3>1, <3>3, <3>4
    <2> QED BY <1>2, <2>1, <2>2, <2>3, <2>4, <2>5, <2>6, <2>7, <2>8, <2>9, <2>10 DEF Step
  <1>3. ASSUME NEW t \in Threads, NEW contexts \in Operations, Begin(t, contexts)
        PROVE  LaneInv'
    <2>1. \A u \in Threads \ {t} : Same(u)
      BY <1>3 DEF Begin, Same, TypeOK
    <2>2. at[t] = 0 /\ mode[t] = "idle"
      BY <1>3, <1>0 DEF Begin, Bookkeeping, Placed
    <2>3. Len(contexts) \in Nat
      BY OperationsType
    <2>4. Bookkeeping(t)'
      BY <1>3, <1>0, <2>2, <2>3, ExchangeKeeps DEF Begin, TypeOK
    <2>5. HeldIsLocked'
      BY <1>3 DEF Begin, LaneInv, HeldIsLocked
    <2> QED BY <1>0, <2>1, <2>4, <2>5, SameKeeps DEF LaneInv
  <1>4. ASSUME NEW p \in Procs, Close(p) \/ AcceptClose(p) \/ GraceExpires(p)
        PROVE  LaneInv'
    <2>1. (\A u \in Threads : Same(u)) /\ UNCHANGED <<held, lock>>
      BY <1>4 DEF Close, AcceptClose, GraceExpires, Same
    <2> QED BY <1>0, <2>1, SameKeeps DEF LaneInv, HeldIsLocked
  <1>5. ASSUME NEW p \in Procs, Exit(p) \/ Crash(p) PROVE LaneInv'
    <2>1. PICK last \in {"exited", "open"} : Vanish(p, last)
      BY <1>5 DEF Exit, Quit, WatchdogExit, Crash
    <2>2. ASSUME NEW t \in Threads, ProcOf[t] # p PROVE Bookkeeping(t)'
      BY <2>1, <2>2, <1>0, SameKeeps DEF Vanish, Same
    <2>3. ASSUME NEW t \in Threads, ProcOf[t] = p PROVE Bookkeeping(t)'
      BY <2>1, <2>3 DEF Vanish, Bookkeeping, Placed, InsideIsHeld, OwnerIsOutermost,
                        OneOwner, HeldIsOwned
    <2>4. HeldIsLocked'
      BY <2>1, NoneAssumption DEF Vanish, LaneInv, HeldIsLocked, TypeOK
    <2> QED BY <2>2, <2>3, <2>4 DEF LaneInv
  <1>6. CASE UNCHANGED vars
    <2>1. (\A u \in Threads : Same(u)) /\ UNCHANGED <<held, lock>>
      BY <1>6 DEF Same
    <2> QED BY <1>0, <2>1, SameKeeps DEF LaneInv, HeldIsLocked
  <1> QED BY <1>2, <1>3, <1>4, <1>5, <1>6 DEF Next
-----------------------------------------------------------------------------
LEMMA InsideHolds ==
    ASSUME TypeOK, LaneInv, NEW t \in Threads, NEW r \in Roots, Inside(t, r)
    PROVE  lock[r] = t
  <1>1. r \in held[t]
    BY NoneAssumption DEF LaneInv, Bookkeeping, InsideIsHeld, Inside
  <1> QED BY <1>1 DEF LaneInv, HeldIsLocked

LEMMA ShortOperations ==
    ASSUME NEW o \in Operations, NEW r \in Roots PROVE o # Recovering(r)
  <1>1. Len(Recovering(r)) = 4
    BY DEF Recovering
  <1>2. \/ \E s \in Roots : o \in {Transaction(s), <<Lane(s)>>, <<Scope, RecoveryLane(s)>>}
        \/ \E s, q \in Roots : o \in {<<Lane(s), Lane(q)>>, <<Scope, Lane(s), Lane(q)>>}
    BY DEF Operations
  <1>3. Len(o) # 4
    BY <1>2 DEF Transaction
  <1> QED BY <1>1, <1>3

(* Only a nested recovery follows another context of its installation. *)
LEMMA NestedRecovery ==
    ASSUME NEW o \in Operations \cup Extended \cup {<<>>}, NEW r \in Roots,
           NEW k \in 1 .. Len(o), NEW j \in 1 .. k - 1,
           o[k] = RecoveryLane(r), o[j].root = r
    PROVE  o = Recovering(r)
  <1> USE NoneAssumption DEF Scope, Lane, RecoveryLane
  <1>1. CASE \E s \in Roots : o = Transaction(s)
    BY <1>1 DEF Transaction
  <1>2. CASE \E s \in Roots : o = <<Lane(s)>>
    BY <1>2
  <1>3. CASE \E s \in Roots : o = <<Scope, RecoveryLane(s)>>
    BY <1>3
  <1>4. CASE \E s, q \in Roots : o = <<Lane(s), Lane(q)>>
    BY <1>4
  <1>5. CASE \E s, q \in Roots : o = <<Scope, Lane(s), Lane(q)>>
    BY <1>5
  <1>6. CASE \E s \in Roots : o = RollingBack(s)
    BY <1>6 DEF RollingBack
  <1>7. CASE \E s \in Roots : o = Recovering(s)
    BY <1>7 DEF Recovering
  <1>8. CASE o = <<>>
    BY <1>8
  <1> QED BY <1>1, <1>2, <1>3, <1>4, <1>5, <1>6, <1>7, <1>8 DEF Operations, Extended

(* One thread and one installation of InterruptedIsolated. *)
Isolated(t, r) ==
    r \in journal /\ Inside(t, r) =>
        wrote[t] = r \/ \E k \in 1 .. at[t] : op[t][k] = RecoveryLane(r)

LEMMA IsolatedKeeps ==
    ASSUME NEW t, NEW r, Isolated(t, r), r \in journal' => r \in journal,
           at'[t] = at[t], wrote'[t] = wrote[t],
           \A k \in 1 .. at[t] : op'[t][k] = op[t][k]
    PROVE  Isolated(t, r)'
  BY DEF Isolated, Inside

LEMMA JournalStep == TypeOK /\ LaneInv /\ JournalInv /\ [Next]_vars => JournalInv'
  <1> SUFFICES ASSUME TypeOK, LaneInv, JournalInv, [Next]_vars PROVE JournalInv'
    OBVIOUS
  <1> USE DEF lanes, exits, threads, vars, Turn, Entered
  <1>0. ASSUME NEW t \in Threads
        PROVE  /\ Bookkeeping(t) /\ \A r \in Roots : Isolated(t, r)
               /\ op[t] \in Operations \cup Extended \cup {<<>>}
               /\ Len(op[t]) \in 0 .. 4 /\ at[t] \in 0 .. 4 /\ at[t] <= Len(op[t])
    <2>1. Bookkeeping(t) /\ Len(op[t]) \in 0 .. 4
      BY OperationsType DEF TypeOK, LaneInv
    <2> QED BY <2>1 DEF TypeOK, Bookkeeping, Placed, JournalInv, InterruptedIsolated, Isolated
  <1>1. ASSUME journal' \subseteq Roots, \A t \in Threads, r \in Roots : Isolated(t, r)'
        PROVE  InterruptedIsolated'
    BY <1>1 DEF InterruptedIsolated, Isolated, Inside
  <1>2. ASSUME NEW t \in Threads, Step(t) PROVE RecoveryOfOwn'
    <2>1. ASSUME op' = op, wrote' = wrote PROVE RecoveryOfOwn'
      BY <2>1 DEF JournalInv, RecoveryOfOwn
    <2>2. CASE \E r \in Roots : WriteJournal(t, r)
      <3>1. \A r \in Roots : op[t] # Recovering(r)
        BY <2>2, ShortOperations DEF WriteJournal, Operations
      <3> QED BY <2>2, <3>1 DEF WriteJournal, JournalInv, RecoveryOfOwn, TypeOK
    <2>3. CASE \E r \in Roots : CallRecovery(t, r)
      <3>1. PICK r \in Roots : CallRecovery(t, r) BY <2>3
      <3>2. \A q, z \in Roots : Recovering(q) = Recovering(z) => q = z
        BY DEF Recovering, Lane
      <3>3. \A q, z \in Roots : Recovering(q) # RollingBack(z)
        BY DEF Recovering, RollingBack, Lane, RecoveryLane
      <3> QED BY <3>1, <3>2, <3>3 DEF CallRecovery, JournalInv, RecoveryOfOwn, TypeOK
    <2>4. CASE End(t)
      <3>1. \A r \in Roots : <<>> # Recovering(r)
        BY DEF Recovering
      <3> QED BY <2>4, <3>1 DEF End, JournalInv, RecoveryOfOwn, TypeOK
    <2> QED BY <1>2, <2>1, <2>2, <2>3, <2>4
            DEF Step, EnterScope, ReenterLane, LockLane, CheckJournal, SettleJournal,
                Leave, LeaveScope, LeaveLane
  <1>3. ASSUME NEW t \in Threads, Step(t), NEW u \in Threads, NEW r \in Roots
        PROVE  Isolated(u, r)'
    <2>1. CASE \E q \in Roots : WriteJournal(t, q)
      <3>1. PICK q \in Roots : WriteJournal(t, q) BY <2>1
      <3>2. Inside(t, q)
        BY <3>1 DEF WriteJournal, AtBody, Transaction, Inside, Lane
      <3>3. lock[q] = t
        BY <3>2, InsideHolds
      <3>4. CASE u # t
        <4>1. ~(r = q /\ Inside(u, r))
          BY <3>3, <3>4, InsideHolds
        <4>2. op' = op /\ at' = at /\ wrote'[u] = wrote[u] /\ journal' = journal \cup {q}
          BY <3>1, <3>4 DEF WriteJournal, TypeOK
        <4> QED BY <1>0, <4>1, <4>2 DEF Isolated, Inside
      <3>5. CASE u = t
        <4>1. /\ op' = op /\ at' = at /\ wrote[t] = None /\ wrote'[t] = q
              /\ journal' = journal \cup {q}
          BY <3>1 DEF WriteJournal, TypeOK
        <4> QED BY <1>0, <3>5, <4>1, NoneAssumption DEF Isolated, Inside
      <3> QED BY <3>4, <3>5
    <2>2. CASE u # t /\ ~\E q \in Roots : WriteJournal(t, q)
      <3>1. /\ journal' \subseteq journal /\ at'[u] = at[u] /\ op'[u] = op[u]
            /\ wrote'[u] = wrote[u]
        BY <1>3, <2>2
           DEF Step, EnterScope, ReenterLane, LockLane, CheckJournal, SettleJournal,
               CallRecovery, Leave, LeaveScope, LeaveLane, End, TypeOK
      <3> QED BY <1>0, <3>1, IsolatedKeeps
    <2>3. CASE u = t /\ (LockLane(t) \/ Leave(t) \/ \E q \in Roots : SettleJournal(t, q))
      <3>1. journal' \subseteq journal /\ at' = at /\ op' = op /\ wrote' = wrote
        BY <2>3 DEF LockLane, Leave, SettleJournal
      <3> QED BY <1>0, <3>1, IsolatedKeeps
    <2>4. CASE u = t /\ \E q \in Roots : CallRecovery(t, q)
      <3>1. PICK q \in Roots : CallRecovery(t, q) BY <2>4
      <3>2. /\ at[t] = 2 /\ at' = at /\ wrote' = wrote /\ journal' = journal
            /\ op'[t][1] = op[t][1] /\ op'[t][2] = op[t][2]
        BY <3>1 DEF CallRecovery, AtBody, Transaction, Recovering, RollingBack, TypeOK
      <3>3. \A k \in 1 .. at[t] : op'[t][k] = op[t][k]
        BY <3>2
      <3> QED BY <2>4, <1>0, <3>2, <3>3, IsolatedKeeps
    <2>5. CASE u = t /\ EnterScope(t)
      <3>1. CASE at' = at
        BY <2>5, <3>1, <1>0, IsolatedKeeps DEF EnterScope
      <3>2. CASE at' # at
        <4>1. /\ at'[t] = at[t] + 1 /\ at[t] < Len(op[t]) /\ at[t] + 1 \in 1 .. Len(op[t])
              /\ op' = op /\ wrote' = wrote /\ journal' = journal
              /\ NextFrame(t).kind = "scope"
          BY <2>5, <3>2, <1>0, NextPosition DEF EnterScope, Entering, TypeOK
        <4>2. op[t][at[t] + 1].root = None
          BY <4>1, FrameType DEF NextFrame
        <4>3. Inside(t, r)' => Inside(t, r)
          BY <1>0, <4>1, <4>2, NoneAssumption DEF Inside
        <4> QED BY <2>5, <1>0, <4>1, <4>3 DEF Isolated
      <3> QED BY <3>1, <3>2
    <2>6. CASE u = t /\ ReenterLane(t)
      <3>1. /\ at'[t] = at[t] + 1 /\ mode[t] = "entering"
            /\ op' = op /\ wrote' = wrote /\ journal' = journal
            /\ NextFrame(t).root \in held[t]
        BY <2>6 DEF ReenterLane, Entering, Holds, TypeOK
      <3>2. \E k \in 1 .. at[t] : op[t][k].root = NextFrame(t).root
        BY <1>0, <3>1 DEF Bookkeeping, HeldIsOwned, Placed
      <3>3. Inside(t, r)' => Inside(t, r)
        <4>1. SUFFICES ASSUME NEW k \in 1 .. at[t] + 1, op[t][k].root = r
                       PROVE  \E j \in 1 .. at[t] : op[t][j].root = r
          BY <3>1 DEF Inside
        <4>2. at[t] \in Nat
          BY <1>0
        <4>3. k \in 1 .. at[t] \/ k = at[t] + 1
          BY <4>2
        <4>4. CASE k \in 1 .. at[t]
          BY <4>1, <4>4
        <4>5. CASE k = at[t] + 1
          <5>1. NextFrame(t).root = r
            BY <4>1, <4>5 DEF NextFrame
          <5> QED BY <3>2, <5>1
        <4> QED BY <4>3, <4>4, <4>5
      <3> QED BY <2>6, <1>0, <3>1, <3>3 DEF Isolated
    <2>7. CASE u = t /\ CheckJournal(t)
      <3>1. CASE at' = at
        BY <2>7, <3>1, <1>0, IsolatedKeeps DEF CheckJournal
      <3>2. CASE at' # at
        <4>1. /\ at'[t] = at[t] + 1
              /\ op' = op /\ wrote' = wrote /\ journal' = journal
              /\ NextFrame(t).kind = "recovery" \/ NextFrame(t).root \notin journal
          BY <2>7, <3>2 DEF CheckJournal, TypeOK
        <4>2. at[t] + 1 \in 1 .. Len(op[t])
          BY <2>7, <1>0, NextPosition DEF CheckJournal, Bookkeeping, Placed
        <4>3. NextFrame(t).kind = "recovery" =>
                NextFrame(t) = RecoveryLane(NextFrame(t).root)
          <5>1. op[t] \in Seq(Frames)
            BY OperationsType DEF TypeOK
          <5>2. NextFrame(t) \in Frames
            BY <4>2, <5>1 DEF NextFrame
          <5> QED BY <5>2 DEF Frames, Scope, Lane, RecoveryLane
        <4>4. CASE r = NextFrame(t).root
          BY <2>7, <1>0, <4>1, <4>3, <4>4 DEF Isolated, NextFrame
        <4>5. CASE r # NextFrame(t).root
          <5>1. Inside(t, r)' => Inside(t, r)
            BY <1>0, <4>1, <4>5 DEF Inside, NextFrame
          <5> QED BY <2>7, <1>0, <4>1, <5>1 DEF Isolated
        <4> QED BY <4>4, <4>5
      <3> QED BY <3>1, <3>2
    <2>8. CASE u = t /\ (LeaveScope(t) \/ LeaveLane(t))
      <3>1. /\ at[t] > 0 /\ at'[t] = at[t] - 1
            /\ op' = op /\ wrote' = wrote /\ journal' = journal
        BY <2>8 DEF LeaveScope, LeaveLane, TypeOK
      <3>2. ASSUME Inside(t, r)', op[t][at[t]] = RecoveryLane(r) PROVE wrote[t] = r
        <4>1. PICK j \in 1 .. at[t] - 1 : op[t][j].root = r
          BY <3>1, <3>2 DEF Inside
        <4>2. op[t] = Recovering(r)
          BY <1>0, <3>1, <3>2, <4>1, NestedRecovery
        <4> QED BY <4>2 DEF JournalInv, RecoveryOfOwn
      <3>3. Inside(t, r)' => Inside(t, r)
        BY <1>0, <3>1 DEF Inside
      <3> QED BY <2>8, <1>0, <3>1, <3>2, <3>3 DEF Isolated
    <2>9. CASE u = t /\ End(t)
      <3>1. at'[t] = 0
        BY <2>9 DEF End, TypeOK
      <3> QED BY <2>9, <3>1 DEF Isolated, Inside
    <2> QED BY <1>3, <2>1, <2>2, <2>3, <2>4, <2>5, <2>6, <2>7, <2>8, <2>9 DEF Step
  <1>4. ASSUME NEW t \in Threads, NEW contexts \in Operations, Begin(t, contexts)
        PROVE  JournalInv'
    <2>1. at[t] = 0
      BY <1>4, <1>0 DEF Begin, Bookkeeping, Placed
    <2>2. \A u \in Threads, r \in Roots : Isolated(u, r)'
      <3> SUFFICES ASSUME NEW u \in Threads, NEW r \in Roots PROVE Isolated(u, r)'
        OBVIOUS
      <3>1. \A k \in 1 .. at[u] : op'[u][k] = op[u][k]
        BY <1>4, <2>1 DEF Begin, TypeOK
      <3> QED BY <1>4, <1>0, <3>1, IsolatedKeeps DEF Begin
    <2>3. RecoveryOfOwn'
      BY <1>4, ShortOperations DEF Begin, JournalInv, RecoveryOfOwn, TypeOK
    <2> QED BY <1>4, <1>1, <2>2, <2>3 DEF Begin, JournalInv, TypeOK
  <1>5. ASSUME NEW p \in Procs, Close(p) \/ AcceptClose(p) \/ GraceExpires(p)
        PROVE  JournalInv'
    BY <1>5 DEF Close, AcceptClose, GraceExpires, JournalInv, RecoveryOfOwn,
                InterruptedIsolated, Inside
  <1>6. ASSUME NEW p \in Procs, Exit(p) \/ Crash(p) PROVE JournalInv'
    <2>1. PICK last \in {"exited", "open"} : Vanish(p, last)
      BY <1>6 DEF Exit, Quit, WatchdogExit, Crash
    <2>2. ASSUME NEW t \in Threads, NEW r \in Roots PROVE Isolated(t, r)'
      <3>1. CASE ProcOf[t] = p
        BY <2>1, <3>1 DEF Vanish, Isolated, Inside
      <3>2. CASE ProcOf[t] # p
        BY <2>1, <3>2, <1>0, IsolatedKeeps DEF Vanish
      <3> QED BY <3>1, <3>2
    <2>3. RecoveryOfOwn'
      <3>1. \A r \in Roots : <<>> # Recovering(r)
        BY DEF Recovering
      <3> QED BY <2>1, <3>1 DEF Vanish, JournalInv, RecoveryOfOwn
    <2> QED BY <2>1, <1>1, <2>2, <2>3 DEF Vanish, JournalInv, TypeOK
  <1>7. CASE UNCHANGED vars
    BY <1>7 DEF JournalInv, RecoveryOfOwn, InterruptedIsolated, Inside
  <1>8. ASSUME NEW t \in Threads, Step(t) PROVE JournalInv'
    <2>1. journal' \subseteq Roots
      BY <1>8 DEF Step, EnterScope, ReenterLane, LockLane, CheckJournal, SettleJournal,
                  CallRecovery, Leave, LeaveScope, LeaveLane, End, WriteJournal, TypeOK
    <2> QED BY <1>8, <1>1, <1>2, <1>3, <2>1 DEF JournalInv
  <1> QED BY <1>4, <1>5, <1>6, <1>7, <1>8 DEF Next
-----------------------------------------------------------------------------
LEMMA ExitStep == TypeOK /\ LaneInv /\ ExitInv /\ [Next]_vars => ExitInv'
  <1> SUFFICES ASSUME TypeOK, LaneInv, ExitInv, [Next]_vars PROVE ExitInv'
    OBVIOUS
  <1> USE DEF lanes, exits, threads, vars, Turn, Entered
  <1>0. \A t \in Threads : at[t] \in 0 .. 4 /\ (mode[t] = "idle" => at[t] = 0)
    BY DEF TypeOK, LaneInv, Bookkeeping, Placed
  <1>1. ASSUME NEW t \in Threads, Step(t) PROVE ScopesAdmitted'
    <2>1. CASE EnterScope(t)
      BY <2>1, <1>0 DEF EnterScope, ExitInv, ScopesAdmitted, TypeOK
    <2>2. CASE ReenterLane(t)
      <3>1. op[t][at[t] + 1].kind # "scope"
        BY <2>2 DEF ReenterLane, Entering, NextFrame
      <3> QED BY <2>2, <3>1, <1>0 DEF ReenterLane, ExitInv, ScopesAdmitted, TypeOK
    <2>3. CASE CheckJournal(t)
      <3>1. op[t][at[t] + 1].kind # "scope"
        <4>1. /\ at[t] + 1 \in 1 .. Len(op[t])
              /\ op[t][at[t] + 1].root \in Roots
          BY <2>3, NextPosition, OperationsType
             DEF CheckJournal, TypeOK, LaneInv, Bookkeeping, Placed
        <4> QED BY <4>1, FrameType, NoneAssumption
      <3> QED BY <2>3, <3>1, <1>0 DEF CheckJournal, ExitInv, ScopesAdmitted, TypeOK
    <2>4. CASE \E r \in Roots : CallRecovery(t, r)
      <3>1. PICK r \in Roots : CallRecovery(t, r) BY <2>4
      <3>2. /\ at[t] = 2 /\ at' = at /\ admitted' = admitted
            /\ op'[t][1] = op[t][1] /\ op'[t][2] = op[t][2]
            /\ \A u \in Threads \ {t} : op'[u] = op[u]
        BY <3>1 DEF CallRecovery, AtBody, Transaction, Recovering, RollingBack, TypeOK
      <3>3. \A u \in Threads : \A k \in 1 .. at[u] : op'[u][k] = op[u][k]
        BY <3>2
      <3> QED BY <3>2, <3>3 DEF ExitInv, ScopesAdmitted
    <2>5. CASE LeaveScope(t)
      BY <2>5, <1>0 DEF LeaveScope, ExitInv, ScopesAdmitted, TypeOK
    <2>6. CASE LeaveLane(t)
      BY <2>6, <1>0 DEF LeaveLane, ExitInv, ScopesAdmitted, TypeOK
    <2>7. CASE End(t)
      BY <2>7, <1>0 DEF End, ExitInv, ScopesAdmitted, TypeOK
    <2>8. CASE op' = op /\ at' = at /\ admitted' = admitted
      BY <2>8 DEF ExitInv, ScopesAdmitted
    <2> QED BY <1>1, <2>1, <2>2, <2>3, <2>4, <2>5, <2>6, <2>7, <2>8
            DEF Step, LockLane, WriteJournal, SettleJournal, Leave
  <1>2. ASSUME NEW t \in Threads, Step(t) PROVE AcceptedIsQuiet'
    <2>1. CASE EnterScope(t)
      <3> SUFFICES ASSUME NEW p \in Procs, phase'[p] = "accepted" PROVE Writes(p)' = {}
        BY <2>1 DEF EnterScope, ExitInv, AcceptedIsQuiet
      <3>1. p \in armed /\ Writes(p) = {}
        BY <2>1 DEF EnterScope, ExitInv, AcceptedIsQuiet
      <3>2. CASE ProcOf[t] = p
        <4>1. ~Nested(t)
          BY <3>1, <3>2 DEF Nested, Writes
        <4> QED BY <2>1, <3>1, <3>2, <4>1 DEF EnterScope, Writes
      <3>3. CASE ProcOf[t] # p
        BY <2>1, <3>1, <3>3 DEF EnterScope, Writes
      <3> QED BY <3>2, <3>3
    <2>2. CASE admitted' \subseteq admitted /\ UNCHANGED <<armed, phase>>
      BY <2>2 DEF ExitInv, AcceptedIsQuiet, Writes
    <2> QED BY <1>2, <2>1, <2>2
            DEF Step, ReenterLane, LockLane, CheckJournal, WriteJournal, SettleJournal,
                CallRecovery, Leave, LeaveScope, LeaveLane, End
  <1>3. ASSUME NEW t \in Threads, NEW contexts \in Operations, Begin(t, contexts)
        PROVE  ExitInv'
    BY <1>3, <1>0 DEF Begin, ExitInv, ScopesAdmitted, AcceptedIsQuiet, Writes, TypeOK
  <1>4. ASSUME NEW p \in Procs, Close(p) \/ AcceptClose(p) \/ GraceExpires(p)
        PROVE  ExitInv'
    BY <1>4 DEF Close, AcceptClose, GraceExpires, ExitInv, ScopesAdmitted,
                AcceptedIsQuiet, Writes, TypeOK
  <1>5. ASSUME NEW p \in Procs, Exit(p) \/ Crash(p) PROVE ExitInv'
    <2>1. PICK last \in {"exited", "open"} : Vanish(p, last)
      BY <1>5 DEF Exit, Quit, WatchdogExit, Crash
    <2>2. ScopesAdmitted'
      BY <2>1, ProcOfAssumption DEF Vanish, ExitInv, ScopesAdmitted, Writes
    <2>3. AcceptedIsQuiet'
      BY <2>1 DEF Vanish, ExitInv, AcceptedIsQuiet, Writes, TypeOK
    <2> QED BY <2>2, <2>3 DEF ExitInv
  <1>6. CASE UNCHANGED vars
    BY <1>6 DEF ExitInv, ScopesAdmitted, AcceptedIsQuiet, Writes
  <1> QED BY <1>1, <1>2, <1>3, <1>4, <1>5, <1>6 DEF Next, ExitInv
-----------------------------------------------------------------------------
LEMMA Invariance == Spec => [](TypeOK /\ LaneInv /\ JournalInv /\ ExitInv)
  <1>1. TypeOK /\ LaneInv /\ JournalInv /\ ExitInv /\ [Next]_vars
            => (TypeOK /\ LaneInv /\ JournalInv /\ ExitInv)'
    BY TypeStep, LaneStep, JournalStep, ExitStep
  <1> QED BY InitInv, <1>1, PTL DEF Spec

(* Threads, lanes, scopes and journals stay well-formed for any number of
   processes, threads and installations. *)
THEOREM TypeCorrect == Spec => []TypeOK
  BY Invariance, PTL

(* installation_lane admits one thread of all processes at a time to an
   installation, however operations nest, are refused, fail or die. *)
THEOREM LaneExclusion == Spec => []LaneExclusive
  <1>1. TypeOK /\ LaneInv => LaneExclusive
    BY InsideHolds DEF LaneExclusive
  <1> QED BY <1>1, Invariance, PTL

(* Over the journal of an interrupted transaction only its own operation and
   recoveries are inside the lane. *)
THEOREM InterruptionIsolated == Spec => []InterruptedIsolated
  BY Invariance, PTL DEF JournalInv

(* Refused, failed and dead operations leave no lane locked. *)
THEOREM LanesReturned == Spec => []LanesGivenBack
  <1>1. TypeOK /\ LaneInv => LanesGivenBack
    <2> SUFFICES ASSUME TypeOK, LaneInv, NEW r \in Roots, lock[r] # None
                 PROVE  /\ mode[lock[r]] # "idle"
                        /\ Inside(lock[r], r) \/ mode[lock[r]] = "checking"
      BY DEF LanesGivenBack
    <2> DEFINE t == lock[r]
    <2>1. t \in Threads /\ Bookkeeping(t) /\ r \in held[t]
      BY DEF TypeOK, LaneInv, HeldIsLocked
    <2>2. PICK k \in owning[t] : op[t][k].root = r
      BY <2>1 DEF Bookkeeping, HeldIsOwned
    <2>3. k \in 1 .. at[t] \/ mode[t] = "checking"
      BY <2>1 DEF Bookkeeping, Placed
    <2>4. mode[t] # "idle"
      BY <2>1, <2>3 DEF Bookkeeping, Placed, TypeOK
    <2> QED BY <2>2, <2>3, <2>4 DEF Inside
  <1> QED BY <1>1, Invariance, PTL

(* No process is ended, by its closed window or by the watchdog, while one of
   its threads is inside an archive write scope. *)
THEOREM ExitsSpareWrites == Spec => ExitSparesWrites
  <1>1. TypeOK /\ ExitInv /\ [Next]_vars =>
            [\A p \in Procs : phase[p] # "exited" /\ phase'[p] = "exited" =>
                \A t \in Threads : ProcOf[t] = p => ~InScope(t)]_vars
    <2> SUFFICES ASSUME TypeOK, ExitInv, [Next]_vars, NEW p \in Procs,
                        phase[p] # "exited", phase'[p] = "exited",
                        NEW t \in Threads, ProcOf[t] = p
                 PROVE  ~InScope(t)
      OBVIOUS
    <2>1. Exit(p)
      <3> USE DEF vars, lanes, exits, threads
      <3>1. CASE \E u \in Threads : Step(u) \/ \E c \in Operations : Begin(u, c)
        BY <3>1 DEF Step, EnterScope, ReenterLane, LockLane, CheckJournal, WriteJournal,
                    SettleJournal, CallRecovery, Leave, LeaveScope, LeaveLane, End, Begin
      <3>2. CASE \E q \in Procs : Close(q) \/ AcceptClose(q) \/ GraceExpires(q)
        BY <3>2 DEF Close, AcceptClose, GraceExpires, TypeOK
      <3>3. ASSUME NEW q \in Procs, Exit(q) PROVE p = q
        BY <3>3 DEF Exit, Quit, WatchdogExit, Vanish, TypeOK
      <3>4. ASSUME NEW q \in Procs, Crash(q) PROVE FALSE
        BY <3>4 DEF Crash, Vanish, TypeOK
      <3> QED BY <3>1, <3>2, <3>3, <3>4 DEF Next
    <2>2. Writes(p) = {}
      BY <2>1 DEF Exit, Quit, WatchdogExit, ExitInv, AcceptedIsQuiet
    <2>3. ASSUME NEW k \in 1 .. at[t], op[t][k].kind = "scope" PROVE FALSE
      <3>1. <<t, k>> \in admitted
        BY <2>3 DEF ExitInv, ScopesAdmitted
      <3>2. <<t, k>> \in Writes(p)
        BY <3>1 DEF Writes
      <3> QED BY <2>2, <3>2
    <2> QED BY <2>3 DEF InScope
  <1> QED BY <1>1, Invariance, PTL DEF Spec, ExitSparesWrites
===============================================================================
