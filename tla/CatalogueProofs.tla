---------------------------- MODULE CatalogueProofs ----------------------------
(* Theorems about the archive catalogue service and the client of its worker.  *)
(*                                                                             *)
(* The argument has three layers.  Every method of the client keeps what its   *)
(* own state must satisfy (Sane) and says what it changes: nothing is pending, *)
(* sent or said that was not (Sheds), what is not pending any more was said to *)
(* have ended (Tells), a worker that runs is not replaced (Keeps).  Then the   *)
(* invariant that relates client and service (Inductive) follows from these    *)
(* alone for whatever the service does that changes its requests in one of the *)
(* known ways (Follows).  Last, each action is shown to be such a step         *)
(* (Proceeds), and the properties follow from the invariant and the steps.     *)
EXTENDS CatalogueService, TLAPS

Opens == {"open", "reopen"}
Endings == {"failed", "cancelled", "succeeded"}
Attended == {"waiting", "stalling"}

(* Which states of the client and of its process go together, and what may be  *)
(* pending in each.                                                            *)
Live(t) ==
  /\ t.worker.alive => Running(t)
  /\ t.state = "stopped" => ~ Running(t)
  /\ t.state = "starting" =>
       t.process = "starting" /\ t.worker.alive /\ t.worker.killed = "no"
  /\ t.state \in {"handshaking", "ready"} =>
       t.process = "running" \/ (t.process = "exited" /\ (t.turn \/ t.reading))
  /\ t.process = "starting" /\ t.worker.killed = "no" => t.state = "starting"
  /\ t.expected => t.state \in {"failed", "stopping", "stopped"}
  /\ t.state = "failed" /\ t.pending # {} => Running(t) /\ t.restart
  /\ t.state \in {"stopped", "stopping"} => t.pending = {}
  /\ t.queue \subseteq t.pending
  /\ t.state # "ready" => t.pending \subseteq t.queue

(* A handshake is answered once, while it is awaited. *)
Words(t) == {t.worker.stdout[i] : i \in DOMAIN t.worker.stdout}
Greets(t, i) == t.worker.stdout[i].wire = Ping.wire
Greeting(t) ==
  /\ Ping \notin t.pending
  /\ Ping \in t.worker.working =>
       t.state = "handshaking" /\ \A i \in DOMAIN t.worker.stdout : ~ Greets(t, i)
  /\ \A i \in DOMAIN t.worker.stdout : Greets(t, i) =>
       /\ t.state = "handshaking"
       /\ \A j \in DOMAIN t.worker.stdout : Greets(t, j) => i = j

Sane(t) == t \in Transport /\ Live(t) /\ Greeting(t)

(* The attempts of a request, and the numbers given so far. *)
Regular(s, r) ==
  /\ IF r.op = "reopen" THEN MaxRequests < r.id /\ r.id <= MaxRequests + s.reopened
     ELSE 0 < r.id /\ r.id <= s.asked
  /\ r.op \in Opens <=> r.session = NoSession
  /\ r.wire = IF r.phase \in Attended THEN <<r.id, r.attempts>> ELSE NoWire
  /\ r.attempts <= IF r.spent /\ Recoverable(r) /\ r.phase \in Attended THEN 2 ELSE 1
  /\ r.phase \notin Attended => Recoverable(r) /\ r.spent
Numbered(s) ==
  /\ s \in Service /\ s.asked <= MaxRequests
  /\ \A r \in s.requests : Regular(s, r)
  /\ \A r, q \in s.requests : r.id = q.id => r = q
  /\ s.closing => s.requests = {}

Used(s, wire) ==
  /\ wire \in Wire
  /\ wire[1] <= s.asked \/ (MaxRequests < wire[1] /\ wire[1] <= MaxRequests + s.reopened)
  /\ \A r \in s.requests : r.id = wire[1] => wire[2] <= r.attempts

(* What there is to know of the sessions and their archives. *)
Results(t) == {m \in Words(t) : m.status = "result"} \cup {m \in t.signals : m.signal = "succeeded"}
Known(t, s) ==
  {f \in t.worker.sessions \cup {<<m.session, m.print>> : m \in Results(t)} \cup s.sessions
          \cup {<<r.session, r.asked>> : r \in {q \in s.requests : q.op \notin Opens}} :
     f[1] # NoSession}

(* Every number was given, each to one attempt, and none is the name of a      *)
(* session before the worker has answered it.                                  *)
Wired(t, s) ==
  /\ \A p \in t.pending \cup t.worker.working :
       Used(s, p.wire) /\ ((p.wire[1] > 0 /\ p.op # "ping") \/ p = Ping)
  /\ \A p \in t.pending : p.wire[1] > 0
  /\ \A m \in Words(t) \cup t.signals : Used(s, m.wire)
  /\ \A m \in t.signals : m.signal \in Endings => m.wire[1] > 0
  /\ \A m \in Words(t), p \in t.queue : m.wire # p.wire
  /\ \A p, q \in t.pending \cup t.worker.working : p.wire = q.wire => p = q
  /\ t.worker.working \cap t.queue = {}
Named(t, s) ==
  /\ \A f \in Known(t, s) : Used(s, f[1])
  /\ \A known \in t.worker.sessions \cup s.sessions : known[1] # NoSession
  /\ \A m \in Results(t) : m.session # NoSession \/ m.wire = NoWire
  /\ \A a \in s.aliases : Used(s, a[1]) /\ a[1] # NoSession
  /\ \A e \in t.worker.working \cup t.queue :
       /\ \A f \in Known(t, s) : e.wire # f[1]
       /\ \A a \in s.aliases : e.wire # a[1]

(* A session stands for the same archives wherever it is known. *)
Agreed(t, s) ==
  /\ \A f, g \in Known(t, s) : f[1] = g[1] => f[2] = g[2]
  /\ \A a \in s.aliases :
       /\ \E known \in s.sessions : known[1] = a[2]
       /\ \A f, g \in Known(t, s) : f[1] = a[1] /\ g[1] = a[2] => f[2] = g[2]

(* What is pending is what a request asks, and what is said is about it.       *)
Matching(t, s) ==
  /\ \A p \in t.pending, r \in s.requests :
       p.wire = r.wire => p.op = r.op /\ p.gen = r.gen /\ p.session = r.session
  /\ \A p \in t.pending, m \in Words(t) :
       p.wire = m.wire /\ p.op \notin Opens /\ m.status = "result" => m.session = p.session
  /\ \A m \in t.signals, r \in s.requests :
       m.signal = "succeeded" /\ m.wire = r.wire /\ r.op \notin Opens => m.print = r.asked
  /\ \A p \in t.pending : p.wire[2] <= IF p.op = "export" THEN 1 ELSE 2

Timely(t, s) ==
  /\ s.least = t.least
  /\ t.state = "stopping" => s.closing
  /\ \A m \in t.signals, r \in s.requests :
       m.signal = "succeeded" /\ m.wire = r.wire => r.gen >= s.least

(* A request that waits is pending, or has just been said to have ended; one   *)
(* that is given time to be cancelled was sent.                                *)
Awaited(t, s) ==
  \A r \in s.requests : r.phase \in Attended =>
    \/ \E p \in t.pending : p.wire = r.wire /\ (r.phase = "stalling" => p \notin t.queue)
    \/ \E m \in t.signals : m.wire = r.wire /\ m.signal \in Endings

Inductive(t, s) ==
  /\ Sane(t) /\ Numbered(s) /\ Wired(t, s) /\ Named(t, s) /\ Agreed(t, s)
  /\ Matching(t, s) /\ Timely(t, s) /\ Awaited(t, s)

-----------------------------------------------------------------------------
(* What the methods of the client do to the transport. *)

(* Nothing new is pending, sent or said, and no result is made up. *)
Sheds(t, u) ==
  /\ u.pending \subseteq t.pending /\ u.queue \subseteq t.queue
  /\ u.worker.working \subseteq t.worker.working \cup t.queue \cup {Ping}
  /\ t.worker.working \cap t.queue = {} => u.worker.working \cap u.queue = {}
  /\ Words(u) \subseteq Words(t) /\ u.worker.sessions \subseteq t.worker.sessions
  /\ \A m \in u.signals \ t.signals :
       \/ m.signal \in {"crashed", "ready"} /\ m.wire = NoWire
       \/ m.signal \in {"failed", "cancelled"} /\ \E p \in t.pending : p.wire = m.wire

(* What is not pending any more was said to have ended. *)
Tells(t, u) ==
  /\ t.signals \subseteq u.signals
  /\ \A p \in t.pending \ u.pending : \E m \in u.signals : m.wire = p.wire /\ m.signal \in Endings

(* A worker that runs is not replaced, and the client does not begin to stop. *)
Keeps(t, u) ==
  /\ t.worker.alive => u.process = t.process /\ u.worker.alive
  /\ u.state = "stopping" => t.state = "stopping"
  /\ u.least = t.least

(* All of it. *)
Serves(t, u) == u \in Transport /\ Sheds(t, u) /\ Tells(t, u) /\ Keeps(t, u)

(* Nothing of the process and of what the client thinks of it changes. *)
SameProcess(t, u) ==
  /\ u.state = t.state /\ u.process = t.process /\ u.expected = t.expected
  /\ u.restart = t.restart /\ u.turn = t.turn /\ u.reading = t.reading
Without(t, R, u) ==
  u.pending = t.pending \ R /\ u.queue = t.queue \ R /\ u.worker = t.worker

LEMMA ShedsTwice ==
  ASSUME NEW t \in Transport, NEW u \in Transport, NEW v \in Transport,
         Sheds(t, u), Sheds(u, v), Ping \notin t.pending, t.queue \subseteq t.pending
  PROVE  Sheds(t, v)
  <1>1. /\ v.pending \subseteq t.pending /\ v.queue \subseteq t.queue
        /\ v.worker.working \subseteq t.worker.working \cup t.queue \cup {Ping}
        /\ t.worker.working \cap t.queue = {} => v.worker.working \cap v.queue = {}
        /\ Words(v) \subseteq Words(t) /\ v.worker.sessions \subseteq t.worker.sessions
    BY DEF Sheds
  <1>2. ASSUME NEW m \in v.signals \ t.signals
        PROVE  \/ m.signal \in {"crashed", "ready"} /\ m.wire = NoWire
               \/ m.signal \in {"failed", "cancelled"} /\ \E p \in t.pending : p.wire = m.wire
    BY DEF Sheds
  <1> QED BY <1>1, <1>2 DEF Sheds

LEMMA TellsTwice ==
  ASSUME NEW t \in Transport, NEW u \in Transport, NEW v \in Transport,
         Tells(t, u), Tells(u, v)
  PROVE  Tells(t, v)
  BY DEF Tells

LEMMA SignalTyped ==
  ASSUME NEW wire \in Wire, NEW code \in Failures \cup {""},
         NEW name \in {"failed", "cancelled", "succeeded", "crashed", "ready"}
  PROVE  /\ Signal(name, wire, code) \in Signals
         /\ Signal(name, wire, code).signal = name /\ Signal(name, wire, code).wire = wire
  <1>1. NoSession \in Wire /\ 0 \in Nat
    BY DEF NoSession, Wire
  <1> QED BY <1>1 DEF Signal, Signals

LEMMA PendingTyped ==
  ASSUME NEW t \in Transport
  PROVE  /\ \A r \in t.pending \cup t.queue \cup t.worker.working :
              r \in Envelope /\ r.wire \in Wire /\ r.session \in Wire /\ r.gen \in Nat
         /\ t.worker \in Process /\ t.least \in Nat
         /\ \A m \in t.signals : m \in Signals /\ m.wire \in Wire /\ m.session \in Wire /\ m.print \in Nat
  <1>1. t.worker \in Process
    BY DEF Transport
  <1>2. t.worker.working \in SUBSET Envelope
    BY <1>1 DEF Process
  <1>3. \A r \in t.pending \cup t.queue \cup t.worker.working : r \in Envelope
    BY <1>2 DEF Transport
  <1>4. \A r \in Envelope : r.wire \in Wire /\ r.session \in Wire /\ r.gen \in Nat
    BY DEF Envelope
  <1>5. \A m \in t.signals : m \in Signals
    BY DEF Transport
  <1>6. \A m \in Signals : m.wire \in Wire /\ m.session \in Wire /\ m.print \in Nat
    BY DEF Signals
  <1>7. t.least \in Nat
    BY DEF Transport
  <1> QED BY <1>1, <1>3, <1>4, <1>5, <1>6, <1>7

LEMMA SameWorker ==
  ASSUME NEW t, NEW u, u.worker = t.worker
  PROVE  Words(u) = Words(t) /\ (Greeting(t) => \A i \in DOMAIN u.worker.stdout : Greets(u, i) <=> Greets(t, i))
  BY DEF Words, Greets

LEMMA FailDoes ==
  ASSUME NEW t \in Transport, NEW R \in SUBSET t.pending, NEW code \in Failures,
         NEW u, u = Fail(t, R, code)
  PROVE  Serves(t, u) /\ SameProcess(t, u) /\ Without(t, R, u)
  <1> DEFINE said == {Signal("failed", r.wire, code) : r \in R}
  <1>1. \A r \in R : /\ Signal("failed", r.wire, code) \in Signals
                     /\ Signal("failed", r.wire, code).wire = r.wire
                     /\ Signal("failed", r.wire, code).signal = "failed"
    <2>1. code \in Failures \cup {""} /\ "failed" \in {"failed", "cancelled", "succeeded", "crashed", "ready"}
      OBVIOUS
    <2>2. \A r \in R : r.wire \in Wire
      BY PendingTyped
    <2> QED BY <2>1, <2>2, SignalTyped
  <1>2. u = [t EXCEPT !.pending = @ \ R, !.queue = @ \ R, !.signals = @ \cup said]
    BY DEF Fail
  <1>3. said \in SUBSET Signals
    BY <1>1
  <1>4. \A m \in said : m.signal = "failed" /\ \E r \in R : r.wire = m.wire
    BY <1>1
  <1>5. \A r \in R : \E m \in said : m.wire = r.wire /\ m.signal = "failed"
    BY <1>1
  <1> HIDE DEF said
  <1>6. /\ u.pending = t.pending \ R /\ u.queue = t.queue \ R
        /\ u.state = t.state /\ u.process = t.process /\ u.expected = t.expected
        /\ u.restart = t.restart /\ u.turn = t.turn /\ u.reading = t.reading
        /\ u.worker = t.worker /\ u.least = t.least
        /\ u.signals = t.signals \cup said
    BY <1>2 DEF Transport
  <1>7. u \in Transport
    BY <1>2, <1>3 DEF Transport
  <1>8. Words(u) = Words(t)
    BY <1>6 DEF Words
  <1>9. Sheds(t, u)
    BY <1>4, <1>6, <1>8 DEF Sheds
  <1>10. Tells(t, u)
    BY <1>5, <1>6 DEF Tells, Endings
  <1> QED BY <1>6, <1>7, <1>9, <1>10 DEF Keeps, Serves, SameProcess, Without

LEMMA FailSane ==
  ASSUME NEW t, Sane(t), NEW R \in SUBSET t.pending, NEW code \in Failures,
         NEW u, u = Fail(t, R, code)
  PROVE  Sane(u) /\ Serves(t, u)
  <1>1. t \in Transport
    BY DEF Sane
  <1>2. Serves(t, u) /\ SameProcess(t, u) /\ Without(t, R, u)
    BY <1>1, FailDoes
  <1>3. Live(u)
    BY <1>2 DEF Sane, Live, Running, SameProcess, Without
  <1>4. Greeting(u)
    BY <1>2 DEF Sane, Greeting, Greets, SameProcess, Without
  <1> QED BY <1>2, <1>3, <1>4 DEF Sane, Serves

LEMMA CancelSane ==
  ASSUME NEW t, Sane(t), NEW W \in SUBSET Wire, NEW u, u = Cancel(t, W)
  PROVE  Sane(u) /\ Serves(t, u) /\ (\A p \in u.pending : p.wire \in W => p \notin u.queue)
  <1> DEFINE found == {r \in t.pending : r.wire \in W}
             unsent == found \cap t.queue
             said == {Signal("cancelled", r.wire, "") : r \in unsent}
             told == IF t.state = "ready" /\ Running(t)
                     THEN t.worker.cancels \cup {r.wire : r \in found \ unsent}
                     ELSE t.worker.cancels
             w == [t.worker EXCEPT !.cancels = told]
  <1>1. t \in Transport /\ t.worker \in Process
    BY PendingTyped DEF Sane
  <1>2. \A r \in t.pending : r.wire \in Wire
    BY <1>1, PendingTyped
  <1>3. \A r \in unsent : /\ Signal("cancelled", r.wire, "") \in Signals
                          /\ Signal("cancelled", r.wire, "").wire = r.wire
                          /\ Signal("cancelled", r.wire, "").signal = "cancelled"
    <2>1. "" \in Failures \cup {""} /\ "cancelled" \in {"failed", "cancelled", "succeeded", "crashed", "ready"}
      OBVIOUS
    <2>2. \A r \in unsent : r.wire \in Wire
      BY <1>2
    <2> QED BY <2>1, <2>2, SignalTyped
  <1>4. told \in SUBSET Wire
    BY <1>1, <1>2 DEF Process
  <1>5. u = [t EXCEPT !.pending = @ \ unsent, !.queue = @ \ unsent, !.signals = @ \cup said,
                      !.worker = w]
    BY <1>1 DEF Cancel, Transport, Process
  <1>6. said \in SUBSET Signals
    BY <1>3
  <1>7. \A m \in said : m.signal = "cancelled" /\ \E r \in unsent : r.wire = m.wire
    BY <1>3
  <1>8. \A r \in unsent : \E m \in said : m.wire = r.wire /\ m.signal = "cancelled"
    BY <1>3
  <1>9. unsent \subseteq t.pending /\ \A p \in t.pending \ unsent : p.wire \in W => p \notin t.queue
    OBVIOUS
  <1> HIDE DEF said, told, unsent
  <1>10. /\ w \in Process /\ w.stdout = t.worker.stdout /\ w.working = t.worker.working
         /\ w.alive = t.worker.alive /\ w.killed = t.worker.killed /\ w.sessions = t.worker.sessions
    BY <1>1, <1>4 DEF Process
  <1> HIDE DEF w
  <1>11. /\ u.pending = t.pending \ unsent /\ u.queue = t.queue \ unsent /\ u.worker = w
         /\ u.signals = t.signals \cup said /\ u.least = t.least
    BY <1>1, <1>5 DEF Transport
  <1>12. SameProcess(t, u)
    BY <1>1, <1>5 DEF Transport, SameProcess
  <1>13. u \in Transport
    BY <1>1, <1>5, <1>6, <1>10 DEF Transport
  <1>14. Words(u) = Words(t)
    BY <1>10, <1>11 DEF Words
  <1>15. Sheds(t, u)
    BY <1>7, <1>9, <1>10, <1>11, <1>14 DEF Sheds
  <1>16. Tells(t, u)
    BY <1>8, <1>11 DEF Tells, Endings
  <1>17. Keeps(t, u)
    BY <1>10, <1>11, <1>12 DEF Keeps, SameProcess
  <1>18. Live(u)
    BY <1>10, <1>11, <1>12 DEF Sane, Live, Running, SameProcess
  <1>19. Greeting(u)
    BY <1>10, <1>11, <1>12 DEF Sane, Greeting, Greets, SameProcess
  <1>20. \A p \in u.pending : p.wire \in W => p \notin u.queue
    BY <1>9, <1>11
  <1> QED BY <1>13, <1>15, <1>16, <1>17, <1>18, <1>19, <1>20 DEF Sane, Serves

LEMMA ForsakenDoes ==
  ASSUME NEW w \in Process, NEW v, v = Forsaken(w)
  PROVE  /\ v \in Process /\ v.alive = w.alive /\ v.killed = w.killed
         /\ v.working = {} /\ v.sessions = {} /\ v.stdout = <<>>
  <1>1. <<>> \in Seq(Message)
    OBVIOUS
  <1> QED BY <1>1 DEF Forsaken, Process

LEMMA SilenceIsEmpty ==
  ASSUME NEW q \in Seq(Message), q = <<>>
  PROVE  DOMAIN q = {}
  <1>1. DOMAIN q = 1..Len(q)
    OBVIOUS
  <1>2. Len(q) = 0
    OBVIOUS
  <1> QED BY <1>1, <1>2

LEMMA FailedTyped ==
  ASSUME NEW t \in Transport, NEW code \in Failures
  PROVE  {Signal("failed", r.wire, code) : r \in t.pending} \in SUBSET Signals
  <1>1. code \in Failures \cup {""} /\ "failed" \in {"failed", "cancelled", "succeeded", "crashed", "ready"}
    OBVIOUS
  <1>2. \A r \in t.pending : r.wire \in Wire
    BY PendingTyped
  <1>3. \A r \in t.pending : Signal("failed", r.wire, code) \in Signals
    BY <1>1, <1>2, SignalTyped
  <1> QED BY <1>3

(* What is put down says nothing more. *)
LEMMA SilentServes ==
  ASSUME NEW t \in Transport, NEW u \in Transport, NEW code \in Failures,
         u.pending = {}, u.queue = {}, u.worker.working = {}, u.worker.sessions = {},
         u.worker.stdout = <<>>,
         u.signals \in SUBSET (t.signals \cup {Signal("failed", r.wire, code) : r \in t.pending}
                                \cup {Signal("crashed", <<0, 0>>, "")}),
         t.signals \subseteq u.signals,
         {Signal("failed", r.wire, code) : r \in t.pending} \subseteq u.signals
  PROVE  Sheds(t, u) /\ Tells(t, u) /\ Greeting(u)
  <1>1. \A r \in t.pending : /\ Signal("failed", r.wire, code).wire = r.wire
                             /\ Signal("failed", r.wire, code).signal = "failed"
    BY DEF Signal
  <1>2. /\ Signal("crashed", <<0, 0>>, "").wire = NoWire
        /\ Signal("crashed", <<0, 0>>, "").signal = "crashed"
    BY DEF Signal, NoWire
  <1>3. DOMAIN u.worker.stdout = {}
    <2>1. u.worker.stdout \in Seq(Message)
      BY PendingTyped DEF Process
    <2> QED BY ONLY <2>1, u.worker.stdout = <<>>, SilenceIsEmpty
  <1>4. Words(u) = {}
    BY <1>3 DEF Words
  <1>5. ASSUME NEW m \in u.signals \ t.signals
        PROVE  \/ m.signal \in {"crashed", "ready"} /\ m.wire = NoWire
               \/ m.signal \in {"failed", "cancelled"} /\ \E p \in t.pending : p.wire = m.wire
    <2>1. CASE m = Signal("crashed", <<0, 0>>, "")
      BY <2>1, <1>2
    <2>2. CASE \E r \in t.pending : m = Signal("failed", r.wire, code)
      BY <2>2, <1>1
    <2> QED BY <2>1, <2>2
  <1>6. Sheds(t, u)
    BY <1>4, <1>5 DEF Sheds
  <1>7. Tells(t, u)
    <2>1. ASSUME NEW p \in t.pending PROVE \E m \in u.signals : m.wire = p.wire /\ m.signal \in Endings
      <3>1. Signal("failed", p.wire, code) \in u.signals
        OBVIOUS
      <3> QED BY <3>1, <1>1 DEF Endings
    <2> QED BY <2>1 DEF Tells
  <1>8. Greeting(u)
    BY <1>3 DEF Greeting
  <1> QED BY <1>6, <1>7, <1>8

LEMMA ProtocolFailureSane ==
  ASSUME NEW t \in Transport, NEW code \in Failures, Ping \notin t.pending,
         t.queue \subseteq t.pending, t.worker.alive => Running(t),
         NEW u, u = ProtocolFailure(t, code)
  PROVE  Sane(u) /\ Serves(t, u)
  <1> DEFINE w == IF Running(t) THEN [Forsaken(t.worker) EXCEPT !.killed = "forced"]
                  ELSE Forsaken(t.worker)
             said == {Signal("failed", r.wire, code) : r \in t.pending}
  <1>1. t.worker \in Process
    BY PendingTyped
  <1>2. /\ w \in Process /\ w.alive = t.worker.alive
        /\ w.killed = IF Running(t) THEN "forced" ELSE t.worker.killed
        /\ w.working = {} /\ w.sessions = {} /\ w.stdout = <<>>
    <2> DEFINE f == Forsaken(t.worker)
    <2>1. /\ f \in Process /\ f.alive = t.worker.alive /\ f.killed = t.worker.killed
          /\ f.working = {} /\ f.sessions = {} /\ f.stdout = <<>>
      BY <1>1, ForsakenDoes
    <2> HIDE DEF f
    <2>2. w = IF Running(t) THEN [f EXCEPT !.killed = "forced"] ELSE f
      BY DEF f
    <2> HIDE DEF w
    <2>3. CASE Running(t)
      BY <2>1, <2>2, <2>3 DEF Process
    <2>4. CASE ~ Running(t)
      BY <2>1, <2>2, <2>4
    <2> QED BY <2>3, <2>4
  <1>3. said \in SUBSET Signals
    BY FailedTyped
  <1>5. t.pending \ t.pending = {} /\ t.queue \ t.pending = {}
    OBVIOUS
  <1>4. u = [t EXCEPT !.turn = FALSE, !.expected = TRUE, !.state = "failed", !.worker = w,
                      !.pending = {}, !.queue = {},
                      !.signals = t.signals \cup said]
    <2> DEFINE v == [t EXCEPT !.turn = FALSE, !.expected = TRUE, !.state = "failed",
                              !.worker = Forsaken(@)]
    <2>1. Forsaken(t.worker) \in Process
      BY <1>1, ForsakenDoes
    <2>2. v \in Transport /\ v.pending = t.pending /\ v.queue = t.queue /\ v.signals = t.signals
      BY <2>1 DEF Transport
    <2> DEFINE f == FailAll(v, code)
    <2>3. f = [t EXCEPT !.turn = FALSE, !.expected = TRUE, !.state = "failed",
                        !.worker = Forsaken(@), !.pending = {},
                        !.queue = {}, !.signals = t.signals \cup said]
      BY <2>2, <1>5 DEF FailAll, Fail, Transport
    <2>4. u = IF Running(t) THEN [f EXCEPT !.worker.killed = "forced"] ELSE f
      BY DEF ProtocolFailure
    <2> HIDE DEF f, said
    <2>5. CASE Running(t)
      BY <2>1, <2>3, <2>4, <2>5 DEF Transport
    <2>6. CASE ~ Running(t)
      BY <2>1, <2>3, <2>4, <2>6 DEF Transport
    <2> QED BY <2>5, <2>6
  <1> HIDE DEF w, said
  <1>6. /\ u.pending = {} /\ u.queue = {} /\ u.worker = w /\ u.signals = t.signals \cup said
        /\ u.state = "failed" /\ u.process = t.process /\ u.least = t.least
    BY <1>4, <1>5 DEF Transport
  <1>7. u \in Transport
    BY <1>2, <1>3, <1>4 DEF Transport
  <1>8. Sheds(t, u) /\ Tells(t, u) /\ Greeting(u)
    <2>1. /\ u.worker.working = {} /\ u.worker.sessions = {} /\ u.worker.stdout = <<>>
          /\ u.signals \in SUBSET (t.signals \cup {Signal("failed", r.wire, code) : r \in t.pending}
                                \cup {Signal("crashed", <<0, 0>>, "")})
          /\ t.signals \subseteq u.signals
          /\ {Signal("failed", r.wire, code) : r \in t.pending} \subseteq u.signals
      BY <1>2, <1>6 DEF said
    <2> QED BY <2>1, <1>6, <1>7, SilentServes
  <1>9. Keeps(t, u)
    BY <1>2, <1>6 DEF Keeps
  <1>10. Live(u)
    BY <1>2, <1>6 DEF Live, Running
  <1> QED BY <1>7, <1>8, <1>9, <1>10 DEF Sane, Serves

LEMMA ServesItself ==
  ASSUME NEW t \in Transport
  PROVE  Serves(t, t)
  BY DEF Serves, Sheds, Tells, Keeps

(* Everything pending fails: what FailAll leaves. *)
LEMMA FailAllDoes ==
  ASSUME NEW t \in Transport, NEW code \in Failures, t.queue \subseteq t.pending,
         NEW u, u = FailAll(t, code)
  PROVE  /\ u \in Transport
         /\ u = [t EXCEPT !.pending = {}, !.queue = {},
                          !.signals = @ \cup {Signal("failed", r.wire, code) : r \in t.pending}]
  <1> DEFINE said == {Signal("failed", r.wire, code) : r \in t.pending}
  <1>1. t.pending \ t.pending = {} /\ t.queue \ t.pending = {}
    OBVIOUS
  <1>2. u = [t EXCEPT !.pending = {}, !.queue = {}, !.signals = @ \cup said]
    BY <1>1 DEF FailAll, Fail, Transport
  <1>3. said \in SUBSET Signals
    BY FailedTyped
  <1> HIDE DEF said
  <1>4. u \in Transport
    BY <1>2, <1>3 DEF Transport
  <1> QED BY <1>2, <1>4 DEF said

LEMMA ShutdownSane ==
  ASSUME NEW t, Sane(t), NEW u, u = Shutdown(t)
  PROVE  /\ Sane(u) /\ Sheds(t, u) /\ Tells(t, u) /\ u.least = t.least
         /\ t.worker.alive => u.process = t.process /\ u.worker.alive
  <1>0. t \in Transport /\ t.worker \in Process
    BY PendingTyped DEF Sane
  <1>1. CASE t.state \in {"stopped", "stopping"}
    <2>1. u = t
      BY <1>1 DEF Shutdown
    <2> QED BY <1>0, <2>1, ServesItself DEF Serves, Keeps
  <1>2. CASE t.state \notin {"stopped", "stopping"}
    <2> DEFINE g == Forsaken(t.worker)
               v == [t EXCEPT !.restart = FALSE, !.expected = TRUE, !.state = "stopping", !.worker = g]
               f == FailAll(v, "client_shutdown")
               said == {Signal("failed", r.wire, "client_shutdown") : r \in t.pending}
               w == [g EXCEPT !.killed = IF g.killed = "forced" THEN g.killed ELSE "asked"]
    <2>1. /\ g \in Process /\ g.alive = t.worker.alive /\ g.killed = t.worker.killed
          /\ g.working = {} /\ g.sessions = {} /\ g.stdout = <<>>
      BY <1>0, ForsakenDoes
    <2>2. u = Terminate(f)
      BY <1>2 DEF Shutdown
    <2> HIDE DEF g
    <2>3. /\ v \in Transport /\ v.pending = t.pending /\ v.queue = t.queue /\ v.signals = t.signals
          /\ v.process = t.process /\ v.worker = g /\ v.state = "stopping" /\ v.least = t.least
      BY <1>0, <2>1 DEF Transport
    <2> HIDE DEF v
    <2>4. "client_shutdown" \in Failures /\ v.queue \subseteq v.pending
      BY <2>3 DEF Failures, Sane, Live
    <2>5. /\ f \in Transport
          /\ f = [v EXCEPT !.pending = {}, !.queue = {},
                           !.signals = @ \cup {Signal("failed", r.wire, "client_shutdown") : r \in v.pending}]
      BY <2>3, <2>4, FailAllDoes
    <2> HIDE DEF f
    <2>6. /\ f.pending = {} /\ f.queue = {} /\ f.signals = t.signals \cup said
          /\ f.process = t.process /\ f.worker = g /\ f.state = "stopping" /\ f.least = t.least
      BY <2>3, <2>5 DEF Transport
    <2>7. /\ w \in Process /\ w.alive = t.worker.alive /\ w.killed # "no"
          /\ w.working = {} /\ w.sessions = {} /\ w.stdout = <<>>
      BY <2>1 DEF Process
    <2>8. u = IF Running(t) THEN [f EXCEPT !.worker = w] ELSE [f EXCEPT !.state = "stopped"]
      BY <2>2, <2>5, <2>6 DEF Terminate, Running, Transport
    <2> HIDE DEF w, said
    <2>9. /\ u.pending = {} /\ u.queue = {} /\ u.signals = t.signals \cup said
          /\ u.process = t.process /\ u.least = t.least /\ u.state \in {"stopping", "stopped"}
          /\ u.worker = IF Running(t) THEN w ELSE g
          /\ u.state = IF Running(t) THEN "stopping" ELSE "stopped"
      <3>1. CASE Running(t)
        BY <2>5, <2>6, <2>8, <3>1 DEF Transport
      <3>2. CASE ~ Running(t)
        BY <2>5, <2>6, <2>8, <3>2 DEF Transport
      <3> QED BY <3>1, <3>2
    <2>10. u \in Transport
      <3>0. f \in Transport
        BY <2>5
      <3>1. CASE Running(t)
        BY <3>0, <2>7, <2>8, <3>1 DEF Transport
      <3>2. CASE ~ Running(t)
        BY <3>0, <2>8, <3>2 DEF Transport
      <3> QED BY <3>1, <3>2
    <2>11. Sheds(t, u) /\ Tells(t, u) /\ Greeting(u)
      <3>1. /\ u.worker.working = {} /\ u.worker.sessions = {} /\ u.worker.stdout = <<>>
            /\ u.signals \in SUBSET (t.signals \cup {Signal("failed", r.wire, "client_shutdown") : r \in t.pending}
                                  \cup {Signal("crashed", <<0, 0>>, "")})
            /\ t.signals \subseteq u.signals
            /\ {Signal("failed", r.wire, "client_shutdown") : r \in t.pending} \subseteq u.signals
        BY <2>1, <2>7, <2>9 DEF said
      <3> QED BY <3>1, <1>0, <2>4, <2>9, <2>10, SilentServes
    <2>12. Live(u)
      <3>1. u.worker.alive = t.worker.alive /\ (Running(t) => u.worker.killed # "no")
        BY <2>1, <2>7, <2>9
      <3> QED BY <3>1, <2>9 DEF Sane, Live, Running
    <2> QED BY <2>1, <2>7, <2>9, <2>10, <2>11, <2>12 DEF Sane
  <1> QED BY <1>1, <1>2

LEMMA AbortSane ==
  ASSUME NEW t, Sane(t), t.state = "ready", NEW u, u = AbortUnresponsive(t)
  PROVE  /\ Sane(u) /\ Serves(t, u)
  <1>0. t \in Transport /\ t.worker \in Process /\ t.queue \subseteq t.pending
    BY PendingTyped DEF Sane, Live
  <1> DEFINE g == IF Running(t) THEN Forsaken(t.worker) ELSE t.worker
             v == [t EXCEPT !.expected = TRUE, !.state = "failed", !.worker = g]
             f == FailAll(v, "worker_crashed")
             lost == {Signal("failed", r.wire, "worker_crashed") : r \in t.pending}
             crash == Signal("crashed", <<0, 0>>, "")
             h == [f EXCEPT !.signals = @ \cup {crash}]
             w == [g EXCEPT !.killed = IF g.killed = "forced" THEN g.killed ELSE "asked"]
  <1>1. u = Terminate(h)
    BY DEF AbortUnresponsive
  <1>2. /\ g \in Process /\ g.alive = t.worker.alive /\ g.killed = t.worker.killed
        /\ Running(t) => g.working = {} /\ g.sessions = {} /\ g.stdout = <<>>
        /\ ~ Running(t) => g = t.worker
    <2>1. CASE Running(t)
      <3>1. g = Forsaken(t.worker)
        BY <2>1
      <3> HIDE DEF g
      <3> QED BY <1>0, <2>1, <3>1, ForsakenDoes
    <2>2. CASE ~ Running(t)
      BY <1>0, <2>2
    <2> QED BY <2>1, <2>2
  <1> HIDE DEF g
  <1>3. /\ v \in Transport /\ v.pending = t.pending /\ v.queue = t.queue /\ v.signals = t.signals
        /\ v.process = t.process /\ v.worker = g /\ v.state = "failed" /\ v.least = t.least
    BY <1>0, <1>2 DEF Transport
  <1> HIDE DEF v
  <1>4. "worker_crashed" \in Failures /\ v.queue \subseteq v.pending
    BY <1>0, <1>3 DEF Failures
  <1>5. /\ f \in Transport
        /\ f = [v EXCEPT !.pending = {}, !.queue = {},
                         !.signals = @ \cup {Signal("failed", r.wire, "worker_crashed") : r \in v.pending}]
    BY <1>3, <1>4, FailAllDoes
  <1> HIDE DEF f
  <1>6. /\ f.pending = {} /\ f.queue = {} /\ f.signals = t.signals \cup lost
        /\ f.process = t.process /\ f.worker = g /\ f.state = "failed" /\ f.least = t.least
    BY <1>3, <1>5 DEF Transport
  <1> HIDE DEF lost
  <1>7. crash \in Signals
    <2>1. <<0, 0>> \in Wire
      BY DEF Wire
    <2> QED BY <2>1, SignalTyped
  <1> HIDE DEF crash
  <1>8. /\ h \in Transport /\ h.pending = {} /\ h.queue = {}
        /\ h.signals = t.signals \cup lost \cup {crash}
        /\ h.process = t.process /\ h.worker = g /\ h.state = "failed" /\ h.least = t.least
    BY <1>5, <1>6, <1>7 DEF Transport
  <1> HIDE DEF h
  <1>9. /\ w \in Process /\ w.alive = g.alive /\ w.killed # "no"
        /\ w.working = g.working /\ w.sessions = g.sessions /\ w.stdout = g.stdout
    BY <1>2 DEF Process
  <1>10. u = IF Running(t) THEN [h EXCEPT !.worker = w] ELSE [h EXCEPT !.state = "stopped"]
    BY <1>1, <1>8 DEF Terminate, Running, Transport
  <1> HIDE DEF w
  <1>11. /\ u.pending = {} /\ u.queue = {} /\ u.signals = t.signals \cup lost \cup {crash}
         /\ u.process = t.process /\ u.least = t.least
         /\ u.worker = IF Running(t) THEN w ELSE g
         /\ u.state = IF Running(t) THEN "failed" ELSE "stopped"
    <2>1. CASE Running(t)
      BY <1>8, <1>10, <2>1 DEF Transport
    <2>2. CASE ~ Running(t)
      BY <1>8, <1>10, <2>2 DEF Transport
    <2> QED BY <2>1, <2>2
  <1>12. u \in Transport
    <2>1. CASE Running(t)
      BY <1>8, <1>9, <1>10, <2>1 DEF Transport
    <2>2. CASE ~ Running(t)
      BY <1>8, <1>10, <2>2 DEF Transport
    <2> QED BY <2>1, <2>2
  <1>13. Sheds(t, u) /\ Tells(t, u) /\ Greeting(u)
    <2>1. CASE Running(t)
      <3>1. /\ u.worker.working = {} /\ u.worker.sessions = {} /\ u.worker.stdout = <<>>
            /\ u.signals \in SUBSET (t.signals \cup {Signal("failed", r.wire, "worker_crashed") : r \in t.pending}
                                  \cup {Signal("crashed", <<0, 0>>, "")})
            /\ t.signals \subseteq u.signals
            /\ {Signal("failed", r.wire, "worker_crashed") : r \in t.pending} \subseteq u.signals
        BY <1>2, <1>9, <1>11, <2>1 DEF lost, crash
      <3> QED BY <3>1, <1>0, <1>4, <1>11, <1>12, SilentServes
    <2>2. CASE ~ Running(t)
      <3>1. u.worker = t.worker
        BY <1>2, <1>11, <2>2
      <3>2. Words(u) = Words(t)
        BY <3>1 DEF Words
      <3>3. \A r \in t.pending : /\ Signal("failed", r.wire, "worker_crashed").wire = r.wire
                                 /\ Signal("failed", r.wire, "worker_crashed").signal = "failed"
        BY DEF Signal
      <3>4. crash.wire = NoWire /\ crash.signal = "crashed"
        BY DEF Signal, NoWire, crash
      <3>5. \A m \in lost : m.signal = "failed" /\ \E r \in t.pending : r.wire = m.wire
        BY <3>3 DEF lost
      <3>6. \A r \in t.pending : \E m \in lost : m.wire = r.wire /\ m.signal = "failed"
        BY <3>3 DEF lost
      <3>7. Sheds(t, u)
        BY <1>11, <3>1, <3>2, <3>4, <3>5 DEF Sheds
      <3>8. Tells(t, u)
        BY <1>11, <3>6 DEF Tells, Endings
      <3>9. Greeting(u)
        BY <1>11, <3>1 DEF Sane, Greeting, Greets
      <3> QED BY <3>7, <3>8, <3>9
    <2> QED BY <2>1, <2>2
  <1>14. u.worker.alive = t.worker.alive /\ (Running(t) => u.worker.killed # "no")
    BY <1>2, <1>9, <1>11
  <1>15. Live(u)
    BY <1>11, <1>14 DEF Sane, Live, Running
  <1>16. Keeps(t, u)
    BY <1>11, <1>14 DEF Keeps
  <1> QED BY <1>12, <1>13, <1>15, <1>16 DEF Sane, Serves

LEMMA StartFailsSane ==
  ASSUME NEW t, Sane(t), NEW u, u = StartFails(t)
  PROVE  /\ Sane(u) /\ Sheds(t, u) /\ Tells(t, u) /\ u.least = t.least
         /\ u.state = "failed" /\ u.process = "exited"
  <1>0. t \in Transport /\ t.worker \in Process /\ t.queue \subseteq t.pending
    BY PendingTyped DEF Sane, Live
  <1> DEFINE v == [t EXCEPT !.process = "exited", !.worker = NoWorker, !.state = "failed"]
             lost == {Signal("failed", r.wire, "process_start_failed") : r \in t.pending}
  <1>1. u = FailAll(v, "process_start_failed")
    BY DEF StartFails
  <1>2. NoWorker \in Process
    <2>1. <<>> \in Seq(Message)
      OBVIOUS
    <2> QED BY <2>1 DEF NoWorker, Process
  <1>3. /\ v \in Transport /\ v.pending = t.pending /\ v.queue = t.queue /\ v.signals = t.signals
        /\ v.process = "exited" /\ v.worker = NoWorker /\ v.state = "failed" /\ v.least = t.least
    BY <1>0, <1>2 DEF Transport
  <1> HIDE DEF v
  <1>4. "process_start_failed" \in Failures /\ v.queue \subseteq v.pending
    BY <1>0, <1>3 DEF Failures
  <1>5. /\ u \in Transport
        /\ u = [v EXCEPT !.pending = {}, !.queue = {},
                         !.signals = @ \cup {Signal("failed", r.wire, "process_start_failed") : r \in v.pending}]
    BY <1>1, <1>3, <1>4, FailAllDoes
  <1>6. /\ u.pending = {} /\ u.queue = {} /\ u.signals = t.signals \cup lost
        /\ u.process = "exited" /\ u.worker = NoWorker /\ u.state = "failed" /\ u.least = t.least
    BY <1>3, <1>5 DEF Transport
  <1> HIDE DEF lost
  <1>7. /\ ~ u.worker.alive /\ u.worker.working = {} /\ u.worker.sessions = {}
        /\ u.worker.stdout = <<>> /\ u.worker.killed = "no"
    BY <1>6 DEF NoWorker
  <1>8. Sheds(t, u) /\ Tells(t, u) /\ Greeting(u)
    <2>1. /\ u.signals \in SUBSET (t.signals \cup {Signal("failed", r.wire, "process_start_failed") : r \in t.pending}
                                \cup {Signal("crashed", <<0, 0>>, "")})
          /\ t.signals \subseteq u.signals
          /\ {Signal("failed", r.wire, "process_start_failed") : r \in t.pending} \subseteq u.signals
      BY <1>6 DEF lost
    <2> QED BY <2>1, <1>0, <1>4, <1>5, <1>6, <1>7, SilentServes
  <1>9. Live(u)
    BY <1>6, <1>7 DEF Live, Running
  <1> QED BY <1>5, <1>6, <1>8, <1>9 DEF Sane

LEMMA NoWorkerTyped ==
  /\ NoWorker \in Process /\ ~ NoWorker.alive /\ NoWorker.working = {} /\ NoWorker.sessions = {}
  /\ NoWorker.stdout = <<>> /\ NoWorker.killed = "no"
  <1>1. <<>> \in Seq(Message)
    OBVIOUS
  <1> QED BY <1>1 DEF NoWorker, Process

LEMMA CrashTyped ==
  ASSUME NEW name \in {"crashed", "ready"}
  PROVE  /\ Signal(name, <<0, 0>>, "") \in Signals
         /\ Signal(name, <<0, 0>>, "").wire = NoWire
         /\ Signal(name, <<0, 0>>, "").signal = name
  <1>1. <<0, 0>> \in Wire /\ "" \in Failures \cup {""}
    BY DEF Wire
  <1>2. name \in {"failed", "cancelled", "succeeded", "crashed", "ready"}
    OBVIOUS
  <1>3. /\ Signal(name, <<0, 0>>, "") \in Signals
        /\ Signal(name, <<0, 0>>, "").wire = <<0, 0>>
        /\ Signal(name, <<0, 0>>, "").signal = name
    BY <1>1, <1>2, SignalTyped
  <1> QED BY <1>3 DEF NoWire

(* EnsureStarted, of a process that does not run any more. *)
LEMMA EnsureStartedDoes ==
  ASSUME NEW t \in Transport, t.queue \subseteq t.pending, t.pending \subseteq t.queue,
         Ping \notin t.pending, t.state \in {"stopped", "failed"}, NEW u, u = EnsureStarted(t)
  PROVE  /\ Sane(u) /\ Sheds(t, u) /\ Tells(t, u) /\ u.least = t.least
         /\ u.pending = t.pending /\ u.queue = t.queue /\ u.signals = t.signals
         /\ u.state = "starting"
  <1> DEFINE w == [NoWorker EXCEPT !.alive = TRUE]
  <1>1. /\ w \in Process /\ w.alive /\ w.killed = "no" /\ w.working = {} /\ w.sessions = {}
        /\ w.stdout = <<>>
    BY NoWorkerTyped DEF Process
  <1>2. u = [t EXCEPT !.state = "starting", !.process = "starting", !.expected = FALSE,
                      !.turn = FALSE, !.worker = w]
    BY DEF EnsureStarted
  <1> HIDE DEF w
  <1>3. /\ u.pending = t.pending /\ u.queue = t.queue /\ u.signals = t.signals
        /\ u.state = "starting" /\ u.process = "starting" /\ u.expected = FALSE
        /\ u.worker = w /\ u.least = t.least
    BY <1>2 DEF Transport
  <1>4. u \in Transport
    BY <1>1, <1>2 DEF Transport
  <1>5. DOMAIN u.worker.stdout = {}
    BY ONLY <1>1, <1>3, SilenceIsEmpty, <<>> \in Seq(Message)
  <1>6. Words(u) = {}
    BY <1>5 DEF Words
  <1>7. Sheds(t, u)
    BY <1>1, <1>3, <1>6 DEF Sheds
  <1>8. Tells(t, u)
    BY <1>3 DEF Tells
  <1>9. Greeting(u)
    BY <1>1, <1>3, <1>5 DEF Greeting
  <1>10. Live(u)
    BY <1>1, <1>3 DEF Live, Running
  <1> QED BY <1>3, <1>4, <1>7, <1>8, <1>9, <1>10 DEF Sane

(* What holds of a process that has ended. *)
Over(t) ==
  /\ t \in Transport /\ ~ t.worker.alive
  /\ t.expected => t.state \in {"failed", "stopping", "stopped"}
  /\ t.state = "failed" /\ t.pending # {} => t.restart
  /\ t.state \in {"stopped", "stopping"} => t.pending = {}
  /\ t.queue \subseteq t.pending
  /\ t.state # "ready" => t.pending \subseteq t.queue
  /\ Ping \notin t.pending

LEMMA FinishSane ==
  ASSUME NEW t, Over(t), NEW u, u = FinishProcess(t)
  PROVE  /\ Sane(u) /\ Serves(t, u)
  <1> DEFINE v == [t EXCEPT !.turn = FALSE, !.process = "none", !.prints = {}, !.restart = FALSE,
                            !.worker = NoWorker]
             crash == Signal("crashed", <<0, 0>>, "")
             c == [v EXCEPT !.state = "failed", !.signals = @ \cup {crash}]
             f == FailAll(c, "worker_crashed")
             lost == {Signal("failed", r.wire, "worker_crashed") : r \in t.pending}
             ended == IF t.expected \/ t.state = "stopping"
                      THEN [v EXCEPT !.expected = FALSE, !.state = "stopped"]
                      ELSE [f EXCEPT !.queue = {}]
  <1>0. t \in Transport /\ t.worker \in Process /\ t.queue \subseteq t.pending
    BY PendingTyped DEF Over
  <1>1. u = IF t.restart THEN EnsureStarted(ended) ELSE ended
    BY DEF FinishProcess
  <1>2. NoWorker \in Process
    BY NoWorkerTyped
  <1>3. /\ v \in Transport /\ v.pending = t.pending /\ v.queue = t.queue /\ v.signals = t.signals
        /\ v.process = "none" /\ v.worker = NoWorker /\ v.state = t.state /\ v.least = t.least
        /\ v.expected = t.expected
    BY <1>0, <1>2 DEF Transport
  <1> HIDE DEF v
  <1>4. crash \in Signals /\ crash.wire = NoWire /\ crash.signal = "crashed"
    BY CrashTyped
  <1>5. /\ c \in Transport /\ c.pending = t.pending /\ c.queue = t.queue
        /\ c.signals = t.signals \cup {crash} /\ c.process = "none" /\ c.worker = NoWorker
        /\ c.state = "failed" /\ c.least = t.least /\ c.expected = t.expected
    BY <1>3, <1>4 DEF Transport
  <1>50. crash = Signal("crashed", <<0, 0>>, "")
    OBVIOUS
  <1> HIDE DEF c, crash
  <1>6. "worker_crashed" \in Failures /\ c.queue \subseteq c.pending
    BY <1>0, <1>5 DEF Failures
  <1>7. /\ f \in Transport
        /\ f = [c EXCEPT !.pending = {}, !.queue = {},
                         !.signals = @ \cup {Signal("failed", r.wire, "worker_crashed") : r \in c.pending}]
    BY <1>5, <1>6, FailAllDoes
  <1> HIDE DEF f
  <1>8. /\ f \in Transport /\ f.pending = {} /\ f.queue = {}
        /\ f.signals = t.signals \cup {crash} \cup lost
        /\ f.process = "none" /\ f.worker = NoWorker /\ f.state = "failed" /\ f.least = t.least
        /\ f.expected = t.expected
    BY <1>5, <1>7 DEF Transport
  <1>80. lost = {Signal("failed", r.wire, "worker_crashed") : r \in t.pending}
    OBVIOUS
  <1> HIDE DEF lost
  <1>9. /\ ~ NoWorker.alive /\ NoWorker.working = {} /\ NoWorker.sessions = {}
        /\ NoWorker.stdout = <<>> /\ NoWorker.killed = "no"
    BY NoWorkerTyped
  <1>10. CASE t.expected \/ t.state = "stopping"
    <2>1. ended = [v EXCEPT !.expected = FALSE, !.state = "stopped"]
      BY <1>10
    <2> HIDE DEF ended
    <2>2. /\ ended \in Transport /\ ended.pending = t.pending /\ ended.queue = t.queue
          /\ ended.signals = t.signals /\ ended.process = "none" /\ ended.worker = NoWorker
          /\ ended.state = "stopped" /\ ended.least = t.least /\ ended.expected = FALSE
      BY <2>1, <1>3 DEF Transport
    <2>3. DOMAIN ended.worker.stdout = {}
      BY ONLY <1>9, <2>2, SilenceIsEmpty, <<>> \in Seq(Message)
    <2>4. Words(ended) = {}
      BY <2>3 DEF Words
    <2>5. Serves(t, ended)
      BY <1>9, <2>2, <2>4 DEF Serves, Sheds, Tells, Keeps, Over
    <2>6. CASE t.restart
      <3>1. /\ ended.queue \subseteq ended.pending /\ ended.pending \subseteq ended.queue
            /\ Ping \notin ended.pending /\ ended.state \in {"stopped", "failed"}
            /\ u = EnsureStarted(ended)
        BY <1>1, <1>10, <2>2, <2>6 DEF Over
      <3>2. /\ Sane(u) /\ Sheds(ended, u) /\ Tells(ended, u) /\ u.least = ended.least
            /\ u.state = "starting"
        BY <3>1, <2>2, EnsureStartedDoes
      <3>3. u \in Transport
        BY <3>2 DEF Sane
      <3>4. Sheds(t, u) /\ Tells(t, u)
        BY <3>2, <3>3, <2>2, <2>5, <1>0, ShedsTwice, TellsTwice DEF Serves, Over
      <3> QED BY <3>2, <3>3, <3>4, <2>2 DEF Serves, Keeps, Over
    <2>7. CASE ~ t.restart
      <3>1. u = ended /\ t.pending = {} /\ t.queue = {}
        BY <1>1, <1>10, <2>7 DEF Over
      <3>2. Live(ended)
        BY <3>1, <2>2, <1>9 DEF Live, Running
      <3>3. Greeting(ended)
        BY <3>1, <2>2, <2>3, <1>9 DEF Greeting
      <3> QED BY <3>1, <3>2, <3>3, <2>2, <2>5 DEF Sane
    <2> QED BY <2>6, <2>7
  <1>11. CASE ~ (t.expected \/ t.state = "stopping")
    <2>1. ended = [f EXCEPT !.queue = {}]
      BY <1>11
    <2> HIDE DEF ended
    <2>2. /\ ended \in Transport /\ ended.pending = {} /\ ended.queue = {}
          /\ ended.signals = t.signals \cup {crash} \cup lost
          /\ ended.process = "none" /\ ended.worker = NoWorker
          /\ ended.state = "failed" /\ ended.least = t.least /\ ended.expected = FALSE
      BY <2>1, <1>8, <1>11 DEF Transport
    <2>3. /\ Sheds(t, ended) /\ Tells(t, ended) /\ Greeting(ended)
      <3>1. /\ ended.signals \in SUBSET (t.signals \cup {Signal("failed", r.wire, "worker_crashed") : r \in t.pending}
                                \cup {Signal("crashed", <<0, 0>>, "")})
            /\ t.signals \subseteq ended.signals
            /\ {Signal("failed", r.wire, "worker_crashed") : r \in t.pending} \subseteq ended.signals
        BY <2>2, <1>50, <1>80
      <3>2. /\ ended.worker.working = {} /\ ended.worker.sessions = {}
            /\ ended.worker.stdout = <<>>
        BY <2>2, <1>9
      <3> QED BY <3>1, <3>2, <1>0, <1>6, <2>2, SilentServes
    <2>4. Serves(t, ended)
      BY <2>2, <2>3 DEF Serves, Keeps, Over
    <2>5. Live(ended)
      BY <2>2, <1>9 DEF Live, Running
    <2>6. CASE t.restart
      <3>1. /\ ended.queue \subseteq ended.pending /\ ended.pending \subseteq ended.queue
            /\ Ping \notin ended.pending /\ ended.state \in {"stopped", "failed"}
            /\ u = EnsureStarted(ended)
        BY <1>1, <2>2, <2>6
      <3>2. /\ Sane(u) /\ Sheds(ended, u) /\ Tells(ended, u) /\ u.least = ended.least
            /\ u.state = "starting"
        BY <3>1, <2>2, EnsureStartedDoes
      <3>3. u \in Transport
        BY <3>2 DEF Sane
      <3>4. Sheds(t, u) /\ Tells(t, u)
        BY <3>2, <3>3, <2>2, <2>4, <1>0, ShedsTwice, TellsTwice DEF Serves, Over
      <3> QED BY <3>2, <3>3, <3>4, <2>2 DEF Serves, Keeps, Over
    <2>7. CASE ~ t.restart
      <3>1. u = ended
        BY <1>1, <2>7
      <3> QED BY <3>1, <2>2, <2>3, <2>4, <2>5 DEF Sane
    <2> QED BY <2>6, <2>7
  <1> QED BY <1>10, <1>11

LEMMA FlushSane ==
  ASSUME NEW t, Sane(t), NEW u, u = Flush(t)
  PROVE  Sane(u) /\ Serves(t, u)
  <1> DEFINE R == {r \in t.queue : r.gen < t.least}
             f == Fail(t, R, "stale_generation")
             sent == IF f.worker.alive THEN f.worker.working \cup f.queue ELSE f.worker.working
             w == [f.worker EXCEPT !.working = sent]
  <1>0. t \in Transport /\ t.queue \subseteq t.pending /\ Ping \notin t.pending
    BY DEF Sane, Live, Greeting
  <1>1. R \in SUBSET t.pending /\ "stale_generation" \in Failures /\ "protocol_failure" \in Failures
    BY <1>0 DEF Failures
  <1>2. u = IF t.state # "ready" THEN t
            ELSE IF f.queue = {} THEN f
            ELSE IF Running(f)
                 THEN [f EXCEPT !.queue = {},
                                !.worker.working = IF f.worker.alive THEN @ \cup f.queue ELSE @]
                 ELSE ProtocolFailure(f, "protocol_failure")
    BY DEF Flush
  <1> HIDE DEF R
  <1>3. Sane(f) /\ Serves(t, f)
    BY <1>1, FailSane
  <1>4. SameProcess(t, f)
    BY <1>0, <1>1, FailDoes
  <1> HIDE DEF f
  <1>5. CASE t.state # "ready"
    BY <1>0, <1>2, <1>5, ServesItself
  <1>6. CASE t.state = "ready" /\ f.queue = {}
    BY <1>2, <1>3, <1>6
  <1>7. CASE t.state = "ready" /\ f.queue # {} /\ Running(f)
    <2>1. /\ f \in Transport /\ f.worker \in Process /\ f.state = "ready"
          /\ f.queue \subseteq f.pending /\ f.pending \subseteq Envelope /\ Ping \notin f.pending
      BY <1>3, <1>4, <1>7, PendingTyped DEF Sane, SameProcess, Transport, Live, Greeting
    <2>2. sent \in SUBSET Envelope
      BY <2>1 DEF Process
    <2>3. u = [f EXCEPT !.queue = {}, !.worker = w]
      BY <1>2, <1>7, <2>1 DEF Transport, Process
    <2>30. sent \subseteq f.worker.working \cup f.queue
      OBVIOUS
    <2> HIDE DEF sent
    <2>4. /\ w \in Process /\ w.working = sent /\ w.stdout = f.worker.stdout
          /\ w.alive = f.worker.alive /\ w.killed = f.worker.killed
          /\ w.sessions = f.worker.sessions
      BY <2>1, <2>2 DEF Process
    <2> HIDE DEF w
    <2>5. /\ u.pending = f.pending /\ u.queue = {} /\ u.worker = w /\ u.signals = f.signals
          /\ u.least = f.least
      BY <2>1, <2>3 DEF Transport
    <2>6. SameProcess(f, u)
      BY <2>1, <2>3 DEF Transport, SameProcess
    <2>7. u \in Transport
      BY <2>1, <2>3, <2>4 DEF Transport
    <2>8. Words(u) = Words(f)
      BY <2>4, <2>5 DEF Words
    <2>9. Sheds(f, u) /\ Tells(f, u)
      BY <2>30, <2>4, <2>5, <2>8 DEF Sheds, Tells
    <2>10. Keeps(f, u)
      BY <2>4, <2>5, <2>6 DEF Keeps, SameProcess
    <2>11. Live(u)
      BY <2>1, <2>4, <2>5, <2>6, <1>3 DEF Live, Sane, Running, SameProcess
    <2>12. Greeting(u)
      <3>1. Ping \in u.worker.working => Ping \in f.worker.working
        BY <2>1, <2>30, <2>4, <2>5
      <3> QED BY <3>1, <2>1, <2>4, <2>5, <2>6, <1>3 DEF Greeting, Greets, Sane, SameProcess
    <2>13. Sheds(t, u) /\ Tells(t, u) /\ Keeps(t, u)
      <3>1. Sheds(t, f) /\ Tells(t, f) /\ Keeps(t, f)
        BY <1>3 DEF Serves
      <3>2. Sheds(t, u) /\ Tells(t, u)
        BY <3>1, <2>1, <2>7, <2>9, <1>0, ShedsTwice, TellsTwice
      <3> QED BY <3>1, <3>2, <2>10 DEF Keeps
    <2> QED BY <2>7, <2>11, <2>12, <2>13 DEF Sane, Serves
  <1>8. CASE t.state = "ready" /\ f.queue # {} /\ ~ Running(f)
    <2>1. /\ f \in Transport /\ f.queue \subseteq f.pending /\ Ping \notin f.pending
          /\ f.worker.alive => Running(f)
      BY <1>3 DEF Sane, Live, Greeting
    <2>2. u = ProtocolFailure(f, "protocol_failure")
      BY <1>2, <1>8
    <2>3. Sane(u) /\ Serves(f, u)
      BY <1>1, <2>1, <2>2, ProtocolFailureSane
    <2>4. Sheds(t, u) /\ Tells(t, u)
      BY <1>0, <1>3, <2>1, <2>3, ShedsTwice, TellsTwice DEF Serves
    <2>5. Keeps(t, u)
      BY <1>3, <2>3 DEF Serves, Keeps
    <2> QED BY <2>3, <2>4, <2>5 DEF Serves
  <1> QED BY <1>5, <1>6, <1>7, <1>8

(* One more request is pending, and queued. *)
Queued(t, e, q) ==
  /\ q \in Transport /\ q.pending = t.pending \cup {e} /\ q.queue = t.queue \cup {e}
  /\ q.signals = t.signals /\ q.worker = t.worker /\ q.least = t.least /\ q.state = t.state

LEMMA SubmitSane ==
  ASSUME NEW t, Sane(t), t.state # "stopping", NEW e \in Envelope, e # Ping,
         NEW q, q = [t EXCEPT !.pending = @ \cup {e}, !.queue = @ \cup {e}],
         NEW u, u = Submit(t, e)
  PROVE  Sane(u) /\ Queued(t, e, q) /\ Sheds(q, u) /\ Tells(q, u) /\ Keeps(t, u)
  <1> DEFINE v == EnsureReady(q)
  <1>0. t \in Transport
    BY DEF Sane
  <1>1. q \in Transport
    BY <1>0 DEF Transport
  <1>2. /\ q.pending = t.pending \cup {e} /\ q.queue = t.queue \cup {e}
        /\ q.signals = t.signals /\ q.worker = t.worker /\ q.least = t.least
    BY <1>0 DEF Transport
  <1>3. SameProcess(t, q)
    BY <1>0 DEF Transport, SameProcess
  <1>4. u = Flush(v)
    BY DEF Submit
  <1>40. v = EnsureReady(q)
    OBVIOUS
  <1> HIDE DEF v
  <1>5. q.queue \subseteq q.pending /\ Ping \notin q.pending /\ (q.state # "ready" => q.pending \subseteq q.queue)
    BY <1>2, <1>3 DEF Sane, Live, Greeting, SameProcess
  <1>6. Sane(v) /\ Sheds(q, v) /\ Tells(q, v) /\ Keeps(t, v)
    <2>1. CASE Running(q) /\ q.state = "failed"
      <3>1. v = [q EXCEPT !.restart = TRUE]
        BY <1>40, <2>1 DEF EnsureReady
      <3>2. v \in Transport
        BY <1>1, <3>1 DEF Transport
      <3>3. /\ v.pending = q.pending /\ v.queue = q.queue /\ v.worker = q.worker
            /\ v.signals = q.signals /\ v.least = q.least /\ v.state = q.state
            /\ v.process = q.process /\ v.expected = q.expected /\ v.restart = TRUE
        BY <1>1, <3>1 DEF Transport
      <3>4. Words(v) = Words(q)
        BY <3>3 DEF Words
      <3>5. Sheds(q, v) /\ Tells(q, v)
        BY <3>3, <3>4 DEF Sheds, Tells
      <3>6. Keeps(t, v)
        BY <3>3, <1>2, <1>3 DEF Keeps, SameProcess
      <3>7. Live(v)
        BY <3>3, <1>2, <1>3, <1>5, <2>1 DEF Live, Sane, Running, SameProcess
      <3>8. Greeting(v)
        BY <3>3, <1>2, <1>3, <1>5 DEF Greeting, Greets, Sane, SameProcess
      <3> QED BY <3>2, <3>5, <3>6, <3>7, <3>8 DEF Sane
    <2>2. CASE ~ (Running(q) /\ q.state = "failed") /\ q.state \in {"stopped", "failed"}
      <3>1. v = EnsureStarted(q) /\ q.pending \subseteq q.queue
        BY <1>40, <1>5, <2>2 DEF EnsureReady
      <3>2. Sane(v) /\ Sheds(q, v) /\ Tells(q, v) /\ v.least = q.least /\ v.state = "starting"
        BY <1>1, <1>5, <2>2, <3>1, EnsureStartedDoes
      <3>3. ~ t.worker.alive
        BY <1>3, <2>2 DEF Sane, Live, Running, SameProcess
      <3> QED BY <3>2, <3>3, <1>2 DEF Keeps
    <2>3. CASE q.state \notin {"stopped", "failed"}
      <3>1. v = q
        BY <1>40, <2>3 DEF EnsureReady, EnsureStarted
      <3>2. Live(q)
        BY <1>2, <1>3, <1>5, <2>3 DEF Live, Sane, Running, SameProcess
      <3>3. Greeting(q)
        BY <1>2, <1>3, <1>5 DEF Greeting, Greets, Sane, SameProcess
      <3>4. Keeps(t, q)
        BY <1>2, <1>3 DEF Keeps, SameProcess
      <3> QED BY <3>1, <3>2, <3>3, <3>4, <1>1, ServesItself DEF Sane, Serves
    <2> QED BY <2>1, <2>2, <2>3
  <1>7. Sane(u) /\ Serves(v, u)
    BY <1>4, <1>6, FlushSane
  <1>8. Sheds(q, u) /\ Tells(q, u)
    BY <1>1, <1>5, <1>6, <1>7, ShedsTwice, TellsTwice DEF Sane, Serves
  <1>9. Keeps(t, u)
    BY <1>6, <1>7 DEF Keeps, Serves
  <1> QED BY <1>1, <1>2, <1>3, <1>7, <1>8, <1>9 DEF SameProcess, Queued

LEMMA InvalidateSane ==
  ASSUME NEW t, Sane(t), NEW least \in Nat, least > t.least,
         NEW u, u = InvalidateBefore(t, least)
  PROVE  /\ Sane(u) /\ Sheds(t, u) /\ Tells(t, u) /\ u.least = least
         /\ t.worker.alive => u.process = t.process /\ u.worker.alive
         /\ u.state = "stopping" => t.state = "stopping"
  <1> DEFINE b == [t EXCEPT !.least = IF least > @ THEN least ELSE @]
             stale == {r \in b.pending : r.gen < b.least}
             told == {r.wire : r \in stale \ b.queue}
             cancels == IF b.state = "ready" /\ Running(b) THEN b.worker.cancels \cup told
                        ELSE b.worker.cancels
             w == [b.worker EXCEPT !.cancels = cancels]
             v == [b EXCEPT !.worker.cancels = IF b.state = "ready" /\ Running(b)
                                               THEN @ \cup told ELSE @]
  <1>0. t \in Transport
    BY DEF Sane
  <1>1. /\ b \in Transport /\ b.least = least /\ b.worker = t.worker /\ b.pending = t.pending
        /\ b.queue = t.queue /\ b.signals = t.signals
    BY <1>0 DEF Transport
  <1>2. SameProcess(t, b)
    BY <1>0 DEF Transport, SameProcess
  <1>3. u = Fail(v, stale, "stale_generation")
    BY DEF InvalidateBefore
  <1> HIDE DEF b
  <1>4. \A r \in b.pending : r.wire \in Wire
    BY <1>1, PendingTyped
  <1>5. cancels \in SUBSET Wire
    BY <1>1, <1>4, PendingTyped DEF Process
  <1>6. stale \in SUBSET b.pending
    OBVIOUS
  <1>7. v = [b EXCEPT !.worker = w]
    BY <1>1, PendingTyped DEF Transport, Process
  <1> HIDE DEF stale, v, cancels
  <1>8. /\ w \in Process /\ w.stdout = t.worker.stdout /\ w.working = t.worker.working
        /\ w.alive = t.worker.alive /\ w.killed = t.worker.killed /\ w.sessions = t.worker.sessions
    BY <1>1, <1>5, PendingTyped DEF Process
  <1> HIDE DEF w
  <1>9. /\ v \in Transport /\ v.least = least /\ v.worker = w /\ v.pending = t.pending
        /\ v.queue = t.queue /\ v.signals = t.signals
    BY <1>1, <1>7, <1>8 DEF Transport
  <1>10. SameProcess(b, v)
    BY <1>1, <1>7, <1>8 DEF Transport, SameProcess
  <1>11. Live(v)
    BY <1>2, <1>8, <1>9, <1>10 DEF Live, Sane, Running, SameProcess
  <1>12. Greeting(v)
    BY <1>2, <1>8, <1>9, <1>10 DEF Greeting, Sane, Greets, SameProcess
  <1>13. Sane(v)
    BY <1>9, <1>11, <1>12 DEF Sane
  <1>14. stale \in SUBSET v.pending /\ "stale_generation" \in Failures
    BY <1>1, <1>6, <1>9 DEF Failures
  <1>15. Sane(u) /\ Serves(v, u)
    BY <1>3, <1>13, <1>14, FailSane
  <1>16. Words(v) = Words(t)
    BY <1>8, <1>9 DEF Words
  <1>17. Sheds(t, v) /\ Tells(t, v)
    BY <1>8, <1>9, <1>16 DEF Sheds, Tells
  <1>18. Sheds(t, u) /\ Tells(t, u)
    <2>1. Ping \notin t.pending /\ t.queue \subseteq t.pending
      BY DEF Sane, Greeting, Live
    <2> QED BY <2>1, <1>0, <1>9, <1>15, <1>17, ShedsTwice, TellsTwice DEF Serves
  <1>19. /\ u.least = least
         /\ t.worker.alive => u.process = t.process /\ u.worker.alive
         /\ u.state = "stopping" => t.state = "stopping"
    BY <1>2, <1>8, <1>9, <1>10, <1>15 DEF Serves, Keeps, SameProcess
  <1> QED BY <1>15, <1>18, <1>19

LEMMA FlushNowSane ==
  ASSUME NEW t, Sane(t), NEW u, u = FlushNow(t)
  PROVE  Sane(u) /\ Serves(t, u)
  <1> DEFINE v == [t EXCEPT !.flush = FALSE]
  <1>0. t \in Transport
    BY DEF Sane
  <1>1. /\ v \in Transport /\ v.least = t.least /\ v.worker = t.worker /\ v.pending = t.pending
        /\ v.queue = t.queue /\ v.signals = t.signals
    BY <1>0 DEF Transport
  <1>2. SameProcess(t, v)
    BY <1>0 DEF Transport, SameProcess
  <1>3. u = Flush(v)
    BY DEF FlushNow
  <1> HIDE DEF v
  <1>4. Live(v)
    BY <1>1, <1>2 DEF Live, Sane, Running, SameProcess
  <1>5. Greeting(v)
    BY <1>1, <1>2 DEF Greeting, Sane, Greets, SameProcess
  <1>6. Sane(u) /\ Serves(v, u)
    BY <1>1, <1>3, <1>4, <1>5, FlushSane DEF Sane
  <1>7. Words(v) = Words(t)
    BY <1>1 DEF Words
  <1>8. Sheds(t, v) /\ Tells(t, v)
    BY <1>1, <1>7 DEF Sheds, Tells
  <1>9. Ping \notin t.pending /\ t.queue \subseteq t.pending
    BY DEF Sane, Greeting, Live
  <1>10. Sheds(t, u) /\ Tells(t, u)
    BY <1>0, <1>1, <1>6, <1>8, <1>9, ShedsTwice, TellsTwice DEF Serves
  <1>11. Keeps(t, u)
    BY <1>1, <1>2, <1>6 DEF Keeps, Serves, SameProcess
  <1> QED BY <1>6, <1>10, <1>11 DEF Serves

LEMMA ReadOnSane ==
  ASSUME NEW t, Sane(t), NEW u, u = ReadOn(t)
  PROVE  Sane(u) /\ Serves(t, u)
  <1>0. t \in Transport
    BY DEF Sane
  <1>1. /\ u \in Transport /\ u.least = t.least /\ u.worker = t.worker /\ u.pending = t.pending
        /\ u.queue = t.queue /\ u.signals = t.signals
        /\ u.state = t.state /\ u.process = t.process /\ u.expected = t.expected
        /\ u.restart = t.restart /\ u.turn = (t.process = "exited")
    BY <1>0 DEF ReadOn, Transport
  <1>2. Live(u)
    BY <1>1 DEF Live, Sane, Running
  <1>3. Greeting(u)
    BY <1>1 DEF Greeting, Sane, Greets
  <1>4. Words(u) = Words(t)
    BY <1>1 DEF Words
  <1>5. Sheds(t, u) /\ Tells(t, u) /\ Keeps(t, u)
    BY <1>1, <1>4 DEF Sheds, Tells, Keeps
  <1> QED BY <1>1, <1>2, <1>3, <1>5 DEF Sane, Serves

LEMMA ProcessStartedSane ==
  ASSUME NEW t, Sane(t), Starts(t), NEW u, u = ProcessStarted(t)
  PROVE  /\ Sane(u) /\ Sheds(t, u) /\ Tells(t, u) /\ u.least = t.least
         /\ u.state = "handshaking" /\ u.process = "running"
  <1> DEFINE w == [t.worker EXCEPT !.working = {Ping}]
  <1>0. t \in Transport /\ t.worker \in Process
    BY PendingTyped DEF Sane
  <1>1. Ping \in Envelope
    BY DEF Ping, Envelope, Wire, NoSession, Operation
  <1>2. /\ w \in Process /\ w.working = {Ping} /\ w.stdout = t.worker.stdout
        /\ w.alive = t.worker.alive /\ w.killed = t.worker.killed /\ w.sessions = t.worker.sessions
    BY <1>0, <1>1 DEF Process
  <1>3. u = [t EXCEPT !.process = "running", !.state = "handshaking", !.worker = w]
    BY <1>0 DEF ProcessStarted, Transport, Process
  <1> HIDE DEF w
  <1>4. /\ u.least = t.least /\ u.worker = w /\ u.pending = t.pending
        /\ u.queue = t.queue /\ u.signals = t.signals
        /\ u.state = "handshaking" /\ u.process = "running" /\ u.expected = t.expected
    BY <1>0, <1>3 DEF Transport
  <1>5. u \in Transport
    BY <1>0, <1>2, <1>3 DEF Transport
  <1>6. t.state = "starting" /\ Running(t)
    BY DEF Starts, Sane, Live, Running
  <1>7. Live(u)
    BY <1>2, <1>4, <1>6 DEF Live, Sane, Running
  <1>8. Greeting(u)
    BY <1>2, <1>4, <1>6 DEF Greeting, Sane, Greets
  <1>9. Words(u) = Words(t)
    BY <1>2, <1>4 DEF Words
  <1>10. Ping \notin t.queue
    BY DEF Sane, Live, Greeting
  <1>11. Sheds(t, u) /\ Tells(t, u)
    BY <1>2, <1>4, <1>9, <1>10 DEF Sheds, Tells
  <1> QED BY <1>4, <1>5, <1>7, <1>8, <1>11 DEF Sane

LEMMA ProcessFinishedSane ==
  ASSUME NEW t, Sane(t), ~ t.worker.alive, Running(t), NEW u, u = ProcessFinished(t)
  PROVE  Sane(u) /\ Serves(t, u)
  <1> DEFINE v == [t EXCEPT !.process = "exited", !.turn = TRUE]
  <1>0. t \in Transport
    BY DEF Sane
  <1>1. /\ v \in Transport /\ v.least = t.least /\ v.worker = t.worker /\ v.pending = t.pending
        /\ v.queue = t.queue /\ v.signals = t.signals
        /\ v.state = t.state /\ v.process = "exited" /\ v.expected = t.expected
        /\ v.restart = t.restart /\ v.turn = TRUE
    BY <1>0 DEF Transport
  <1>2. u = IF Finishes(t) THEN FinishProcess(v) ELSE v
    BY DEF ProcessFinished
  <1> HIDE DEF v
  <1>3. Words(v) = Words(t)
    BY <1>1 DEF Words
  <1>4. Serves(t, v)
    BY <1>1, <1>3 DEF Sheds, Tells, Keeps, Serves
  <1>5. CASE Finishes(t)
    <2>1. Over(v)
      BY <1>1 DEF Over, Sane, Live, Greeting
    <2>2. Sane(u) /\ Serves(v, u)
      BY <1>2, <1>5, <2>1, FinishSane
    <2>3. Ping \notin t.pending /\ t.queue \subseteq t.pending
      BY DEF Sane, Greeting, Live
    <2>4. Sheds(t, u) /\ Tells(t, u)
      BY <1>0, <1>1, <1>4, <2>2, <2>3, ShedsTwice, TellsTwice DEF Serves
    <2>5. Keeps(t, u)
      BY <1>1, <2>2 DEF Keeps, Serves
    <2> QED BY <2>2, <2>4, <2>5 DEF Serves
  <1>6. CASE ~ Finishes(t)
    <2>1. u = v /\ v.state # "failed"
      BY <1>1, <1>2, <1>6 DEF Finishes
    <2>2. Live(v)
      BY <1>1, <2>1 DEF Live, Sane, Running
    <2>3. Greeting(v)
      BY <1>1 DEF Greeting, Sane, Greets
    <2> QED BY <1>1, <1>4, <2>1, <2>2, <2>3 DEF Sane
  <1> QED BY <1>5, <1>6

LEMMA ExitedIsOver ==
  ASSUME NEW t, Sane(t), t.process = "exited"
  PROVE  Over(t)
  BY DEF Over, Sane, Live, Greeting, Running

LEMMA TailSays ==
  ASSUME NEW q \in Seq(Message), q # <<>>
  PROVE  /\ Head(q) \in Message /\ Tail(q) \in Seq(Message)
         /\ 1 \in DOMAIN q /\ Head(q) = q[1]
         /\ \A i \in DOMAIN Tail(q) : i # 0 /\ i + 1 # 1 /\ i + 1 \in DOMAIN q /\ Tail(q)[i] = q[i + 1]
         /\ \A i, j \in DOMAIN Tail(q) : i + 1 = j + 1 => i = j
  <1>1. Len(q) \in Nat /\ Len(q) # 0 /\ DOMAIN q = 1..Len(q)
    OBVIOUS
  <1>2. Head(q) \in Message /\ Tail(q) \in Seq(Message) /\ Head(q) = q[1] /\ Len(Tail(q)) = Len(q) - 1
    OBVIOUS
  <1>3. DOMAIN Tail(q) = 1..(Len(q) - 1)
    BY <1>2
  <1>4. \A i \in 1..(Len(q) - 1) : Tail(q)[i] = q[i + 1]
    BY <1>1, <1>2
  <1> QED BY <1>1, <1>2, <1>3, <1>4

(* The message is taken out, and is being handled. *)
Reading(t) == [t EXCEPT !.worker.stdout = Tail(@), !.reading = TRUE]
Ready(t) == t.process = "running" \/ (t.process = "exited" /\ t.turn)

LEMMA ReadingDoes ==
  ASSUME NEW t, Sane(t), t.worker.stdout # <<>>, t.state # "failed",
         NEW u, u = Reading(t), NEW m, m = Head(t.worker.stdout)
  PROVE  /\ u \in Transport /\ Live(u) /\ Serves(t, u)
         /\ m \in Message /\ m \in Words(t)
         /\ u.pending = t.pending /\ u.queue = t.queue /\ u.signals = t.signals /\ u.least = t.least
         /\ u.worker.working = t.worker.working /\ u.worker.sessions = t.worker.sessions
         /\ u.prints = t.prints /\ u.reading = TRUE
         /\ u.state = t.state /\ u.process = t.process /\ u.turn = t.turn
         /\ m.wire # Ping.wire => Greeting(u)
         /\ m.wire = Ping.wire => /\ t.state = "handshaking" /\ Ping \notin u.worker.working
                                  /\ \A i \in DOMAIN u.worker.stdout : ~ Greets(u, i)
  <1> DEFINE q == t.worker.stdout
             z == Tail(q)
             w == [t.worker EXCEPT !.stdout = z]
  <1>0. t \in Transport /\ t.worker \in Process
    BY PendingTyped DEF Sane
  <1>1. q \in Seq(Message)
    BY <1>0 DEF Process
  <1>2. /\ m \in Message /\ z \in Seq(Message)
        /\ 1 \in DOMAIN q /\ m = q[1]
        /\ \A i \in DOMAIN z : i # 0 /\ i + 1 # 1 /\ i + 1 \in DOMAIN q /\ z[i] = q[i + 1]
        /\ \A i, j \in DOMAIN z : i + 1 = j + 1 => i = j
    BY <1>1, TailSays
  <1> DEFINE next(i) == i + 1
  <1>20. /\ \A i \in DOMAIN z : next(i) # 1 /\ next(i) \in DOMAIN q /\ z[i] = q[next(i)]
         /\ \A i, j \in DOMAIN z : next(i) = next(j) => i = j
    BY <1>2
  <1>3. /\ w \in Process /\ w.working = t.worker.working /\ w.stdout = z
        /\ w.alive = t.worker.alive /\ w.killed = t.worker.killed /\ w.sessions = t.worker.sessions
    BY <1>0, <1>2 DEF Process
  <1>4. u = [t EXCEPT !.worker = w, !.reading = TRUE]
    BY <1>0 DEF Reading, Transport, Process
  <1> HIDE DEF w, z, next
  <1>5. /\ u.pending = t.pending /\ u.queue = t.queue /\ u.signals = t.signals /\ u.least = t.least
        /\ u.worker = w /\ u.prints = t.prints /\ u.reading = TRUE
        /\ u.state = t.state /\ u.process = t.process /\ u.expected = t.expected
        /\ u.restart = t.restart /\ u.turn = t.turn
    BY <1>0, <1>4 DEF Transport
  <1>6. u \in Transport
    BY <1>0, <1>3, <1>4 DEF Transport
  <1>7. m \in Words(t)
    BY <1>2 DEF Words
  <1>8. Words(u) \subseteq Words(t)
    BY <1>20, <1>3, <1>5 DEF Words
  <1>9. Serves(t, u)
    BY <1>3, <1>5, <1>6, <1>8 DEF Serves, Sheds, Tells, Keeps
  <1>10. Live(u)
    BY <1>3, <1>5 DEF Live, Sane, Running
  <1>11. \A i \in DOMAIN u.worker.stdout : Greets(u, i) => next(i) \in DOMAIN q /\ next(i) # 1 /\ Greets(t, next(i))
    BY <1>20, <1>3, <1>5 DEF Greets
  <1>12. m.wire = Ping.wire => Greets(t, 1)
    BY <1>2 DEF Greets
  <1>13. m.wire # Ping.wire => Greeting(u)
    <2>1. Ping \notin u.pending
      BY <1>5 DEF Sane, Greeting
    <2>2. Ping \in u.worker.working =>
            u.state = "handshaking" /\ \A i \in DOMAIN u.worker.stdout : ~ Greets(u, i)
      BY <1>3, <1>5, <1>11 DEF Sane, Greeting
    <2>3. ASSUME NEW i \in DOMAIN u.worker.stdout, Greets(u, i)
          PROVE  /\ u.state = "handshaking"
                 /\ \A j \in DOMAIN u.worker.stdout : Greets(u, j) => i = j
      BY <2>3, <1>20, <1>3, <1>5, <1>11 DEF Sane, Greeting
    <2> QED BY <2>1, <2>2, <2>3 DEF Greeting
  <1>14. m.wire = Ping.wire => /\ t.state = "handshaking" /\ Ping \notin u.worker.working
                               /\ \A i \in DOMAIN u.worker.stdout : ~ Greets(u, i)
    BY <1>2, <1>3, <1>5, <1>11, <1>12 DEF Sane, Greeting
  <1> QED BY <1>2, <1>3, <1>5, <1>6, <1>7, <1>9, <1>10, <1>13, <1>14

(* A result is handed on: that of a request that was sent. *)
Result(p, m) == [signal |-> "succeeded", wire |-> p.wire, code |-> "",
                 session |-> m.session, print |-> m.print]
Yields(t, p, m, u) ==
  /\ Keeps(t, u) /\ u.queue = t.queue /\ u.worker = t.worker
  /\ u.pending = t.pending \ {p} /\ m.status = "result" /\ p.gen >= t.least
  /\ u.signals = t.signals \cup {Result(p, m)}
Succeeds(t, u) ==
  /\ u \in Transport /\ Keeps(t, u)
  /\ u.queue = t.queue /\ u.worker.working = t.worker.working
  /\ Words(u) \subseteq Words(t) /\ u.worker.sessions = t.worker.sessions
  /\ \E p \in t.pending, m \in Words(t) :
       /\ m.status = "result" /\ m.wire = p.wire /\ p.gen >= t.least
       /\ u.pending = t.pending \ {p}
       /\ u.signals = t.signals \cup {Result(p, m)}

LEMMA HandshakeDoneSane ==
  ASSUME NEW t \in Transport, Live(t), t.state = "handshaking", t.reading, Ready(t),
         Ping \notin t.worker.working, Ping \notin t.pending,
         \A i \in DOMAIN t.worker.stdout : ~ Greets(t, i), NEW u, u = HandshakeDone(t)
  PROVE  Sane(u) /\ Serves(t, u)
  <1> DEFINE done == Signal("ready", <<0, 0>>, "")
  <1>1. done \in Signals /\ done.wire = NoWire /\ done.signal = "ready"
    BY CrashTyped
  <1>2. u = [t EXCEPT !.state = "ready", !.flush = TRUE, !.signals = @ \cup {done}]
    BY DEF HandshakeDone
  <1> HIDE DEF done
  <1>3. u \in Transport
    <2>1. t.signals \cup {done} \in SUBSET Signals
      BY <1>1 DEF Transport
    <2> QED BY <1>2, <2>1 DEF Transport
  <1>4. /\ u.pending = t.pending /\ u.queue = t.queue /\ u.signals = t.signals \cup {done}
        /\ u.least = t.least /\ u.worker = t.worker /\ u.state = "ready" /\ u.process = t.process
        /\ u.expected = t.expected /\ u.reading = t.reading /\ u.turn = t.turn
    BY <1>2 DEF Transport
  <1>5. Words(u) = Words(t)
    BY <1>4 DEF Words
  <1>6. Serves(t, u)
    BY <1>1, <1>3, <1>4, <1>5 DEF Serves, Sheds, Tells, Keeps
  <1>7. Live(u)
    BY <1>4 DEF Live, Running, Ready
  <1>8. Greeting(u)
    BY <1>4 DEF Greeting, Greets
  <1> QED BY <1>3, <1>6, <1>7, <1>8 DEF Sane

LEMMA AnsweredSane ==
  ASSUME NEW t, Sane(t), NEW p \in t.pending, p \notin t.queue, NEW m \in Message,
         p.wire = m.wire, NEW u, u = Answered(t, p, m)
  PROVE  /\ Sane(u)
         /\ Serves(t, u) \/ Yields(t, p, m, u)
  <1>0. t \in Transport /\ {p} \in SUBSET t.pending
    BY DEF Sane
  <1>1. /\ m.status \in {"result", "cancelled", "file_sharing", "worker_failure"}
        /\ m.session \in Wire /\ m.print \in Nat /\ m.wire \in Wire
    BY DEF Message
  <1>2. CASE ~ Correlates(t, p)
    <2>1. u = Fail(t, {p}, "stale_response") /\ "stale_response" \in Failures
      BY <1>2 DEF Answered, Failures
    <2> QED BY <1>0, <2>1, FailSane
  <1>3. CASE Correlates(t, p) /\ m.status \in {"file_sharing", "worker_failure"}
    <2>1. u = Fail(t, {p}, m.status) /\ m.status \in Failures
      BY <1>3 DEF Answered, Failures
    <2> QED BY <1>0, <2>1, FailSane
  <1>4. CASE Correlates(t, p) /\ m.status = "cancelled"
    <2> DEFINE done == Signal("cancelled", p.wire, "")
    <2>1. u = [t EXCEPT !.pending = @ \ {p}, !.signals = @ \cup {done}]
      BY <1>4, <1>0 DEF Answered, Transport
    <2>2. done \in Signals /\ done.wire = p.wire /\ done.signal = "cancelled"
      <3>1. p.wire \in Wire /\ "" \in Failures \cup {""}
            /\ "cancelled" \in {"failed", "cancelled", "succeeded", "crashed", "ready"}
        BY <1>1
      <3> QED BY <3>1, SignalTyped
    <2> HIDE DEF done
    <2>3. u \in Transport
      <3>1. t.signals \cup {done} \in SUBSET Signals
        BY <1>0, <2>2 DEF Transport
      <3>2. t.pending \ {p} \in SUBSET Envelope
        BY <1>0 DEF Transport
      <3> QED BY <1>0, <2>1, <3>1, <3>2 DEF Transport
    <2>4. /\ u.pending = t.pending \ {p} /\ u.queue = t.queue /\ u.signals = t.signals \cup {done}
          /\ u.least = t.least /\ u.worker = t.worker
      BY <1>0, <2>1 DEF Transport
    <2>5. SameProcess(t, u)
      BY <1>0, <2>1 DEF Transport, SameProcess
    <2>6. Words(u) = Words(t)
      BY <2>4 DEF Words
    <2>7. Serves(t, u)
      BY <2>2, <2>3, <2>4, <2>5, <2>6 DEF Serves, Sheds, Tells, Keeps, Endings, SameProcess
    <2>8. Live(u)
      BY <2>4, <2>5 DEF Live, Running, Sane, SameProcess
    <2>9. Greeting(u)
      BY <2>4, <2>5 DEF Greeting, Greets, Sane, SameProcess
    <2> QED BY <2>3, <2>7, <2>8, <2>9 DEF Sane
  <1>5. CASE Correlates(t, p) /\ m.status = "result"
    <2> DEFINE done == [signal |-> "succeeded", wire |-> p.wire, code |-> "",
                        session |-> m.session, print |-> m.print]
               prints == IF p.op \in {"open", "reopen"} THEN t.prints \cup {<<m.session, m.print>>}
                         ELSE t.prints
    <2>1. u = [t EXCEPT !.pending = @ \ {p}, !.signals = @ \cup {done}, !.prints = prints]
      BY <1>5, <1>0 DEF Answered, Transport
    <2>2. done \in Signals
      BY <1>1 DEF Signals
    <2>3. prints \in SUBSET (Wire \X Nat)
      BY <1>0, <1>1 DEF Transport
    <2>20. done = Result(p, m)
      BY DEF Result
    <2> HIDE DEF done, prints
    <2>4. u \in Transport
      <3>1. t.signals \cup {done} \in SUBSET Signals
        BY <1>0, <2>2 DEF Transport
      <3>2. t.pending \ {p} \in SUBSET Envelope
        BY <1>0 DEF Transport
      <3> QED BY <1>0, <2>1, <2>3, <3>1, <3>2 DEF Transport
    <2>5. /\ u.pending = t.pending \ {p} /\ u.queue = t.queue /\ u.signals = t.signals \cup {done}
          /\ u.least = t.least /\ u.worker = t.worker
      BY <1>0, <2>1 DEF Transport
    <2>6. SameProcess(t, u)
      BY <1>0, <2>1 DEF Transport, SameProcess
    <2>7. Keeps(t, u)
      BY <2>5, <2>6 DEF Keeps, SameProcess
    <2>8. Live(u)
      BY <2>5, <2>6 DEF Live, Running, Sane, SameProcess
    <2>9. Greeting(u)
      BY <2>5, <2>6 DEF Greeting, Greets, Sane, SameProcess
    <2>10. p.gen >= t.least
      BY <1>5 DEF Correlates
    <2> QED BY <1>5, <2>4, <2>5, <2>7, <2>8, <2>9, <2>10, <2>20 DEF Sane, Yields
  <1> QED BY <1>1, <1>2, <1>3, <1>4, <1>5

LEMMA ReadMessageSane ==
  ASSUME NEW t, Sane(t), Readable(t), \A m \in Words(t), p \in t.queue : m.wire # p.wire,
         NEW u, u = ReadMessage(t)
  PROVE  Sane(u) /\ (Serves(t, u) \/ Succeeds(t, u))
  <1> DEFINE b == Reading(t)
             m == Head(t.worker.stdout)
             asked == {r \in b.pending : r.wire = m.wire}
  <1>0. t \in Transport /\ t.worker.stdout # <<>> /\ t.state # "failed" /\ Ready(t)
    BY DEF Sane, Readable, Ready
  <1>1. u = IF m.wire = Ping.wire THEN HandshakeDone(b)
            ELSE IF asked = {} THEN b ELSE Answered(b, CHOOSE r \in asked : TRUE, m)
    BY DEF ReadMessage, Reading
  <1>2. /\ b \in Transport /\ Live(b) /\ Serves(t, b)
        /\ m \in Message /\ m \in Words(t)
        /\ b.pending = t.pending /\ b.queue = t.queue /\ b.signals = t.signals /\ b.least = t.least
        /\ b.worker.working = t.worker.working /\ b.worker.sessions = t.worker.sessions
        /\ b.prints = t.prints /\ b.reading = TRUE
        /\ b.state = t.state /\ b.process = t.process /\ b.turn = t.turn
        /\ m.wire # Ping.wire => Greeting(b)
        /\ m.wire = Ping.wire => /\ t.state = "handshaking" /\ Ping \notin b.worker.working
                                 /\ \A i \in DOMAIN b.worker.stdout : ~ Greets(b, i)
    BY <1>0, ReadingDoes
  <1>30. Ping \notin b.pending /\ Ping \notin t.pending /\ t.queue \subseteq t.pending
    BY <1>2 DEF Sane, Greeting, Live
  <1> HIDE DEF b, m
  <1>4. CASE m.wire = Ping.wire
    <2>1. u = HandshakeDone(b)
      BY <1>1, <1>4
    <2>2. b.state = "handshaking" /\ b.reading /\ Ready(b)
      BY <1>0, <1>2, <1>4 DEF Ready
    <2>3. Sane(u) /\ Serves(b, u)
      BY <1>2, <1>30, <1>4, <2>1, <2>2, HandshakeDoneSane
    <2>4. Sheds(t, u) /\ Tells(t, u)
      BY <1>0, <1>2, <1>30, <2>3, ShedsTwice, TellsTwice DEF Serves
    <2>5. Keeps(t, u)
      BY <1>2, <2>3 DEF Serves, Keeps
    <2> QED BY <2>3, <2>4, <2>5 DEF Serves
  <1>5. CASE m.wire # Ping.wire /\ asked = {}
    BY <1>1, <1>2, <1>5 DEF Sane
  <1>6. CASE m.wire # Ping.wire /\ asked # {}
    <2> DEFINE p == CHOOSE r \in asked : TRUE
    <2>1. u = Answered(b, p, m)
      BY <1>1, <1>6
    <2>2. p \in asked
      BY <1>6
    <2> HIDE DEF p
    <2>3. p \in b.pending /\ p.wire = m.wire
      BY <2>2
    <2>4. p \notin b.queue /\ Sane(b)
      BY <1>2, <1>6, <2>3 DEF Sane
    <2>5. /\ Sane(u)
          /\ Serves(b, u) \/ Yields(b, p, m, u)
      <3>1. m \in Message
        BY <1>2
      <3> QED BY <2>1, <2>3, <2>4, <3>1, AnsweredSane
    <2>6. CASE Serves(b, u)
      <3>1. Sheds(t, u) /\ Tells(t, u)
        BY <1>0, <1>2, <1>30, <2>6, ShedsTwice, TellsTwice DEF Serves
      <3>2. Keeps(t, u)
        BY <1>2, <2>6 DEF Serves, Keeps
      <3> QED BY <2>5, <2>6, <3>1, <3>2 DEF Serves
    <2>7. CASE ~ Serves(b, u)
      <3>1. /\ Keeps(b, u) /\ u.queue = b.queue /\ u.worker = b.worker
            /\ u.pending = b.pending \ {p} /\ m.status = "result" /\ p.gen >= b.least
            /\ u.signals = b.signals \cup {Result(p, m)}
        BY <2>5, <2>7 DEF Yields
      <3>2. Keeps(t, u)
        BY <1>2, <3>1 DEF Serves, Keeps
      <3>3. Words(u) \subseteq Words(t)
        <4>1. Words(b) \subseteq Words(t)
          BY <1>2 DEF Serves, Sheds
        <4>2. Words(u) = Words(b)
          BY <3>1 DEF Words
        <4> QED BY <4>1, <4>2
      <3>4. u.queue = t.queue /\ u.worker.working = t.worker.working /\ u.worker.sessions = t.worker.sessions
        BY <1>2, <3>1
      <3>5. p \in t.pending /\ u.pending = t.pending \ {p} /\ p.gen >= t.least
            /\ u.signals = t.signals \cup {Result(p, m)}
        BY <1>2, <2>3, <3>1
      <3> QED BY <1>2, <2>3, <2>5, <3>1, <3>2, <3>3, <3>4, <3>5 DEF Succeeds, Sane
    <2> QED BY <2>6, <2>7
  <1> QED BY <1>4, <1>5, <1>6

LEMMA AppendSays ==
  ASSUME NEW q \in Seq(Message), NEW m \in Message, NEW z, z = Append(q, m)
  PROVE  /\ z \in Seq(Message)
         /\ \E n \in Nat : /\ n \notin DOMAIN q /\ DOMAIN z = DOMAIN q \cup {n} /\ z[n] = m
                           /\ \A i \in DOMAIN q : z[i] = q[i]
  <1> DEFINE n == Len(q) + 1
  <1>1. n \in Nat /\ n \notin DOMAIN q
    OBVIOUS
  <1>2. z \in Seq(Message) /\ Len(z) = n
    OBVIOUS
  <1>3. DOMAIN z = DOMAIN q \cup {n}
    <2>1. DOMAIN z = 1..n /\ DOMAIN q = 1..Len(q) /\ Len(q) \in Nat
      BY <1>2
    <2> QED BY <2>1
  <1>4. z[n] = m
    OBVIOUS
  <1>5. \A i \in DOMAIN q : z[i] = q[i]
    OBVIOUS
  <1> QED BY <1>1, <1>2, <1>3, <1>4, <1>5

(* The worker w is t's after its answer m to r, with the sessions F. *)
Adds(t, r, m, F, w) ==
  /\ w \in Process /\ w.stdout = Append(t.worker.stdout, m)
  /\ w.working = t.worker.working \ {r} /\ w.sessions = t.worker.sessions \cup F
  /\ w.alive = t.worker.alive /\ w.killed = t.worker.killed
Spoken(t, r, m, F, u) ==
  /\ u.pending = t.pending /\ u.queue = t.queue /\ u.signals = t.signals
  /\ u.worker.working = t.worker.working \ {r}
  /\ u.worker.sessions = t.worker.sessions \cup F
  /\ Words(u) \subseteq Words(t) \cup {m}

LEMMA SaidSane ==
  ASSUME NEW t, Sane(t), NEW r \in t.worker.working, NEW m \in Message, m.wire = r.wire,
         r # Ping => r.wire # Ping.wire, NEW F, NEW w, Adds(t, r, m, F, w),
         NEW u, u = [t EXCEPT !.worker = w]
  PROVE  Sane(u) /\ Keeps(t, u) /\ Spoken(t, r, m, F, u)
  <1>00. /\ w \in Process /\ w.stdout = Append(t.worker.stdout, m)
         /\ w.working = t.worker.working \ {r} /\ w.sessions = t.worker.sessions \cup F
         /\ w.alive = t.worker.alive /\ w.killed = t.worker.killed
    BY DEF Adds
  <1> USE <1>00
  <1> DEFINE q == t.worker.stdout
             z == w.stdout
  <1>0. t \in Transport /\ t.worker \in Process
    BY PendingTyped DEF Sane
  <1>1. q \in Seq(Message)
    BY <1>0 DEF Process
  <1>2. PICK n \in Nat : /\ n \notin DOMAIN q /\ DOMAIN z = DOMAIN q \cup {n} /\ z[n] = m
                         /\ \A i \in DOMAIN q : z[i] = q[i]
    <2>1. z = Append(q, m)
      OBVIOUS
    <2> HIDE DEF z, q
    <2> QED BY <1>1, <2>1, AppendSays
  <1>20. u.worker.stdout = z
    BY <1>0 DEF Transport
  <1>21. w.stdout = z /\ t.worker.stdout = q
    OBVIOUS
  <1> HIDE DEF z, q
  <1>3. /\ u.pending = t.pending /\ u.queue = t.queue /\ u.signals = t.signals /\ u.least = t.least
        /\ u.worker = w /\ u.reading = t.reading
        /\ u.state = t.state /\ u.process = t.process /\ u.expected = t.expected
        /\ u.restart = t.restart /\ u.turn = t.turn
    BY <1>0 DEF Transport
  <1>4. u \in Transport
    BY <1>0 DEF Transport
  <1>5. Words(u) \subseteq Words(t) \cup {m}
    <2>1. Words(u) = {z[i] : i \in DOMAIN z} /\ Words(t) = {q[i] : i \in DOMAIN q}
      BY <1>20, <1>21 DEF Words
    <2>2. ASSUME NEW i \in DOMAIN z PROVE z[i] \in {q[j] : j \in DOMAIN q} \cup {m}
      BY <1>2
    <2> QED BY <2>1, <2>2
  <1>6. Keeps(t, u)
    BY <1>3 DEF Keeps
  <1>7. Live(u)
    BY <1>3 DEF Live, Sane, Running
  <1>8. \A i \in DOMAIN z : Greets(u, i) => (i \in DOMAIN q /\ Greets(t, i)) \/ (i = n /\ r = Ping)
    BY <1>2, <1>20, <1>21 DEF Greets
  <1>9. Greeting(u)
    <2>1. Ping \notin u.pending
      BY <1>3 DEF Sane, Greeting
    <2>2. Ping \in u.worker.working =>
            u.state = "handshaking" /\ \A i \in DOMAIN u.worker.stdout : ~ Greets(u, i)
      BY <1>3, <1>8, <1>20, <1>21 DEF Sane, Greeting
    <2>3. ASSUME NEW i \in DOMAIN u.worker.stdout, Greets(u, i)
          PROVE  /\ u.state = "handshaking"
                 /\ \A j \in DOMAIN u.worker.stdout : Greets(u, j) => i = j
      <3>1. i \in DOMAIN z
        BY <1>20
      <3>2. u.state = "handshaking"
        BY <3>1, <2>3, <1>3, <1>8, <1>21 DEF Sane, Greeting
      <3>3. ASSUME NEW j \in DOMAIN z, Greets(u, j) PROVE i = j
        <4>1. CASE r = Ping
          BY <4>1, <3>1, <3>3, <2>3, <1>8, <1>21 DEF Sane, Greeting
        <4>2. CASE r # Ping
          BY <4>2, <3>1, <3>3, <2>3, <1>8, <1>21 DEF Sane, Greeting
        <4> QED BY <4>1, <4>2
      <3> QED BY <3>2, <3>3, <1>20
    <2> QED BY <2>1, <2>2, <2>3 DEF Greeting
  <1> QED BY <1>3, <1>4, <1>5, <1>6, <1>7, <1>9 DEF Sane, Spoken

LEMMA DeadSane ==
  ASSUME NEW t, Sane(t), t.worker.alive, t.worker.killed = "no" => t.process = "running",
         NEW u, u = [t EXCEPT !.worker.alive = FALSE, !.worker.working = {}, !.worker.cancels = {}]
  PROVE  /\ Sane(u) /\ Sheds(t, u) /\ Tells(t, u) /\ u.least = t.least /\ u.state = t.state
         /\ u.process = t.process /\ u.signals = t.signals
  <1> DEFINE w == [t.worker EXCEPT !.alive = FALSE, !.working = {}, !.cancels = {}]
  <1>0. t \in Transport /\ t.worker \in Process
    BY PendingTyped DEF Sane
  <1>1. /\ w \in Process /\ w.working = {} /\ w.stdout = t.worker.stdout /\ w.alive = FALSE
        /\ w.killed = t.worker.killed /\ w.sessions = t.worker.sessions
    BY <1>0 DEF Process
  <1>2. u = [t EXCEPT !.worker = w]
    BY <1>0 DEF Transport, Process
  <1> HIDE DEF w
  <1>3. /\ u.pending = t.pending /\ u.queue = t.queue /\ u.signals = t.signals /\ u.least = t.least
        /\ u.worker = w /\ u.reading = t.reading
        /\ u.state = t.state /\ u.process = t.process /\ u.expected = t.expected
        /\ u.restart = t.restart /\ u.turn = t.turn
    BY <1>0, <1>2 DEF Transport
  <1>4. u \in Transport
    BY <1>0, <1>1, <1>2 DEF Transport
  <1>5. Words(u) = Words(t)
    BY <1>1, <1>3 DEF Words
  <1>6. Sheds(t, u) /\ Tells(t, u)
    BY <1>1, <1>3, <1>5 DEF Sheds, Tells
  <1>7. t.state # "starting"
    BY DEF Sane, Live
  <1>8. Live(u)
    BY <1>1, <1>3, <1>7 DEF Live, Sane, Running
  <1>9. Greeting(u)
    BY <1>1, <1>3 DEF Sane, Greeting, Greets
  <1> QED BY <1>3, <1>4, <1>6, <1>8, <1>9 DEF Sane

LEMMA GraceSane ==
  ASSUME NEW t, Sane(t), t.worker.killed = "asked", NEW u, u = [t EXCEPT !.worker.killed = "forced"]
  PROVE  Sane(u) /\ Serves(t, u)
  <1> DEFINE w == [t.worker EXCEPT !.killed = "forced"]
  <1>0. t \in Transport /\ t.worker \in Process
    BY PendingTyped DEF Sane
  <1>1. /\ w \in Process /\ w.working = t.worker.working /\ w.stdout = t.worker.stdout
        /\ w.alive = t.worker.alive /\ w.killed = "forced" /\ w.sessions = t.worker.sessions
    BY <1>0 DEF Process
  <1>2. u = [t EXCEPT !.worker = w]
    BY <1>0 DEF Transport, Process
  <1> HIDE DEF w
  <1>3. /\ u.pending = t.pending /\ u.queue = t.queue /\ u.signals = t.signals /\ u.least = t.least
        /\ u.worker = w /\ u.reading = t.reading
        /\ u.state = t.state /\ u.process = t.process /\ u.expected = t.expected
        /\ u.restart = t.restart /\ u.turn = t.turn
    BY <1>0, <1>2 DEF Transport
  <1>4. u \in Transport
    BY <1>0, <1>1, <1>2 DEF Transport
  <1>5. Words(u) = Words(t)
    BY <1>1, <1>3 DEF Words
  <1>6. Sheds(t, u) /\ Tells(t, u) /\ Keeps(t, u)
    BY <1>1, <1>3, <1>5 DEF Sheds, Tells, Keeps
  <1>7. Live(u)
    BY <1>1, <1>3 DEF Live, Sane, Running
  <1>8. Greeting(u)
    BY <1>1, <1>3 DEF Sane, Greeting, Greets
  <1> QED BY <1>4, <1>6, <1>7, <1>8 DEF Sane, Serves

LEMMA HeardSane ==
  ASSUME NEW t, Sane(t), NEW m \in t.signals, NEW u, u = [t EXCEPT !.signals = @ \ {m}]
  PROVE  /\ Sane(u) /\ Sheds(t, u) /\ Keeps(t, u) /\ u.signals = t.signals \ {m}
         /\ u.pending = t.pending /\ u.queue = t.queue
  <1>0. t \in Transport
    BY DEF Sane
  <1>3. /\ u.pending = t.pending /\ u.queue = t.queue /\ u.signals = t.signals \ {m} /\ u.least = t.least
        /\ u.worker = t.worker /\ u.reading = t.reading
        /\ u.state = t.state /\ u.process = t.process /\ u.expected = t.expected
        /\ u.restart = t.restart /\ u.turn = t.turn
    BY <1>0 DEF Transport
  <1>4. u \in Transport
    BY <1>0 DEF Transport
  <1>5. Words(u) = Words(t)
    BY <1>3 DEF Words
  <1>6. Sheds(t, u) /\ Keeps(t, u)
    BY <1>3, <1>5 DEF Sheds, Keeps
  <1>7. Live(u)
    BY <1>3 DEF Live, Sane, Running
  <1>8. Greeting(u)
    BY <1>3 DEF Sane, Greeting, Greets
  <1> QED BY <1>3, <1>4, <1>6, <1>7, <1>8 DEF Sane

-----------------------------------------------------------------------------
(* What becomes of the transport and of the service at the same time. *)

(* A request that is there before and after a step. *)
Continues(r, q) ==
  /\ q.id = r.id /\ q.op = r.op /\ q.gen = r.gen /\ q.attempts = r.attempts /\ q.asked = r.asked
  /\ q.session = NoSession <=> r.session = NoSession
  /\ \/ q = r
     \/ /\ q.wire = r.wire /\ q.session = r.session /\ q.spent = r.spent
        /\ r.phase \in Attended /\ q.phase = "stalling"
     \/ /\ q.wire = NoWire /\ q.phase \notin Attended /\ q.spent /\ q.attempts <= 1
        /\ Recoverable(q)

Follows(s, v) ==
  /\ v \in Service /\ v.asked = s.asked /\ v.reopened = s.reopened
  /\ v.closing => v.requests = {}
  /\ \A q \in v.requests : \E r \in s.requests : Continues(r, q)
  /\ \A r, q \in v.requests : r.id = q.id => r = q

Joint(t, s) ==
  Wired(t, s) /\ Named(t, s) /\ Agreed(t, s) /\ Matching(t, s) /\ Timely(t, s)

LEMMA RequestTyped ==
  ASSUME NEW s \in Service
  PROVE  /\ \A r \in s.requests : /\ r \in Request /\ r.id \in Nat /\ r.attempts \in Nat
                                  /\ r.wire \in Wire /\ r.session \in Wire /\ r.gen \in Nat
                                  /\ r.spent \in BOOLEAN /\ r.phase \in Phases
         /\ s.asked \in Nat /\ s.reopened \in Nat /\ s.least \in Nat
         /\ s.sessions \subseteq Wire \X Nat
  <1>1. \A r \in s.requests : r \in Request
    BY DEF Service
  <1>2. \A r \in Request : /\ r.id \in Nat /\ r.attempts \in Nat
                           /\ r.wire \in Wire /\ r.session \in Wire /\ r.gen \in Nat
                           /\ r.spent \in BOOLEAN /\ r.phase \in Phases
    BY DEF Request
  <1>3. s.asked \in Nat /\ s.reopened \in Nat /\ s.least \in Nat /\ s.sessions \subseteq Wire \X Nat
    BY DEF Service
  <1> QED BY <1>1, <1>2, <1>3

LEMMA BoundTyped == MaxRequests \in Nat
  BY RequestBoundsAssumption

LEMMA PositiveIds ==
  ASSUME NEW s, Numbered(s)
  PROVE  \A r \in s.requests : 0 < r.id /\ r.id \in Nat
  <1> SUFFICES ASSUME NEW r \in s.requests PROVE 0 < r.id /\ r.id \in Nat
    OBVIOUS
  <1>1. r.id \in Nat /\ Regular(s, r)
    BY RequestTyped DEF Numbered
  <1> QED BY <1>1, BoundTyped DEF Regular

LEMMA FollowsNumbered ==
  ASSUME NEW s, Numbered(s), NEW v, Follows(s, v)
  PROVE  Numbered(v)
  <1>1. /\ s \in Service /\ v \in Service /\ v.asked = s.asked /\ v.reopened = s.reopened
        /\ s.asked <= MaxRequests
    BY DEF Numbered, Follows
  <1>2. ASSUME NEW q \in v.requests PROVE Regular(v, q)
    <2>1. PICK r \in s.requests : Continues(r, q)
      BY DEF Follows
    <2>2. Regular(s, r)
      BY DEF Numbered
    <2>3. r \in Request /\ q \in Request
      BY <1>1, RequestTyped
    <2>4. IF q.op = "reopen" THEN MaxRequests < q.id /\ q.id <= MaxRequests + v.reopened
          ELSE 0 < q.id /\ q.id <= v.asked
      BY <1>1, <2>1, <2>2 DEF Continues, Regular
    <2>5. q.op \in Opens <=> q.session = NoSession
      BY <2>1, <2>2 DEF Continues, Regular
    <2>6. /\ q.wire = IF q.phase \in Attended THEN <<q.id, q.attempts>> ELSE NoWire
          /\ q.phase \notin Attended => Recoverable(q) /\ q.spent
      <3>1. CASE q = r
        BY <3>1, <2>2 DEF Regular
      <3>2. CASE /\ q.wire = r.wire /\ q.session = r.session /\ q.spent = r.spent
                 /\ r.phase \in Attended /\ q.phase = "stalling"
        BY <3>2, <2>1, <2>2 DEF Regular, Attended, Continues
      <3>3. CASE /\ q.wire = NoWire /\ q.phase \notin Attended /\ q.spent /\ q.attempts <= 1
                 /\ Recoverable(q)
        BY <3>3
      <3> QED BY <2>1, <3>1, <3>2, <3>3 DEF Continues
    <2>7. q.attempts <= IF q.spent /\ Recoverable(q) /\ q.phase \in Attended THEN 2 ELSE 1
      <3>1. CASE q = r
        BY <3>1, <2>2 DEF Regular
      <3>2. CASE /\ q.wire = r.wire /\ q.session = r.session /\ q.spent = r.spent
                 /\ r.phase \in Attended /\ q.phase = "stalling"
        BY <3>2, <2>1, <2>2 DEF Regular, Attended, Continues, Recoverable
      <3>3. CASE /\ q.wire = NoWire /\ q.phase \notin Attended /\ q.spent /\ q.attempts <= 1
                 /\ Recoverable(q)
        BY <3>3
      <3> QED BY <2>1, <3>1, <3>2, <3>3 DEF Continues
    <2> QED BY <2>4, <2>5, <2>6, <2>7 DEF Regular
  <1> QED BY <1>1, <1>2 DEF Numbered, Follows

LEMMA FollowsUsed ==
  ASSUME NEW s, NEW v, Follows(s, v), NEW wire, Used(s, wire)
  PROVE  Used(v, wire)
  BY DEF Follows, Continues, Used

LEMMA NoWireUsed ==
  ASSUME NEW s, Numbered(s)
  PROVE  Used(s, NoWire)
  <1>1. s.asked \in Nat /\ NoWire[1] = 0 /\ NoWire \in Wire
    BY RequestTyped DEF Numbered, NoWire, Wire
  <1>2. \A r \in s.requests : r.id # 0
    BY PositiveIds
  <1> QED BY <1>1, <1>2 DEF Used

LEMMA WiredOn ==
  ASSUME NEW t, NEW s, NEW u, NEW v, Wired(t, s), Sheds(t, u), t.queue \subseteq t.pending,
         \A wire : Used(s, wire) => Used(v, wire), Used(v, NoWire)
  PROVE  Wired(u, v)
  <1>1. Ping.wire = NoWire
    BY DEF Ping, NoWire
  <1>2. \A p \in u.pending \cup u.worker.working : p \in t.pending \cup t.worker.working \/ p = Ping
    BY DEF Sheds
  <1>3. \A p \in u.pending \cup u.worker.working :
          Used(v, p.wire) /\ ((p.wire[1] > 0 /\ p.op # "ping") \/ p = Ping)
    BY <1>1, <1>2 DEF Wired
  <1>4. \A p \in u.pending : p.wire[1] > 0
    BY DEF Wired, Sheds
  <1>5. \A m \in Words(u) \cup u.signals : Used(v, m.wire)
    <2>1. \A m \in Words(u) : m \in Words(t)
      BY DEF Sheds
    <2>2. \A m \in u.signals : m \in t.signals \/ m.wire = NoWire \/ \E p \in t.pending : p.wire = m.wire
      BY DEF Sheds
    <2> QED BY <2>1, <2>2 DEF Wired
  <1>6. \A m \in u.signals : m.signal \in Endings => m.wire[1] > 0
    BY DEF Wired, Sheds, Endings
  <1>7. \A m \in Words(u), p \in u.queue : m.wire # p.wire
    BY DEF Wired, Sheds
  <1>8. \A p, q \in u.pending \cup u.worker.working : p.wire = q.wire => p = q
    <2>1. ASSUME NEW p \in t.pending \cup t.worker.working, p.wire = Ping.wire PROVE p = Ping
      <3>1. p.wire[1] = 0
        BY <2>1 DEF Ping
      <3> QED BY <3>1 DEF Wired
    <2>2. \A p, q \in t.pending \cup t.worker.working : p.wire = q.wire => p = q
      BY DEF Wired
    <2> QED BY <1>2, <2>1, <2>2
  <1>9. u.worker.working \cap u.queue = {}
    BY DEF Wired, Sheds
  <1> QED BY <1>3, <1>4, <1>5, <1>6, <1>7, <1>8, <1>9 DEF Wired

(* A session and its archives are known from one of four places. *)
LEMMA KnownFrom ==
  ASSUME NEW t, NEW s
  PROVE  \A f : f \in Known(t, s) <=>
           /\ f[1] # NoSession
           /\ \/ f \in t.worker.sessions
              \/ \E m \in Words(t) : m.status = "result" /\ f = <<m.session, m.print>>
              \/ \E m \in t.signals : m.signal = "succeeded" /\ f = <<m.session, m.print>>
              \/ f \in s.sessions
              \/ \E q \in s.requests : q.op \notin Opens /\ f = <<q.session, q.asked>>
  BY DEF Known, Results

LEMMA KnownOn ==
  ASSUME NEW t, NEW s, NEW u, NEW v, Sheds(t, u),
         \A f \in v.sessions : f[1] # NoSession => f \in Known(t, s),
         \A q \in v.requests :
           q.op \notin Opens /\ q.session # NoSession => <<q.session, q.asked>> \in Known(t, s)
  PROVE  Known(u, v) \subseteq Known(t, s)
  <1> SUFFICES ASSUME NEW f \in Known(u, v) PROVE f \in Known(t, s)
    OBVIOUS
  <1>1. f[1] # NoSession
    BY KnownFrom
  <1>2. CASE f \in u.worker.sessions
    BY <1>1, <1>2, KnownFrom DEF Sheds
  <1>3. CASE \E m \in Words(u) : m.status = "result" /\ f = <<m.session, m.print>>
    <2>1. \E m \in Words(t) : m.status = "result" /\ f = <<m.session, m.print>>
      BY <1>3 DEF Sheds
    <2> QED BY <1>1, <2>1, KnownFrom
  <1>4. CASE \E m \in u.signals : m.signal = "succeeded" /\ f = <<m.session, m.print>>
    <2>1. \E m \in t.signals : m.signal = "succeeded" /\ f = <<m.session, m.print>>
      BY <1>4 DEF Sheds
    <2> QED BY <1>1, <2>1, KnownFrom
  <1>5. CASE f \in v.sessions
    BY <1>1, <1>5
  <1>6. CASE \E q \in v.requests : q.op \notin Opens /\ f = <<q.session, q.asked>>
    <2>1. PICK q \in v.requests : q.op \notin Opens /\ f = <<q.session, q.asked>>
      BY <1>6
    <2>2. q.session # NoSession
      BY <1>1, <2>1
    <2> QED BY <2>1, <2>2
  <1> QED BY <1>2, <1>3, <1>4, <1>5, <1>6, KnownFrom

LEMMA SameResults ==
  ASSUME NEW t, NEW u, Sheds(t, u)
  PROVE  \A m \in Results(u) : m \in Results(t)
  BY DEF Results, Sheds

LEMMA NamedOn ==
  ASSUME NEW t, NEW s, NEW u, NEW v, Named(t, s), Sheds(t, u),
         Known(u, v) \subseteq Known(t, s),
         \A wire : Used(s, wire) => Used(v, wire),
         \A known \in v.sessions : known[1] # NoSession,
         \A a \in v.aliases : /\ Used(v, a[1]) /\ a[1] # NoSession
                              /\ \A e \in t.worker.working \cup t.queue : e.wire # a[1]
  PROVE  Named(u, v)
  <1>1. Ping.wire = NoSession
    BY DEF Ping, NoSession
  <1>2. \A e \in u.worker.working \cup u.queue : e \in t.worker.working \cup t.queue \/ e = Ping
    BY DEF Sheds
  <1>3. \A f \in Known(u, v) : Used(v, f[1])
    BY DEF Named
  <1>4. \A f \in Known(u, v) : f[1] # NoSession
    BY DEF Known
  <1>5. ASSUME NEW e \in u.worker.working \cup u.queue, NEW f \in Known(u, v)
        PROVE  e.wire # f[1]
    BY <1>1, <1>2, <1>4 DEF Named
  <1>6. ASSUME NEW e \in u.worker.working \cup u.queue, NEW a \in v.aliases
        PROVE  e.wire # a[1]
    BY <1>1, <1>2
  <1>7. \A known \in u.worker.sessions \cup v.sessions : known[1] # NoSession
    BY DEF Named, Sheds
  <1>8. ASSUME NEW m \in Results(u) PROVE m.session # NoSession \/ m.wire = NoWire
    <2>1. m \in Results(t)
      BY <1>8, SameResults
    <2> QED BY <2>1 DEF Named
  <1> QED BY <1>3, <1>5, <1>6, <1>7, <1>8 DEF Named

LEMMA AgreedOn ==
  ASSUME NEW t, NEW s, NEW u, NEW v, Agreed(t, s), Known(u, v) \subseteq Known(t, s),
         \A a \in v.aliases :
           /\ \E known \in v.sessions : known[1] = a[2]
           /\ \A f, g \in Known(t, s) : f[1] = a[1] /\ g[1] = a[2] => f[2] = g[2]
  PROVE  Agreed(u, v)
  BY DEF Agreed

LEMMA MatchingOn ==
  ASSUME NEW t, NEW s, NEW u, NEW v, Wired(t, s), Matching(t, s), Sheds(t, u), Follows(s, v)
  PROVE  Matching(u, v)
  <1>1. NoWire[1] = 0
    BY DEF NoWire
  <1>2. ASSUME NEW q \in v.requests, q.wire[1] > 0
        PROVE  \E r \in s.requests : /\ r.wire = q.wire /\ r.op = q.op /\ r.gen = q.gen
                                     /\ r.session = q.session /\ r.asked = q.asked
    <2>1. PICK r \in s.requests : Continues(r, q)
      BY DEF Follows
    <2>2. q.wire # NoWire
      BY <1>1, <1>2
    <2>3. /\ r.wire = q.wire /\ r.op = q.op /\ r.gen = q.gen
          /\ r.session = q.session /\ r.asked = q.asked
      BY <2>1, <2>2 DEF Continues
    <2> QED BY <2>3
  <1>3. ASSUME NEW p \in u.pending, NEW q \in v.requests, p.wire = q.wire
        PROVE  p.op = q.op /\ p.gen = q.gen /\ p.session = q.session
    <2>1. p \in t.pending /\ p.wire[1] > 0
      BY DEF Sheds, Wired
    <2>2. PICK r \in s.requests : /\ r.wire = q.wire /\ r.op = q.op /\ r.gen = q.gen
                                  /\ r.session = q.session /\ r.asked = q.asked
      BY <1>2, <1>3, <2>1
    <2> QED BY <1>3, <2>1, <2>2 DEF Matching
  <1>4. \A p \in u.pending, m \in Words(u) :
          p.wire = m.wire /\ p.op \notin Opens /\ m.status = "result" => m.session = p.session
    BY DEF Matching, Sheds
  <1>5. ASSUME NEW m \in u.signals, NEW q \in v.requests,
               m.signal = "succeeded" /\ m.wire = q.wire /\ q.op \notin Opens
        PROVE  m.print = q.asked
    <2>1. m \in t.signals /\ m.wire[1] > 0
      BY <1>5 DEF Sheds, Wired, Endings
    <2>2. PICK r \in s.requests : /\ r.wire = q.wire /\ r.op = q.op /\ r.gen = q.gen
                                  /\ r.session = q.session /\ r.asked = q.asked
      BY <1>2, <1>5, <2>1
    <2> QED BY <1>5, <2>1, <2>2 DEF Matching
  <1>6. \A p \in u.pending : p.wire[2] <= IF p.op = "export" THEN 1 ELSE 2
    BY DEF Matching, Sheds
  <1> QED BY <1>3, <1>4, <1>5, <1>6 DEF Matching

LEMMA TimelyOn ==
  ASSUME NEW t, NEW s, NEW u, NEW v, Wired(t, s), Timely(t, s), Sheds(t, u), Follows(s, v),
         u.least = t.least, v.least = s.least,
         u.state = "stopping" => t.state = "stopping" \/ v.closing, s.closing => v.closing
  PROVE  Timely(u, v)
  <1>1. NoWire[1] = 0
    BY DEF NoWire
  <1>2. ASSUME NEW m \in u.signals, NEW q \in v.requests, m.signal = "succeeded" /\ m.wire = q.wire
        PROVE  q.gen >= v.least
    <2>1. m \in t.signals /\ m.wire[1] > 0
      BY <1>2 DEF Sheds, Wired, Endings
    <2>2. PICK r \in s.requests : Continues(r, q)
      BY DEF Follows
    <2>3. q.wire # NoWire
      BY <1>1, <1>2, <2>1
    <2>4. r.wire = q.wire /\ r.gen = q.gen
      BY <2>2, <2>3 DEF Continues
    <2> QED BY <1>2, <2>1, <2>4 DEF Timely
  <1>3. v.least = u.least /\ (u.state = "stopping" => v.closing)
    BY DEF Timely
  <1> QED BY <1>2, <1>3 DEF Timely

LEMMA AwaitedOn ==
  ASSUME NEW t, NEW s, NEW u, NEW v, Awaited(t, s), Tells(t, u), u.queue \subseteq t.queue,
         \A q \in v.requests : q.phase \in Attended => q \in s.requests
  PROVE  Awaited(u, v)
  <1> SUFFICES ASSUME NEW q \in v.requests, q.phase \in Attended
               PROVE  \/ \E p \in u.pending : p.wire = q.wire /\ (q.phase = "stalling" => p \notin u.queue)
                      \/ \E m \in u.signals : m.wire = q.wire /\ m.signal \in Endings
    BY DEF Awaited
  <1>1. CASE \E p \in t.pending : p.wire = q.wire /\ (q.phase = "stalling" => p \notin t.queue)
    BY <1>1 DEF Tells
  <1>2. CASE \E m \in t.signals : m.wire = q.wire /\ m.signal \in Endings
    BY <1>2 DEF Tells
  <1> QED BY <1>1, <1>2 DEF Awaited

(* What most steps of the service keep. *)
LEMMA JointOn ==
  ASSUME NEW t, t.queue \subseteq t.pending, NEW s, Numbered(s), Joint(t, s), NEW u, Sheds(t, u), u.least = t.least,
         NEW v, Follows(s, v), v.sessions = s.sessions, v.aliases = s.aliases, v.least = s.least,
         u.state = "stopping" => t.state = "stopping" \/ v.closing, s.closing => v.closing,
         \A q \in v.requests :
           q.op \notin Opens /\ q.session # NoSession => <<q.session, q.asked>> \in Known(t, s)
  PROVE  Numbered(v) /\ Joint(u, v)
  <1>1. Numbered(v)
    BY FollowsNumbered
  <1>2. \A wire : Used(s, wire) => Used(v, wire)
    BY FollowsUsed
  <1>3. Used(v, NoWire)
    BY <1>1, NoWireUsed
  <1>5. Wired(t, s) /\ Named(t, s) /\ Agreed(t, s) /\ Matching(t, s) /\ Timely(t, s)
    BY DEF Joint
  <1>6. Wired(u, v)
    BY <1>2, <1>3, <1>5, WiredOn
  <1>7. \A f \in v.sessions : f[1] # NoSession => f \in Known(t, s)
    BY KnownFrom
  <1>8. Known(u, v) \subseteq Known(t, s)
    BY <1>7, KnownOn
  <1>9. /\ \A known \in v.sessions : known[1] # NoSession
        /\ \A a \in v.aliases : /\ Used(v, a[1]) /\ a[1] # NoSession
                                /\ \A e \in t.worker.working \cup t.queue : e.wire # a[1]
    BY <1>2, <1>5 DEF Named
  <1>10. Named(u, v)
    BY <1>2, <1>5, <1>8, <1>9, NamedOn
  <1>11. \A a \in v.aliases :
           /\ \E known \in v.sessions : known[1] = a[2]
           /\ \A f, g \in Known(t, s) : f[1] = a[1] /\ g[1] = a[2] => f[2] = g[2]
    BY <1>5 DEF Agreed
  <1>12. Agreed(u, v)
    BY <1>5, <1>8, <1>11, AgreedOn
  <1>13. Matching(u, v) /\ Timely(u, v)
    BY <1>5, MatchingOn, TimelyOn
  <1> QED BY <1>1, <1>6, <1>10, <1>12, <1>13 DEF Joint

LEMMA OwnKnown ==
  ASSUME NEW t, NEW s, NEW r \in s.requests, r.op \notin Opens, r.session # NoSession
  PROVE  <<r.session, r.asked>> \in Known(t, s)
  BY KnownFrom

-----------------------------------------------------------------------------
(* The operators of the service. *)

Worlds == [t : Transport, s : Service]

(* All of the service but its requests and its reopenings. *)
Rest(s, v) ==
  /\ v.sessions = s.sessions /\ v.aliases = s.aliases /\ v.least = s.least
  /\ v.closing = s.closing /\ v.asked = s.asked /\ v.reopened = s.reopened
  /\ v.answers = s.answers

LEMMA CancelRequestsDoes ==
  ASSUME NEW x \in Worlds, NEW R \in SUBSET x.s.requests, NEW y, y = CancelRequests(x, R)
  PROVE  /\ \E W \in SUBSET Wire : y.t = Cancel(x.t, W)
         /\ y.s \in Service /\ Rest(x.s, y.s) /\ y.s.requests \subseteq x.s.requests \ R
  <1> DEFINE kept == x.s.requests \ R
             lost == {r.session : r \in R}
                       \ ({NoSession} \cup {r.session : r \in {k \in kept : k.phase = "recovering"}})
             orphans == {o \in x.s.opens : o.session \in lost}
             gone == R \cup {r \in kept : \E o \in orphans : o.id = r.id}
             W == {r.wire : r \in gone}
             v == [x.s EXCEPT !.requests = @ \ gone, !.opens = @ \ orphans, !.waiting = @ \ lost]
  <1>1. y = [t |-> Cancel(x.t, W), s |-> v]
    BY DEF CancelRequests
  <1>2. x.s \in Service
    BY DEF Worlds
  <1>3. gone \subseteq x.s.requests /\ R \subseteq gone
    OBVIOUS
  <1>4. W \in SUBSET Wire
    BY <1>2, <1>3, RequestTyped
  <1>5. y.t = Cancel(x.t, W) /\ y.s = v
    BY <1>1
  <1> HIDE DEF gone, orphans, lost, W
  <1>6. v \in Service
    <2>1. /\ x.s.requests \ gone \in SUBSET Request
          /\ x.s.opens \ orphans \in SUBSET [id : Nat, session : Wire]
          /\ x.s.waiting \ lost \in SUBSET Wire
      BY <1>2 DEF Service
    <2> QED BY <1>2, <2>1 DEF Service
  <1>7. v.requests = x.s.requests \ gone
    BY <1>2 DEF Service
  <1>8. Rest(x.s, v)
    BY <1>2 DEF Service, Rest
  <1> QED BY <1>3, <1>4, <1>5, <1>6, <1>7, <1>8

LEMMA FailRecoveryDoes ==
  ASSUME NEW s \in Service, NEW session, NEW v, v = FailRecoverySession(s, session)
  PROVE  v \in Service /\ Rest(s, v) /\ v.requests \subseteq s.requests
  <1> DEFINE over == {o \in s.opens : o.session = session}
             kept == {r \in s.requests \ Recovering(s, session) : \A o \in over : o.id # r.id}
  <1>1. v = [s EXCEPT !.waiting = @ \ {session}, !.opens = @ \ over, !.requests = kept]
    BY DEF FailRecoverySession, Service
  <1>2. kept \subseteq s.requests
    OBVIOUS
  <1> HIDE DEF over, kept
  <1>3. v \in Service
    <2>1. /\ kept \in SUBSET Request
          /\ s.opens \ over \in SUBSET [id : Nat, session : Wire]
          /\ s.waiting \ {session} \in SUBSET Wire
      BY <1>2 DEF Service
    <2> QED BY <1>1, <2>1 DEF Service
  <1>4. v.requests = kept /\ Rest(s, v)
    BY <1>1 DEF Service, Rest
  <1> QED BY <1>2, <1>3, <1>4

Delayed(r) == [r EXCEPT !.spent = TRUE, !.phase = "backoff", !.wire = NoWire]

LEMMA DelayedDoes ==
  ASSUME NEW r \in Request
  PROVE  /\ Delayed(r) \in Request /\ Delayed(r).phase = "backoff" /\ Delayed(r).wire = NoWire
         /\ Delayed(r).spent = TRUE /\ Delayed(r).id = r.id /\ Delayed(r).op = r.op
         /\ Delayed(r).gen = r.gen /\ Delayed(r).attempts = r.attempts /\ Delayed(r).asked = r.asked
         /\ Delayed(r).session = r.session /\ (Recoverable(Delayed(r)) <=> Recoverable(r))
  <1>1. "backoff" \in Phases /\ NoWire \in Wire
    BY DEF Phases, NoWire, Wire
  <1> QED BY <1>1 DEF Delayed, Request, Recoverable

(* What is left of a request that has come to an end without a result. *)
Aftermath(x, r, y) ==
  /\ y.t = x.t \/ \E W \in SUBSET Wire : y.t = Cancel(x.t, W)
  /\ y.s \in Service /\ Rest(x.s, y.s)
  /\ \A q \in y.s.requests : \/ q \in x.s.requests \ {r}
                             \/ q = Delayed(r) /\ Recoverable(r) /\ r.spent = FALSE

LEMMA LeavesDoes ==
  ASSUME NEW s \in Service, NEW r, NEW v, v = Leaves(s, r)
  PROVE  v \in Service /\ Rest(s, v) /\ v.requests = s.requests \ {r}
  <1>1. s.requests \ {r} \in SUBSET Request
    BY DEF Service
  <1> QED BY <1>1 DEF Leaves, Service, Rest

LEMMA ChangeDoes ==
  ASSUME NEW s \in Service, NEW r, NEW new \in Request, NEW v, v = Change(s, r, new)
  PROVE  v \in Service /\ Rest(s, v) /\ v.requests = (s.requests \ {r}) \cup {new}
  <1>1. (s.requests \ {r}) \cup {new} \in SUBSET Request
    BY DEF Service
  <1> QED BY <1>1 DEF Change, Service, Rest

LEMMA FailureDoes ==
  ASSUME NEW x \in Worlds, NEW r \in x.s.requests, NEW said, NEW y, y = HandleFailure(x, r, said)
  PROVE  Aftermath(x, r, y)
  <1> DEFINE code == IF r.phase = "stalling" THEN "request_stalled" ELSE said
  <1>0. x.s \in Service /\ x.t \in Transport /\ r \in Request
    BY RequestTyped DEF Worlds
  <1>1. CASE r.gen < x.s.least \/ code \in {"stale_generation", "client_shutdown"}
    <2>1. y = CancelRequests(x, {r})
      BY <1>1 DEF HandleFailure
    <2>2. {r} \in SUBSET x.s.requests
      OBVIOUS
    <2>3. /\ \E W \in SUBSET Wire : y.t = Cancel(x.t, W)
          /\ y.s \in Service /\ Rest(x.s, y.s) /\ y.s.requests \subseteq x.s.requests \ {r}
      BY <2>1, <2>2, CancelRequestsDoes
    <2> QED BY <2>3 DEF Aftermath
  <1>2. CASE /\ ~ (r.gen < x.s.least \/ code \in {"stale_generation", "client_shutdown"})
             /\ Recoverable(r) /\ ~ r.spent /\ code \in Transient
    <2> DEFINE v == Change(x.s, r, Delayed(r))
    <2>1. y = [x EXCEPT !.s = v]
      BY <1>2 DEF HandleFailure, Delayed, Worlds
    <2>2. v \in Service /\ Rest(x.s, v) /\ v.requests = (x.s.requests \ {r}) \cup {Delayed(r)}
      <3>1. Delayed(r) \in Request
        BY <1>0, DelayedDoes
      <3> QED BY <1>0, <3>1, ChangeDoes
    <2> HIDE DEF v
    <2>3. y.t = x.t /\ y.s = v
      BY <2>1 DEF Worlds
    <2>4. r.spent = FALSE
      BY <1>0, <1>2 DEF Request
    <2> QED BY <1>2, <2>2, <2>3, <2>4 DEF Aftermath
  <1>3. CASE /\ ~ (r.gen < x.s.least \/ code \in {"stale_generation", "client_shutdown"})
             /\ ~ (Recoverable(r) /\ ~ r.spent /\ code \in Transient)
    <2> DEFINE w == Leaves(x.s, r)
               v == IF r.op = "reopen" THEN FailRecoverySession(w, r.reopens) ELSE w
    <2>1. y = [x EXCEPT !.s = v]
      BY <1>3 DEF HandleFailure, Worlds
    <2>2. w \in Service /\ Rest(x.s, w) /\ w.requests = x.s.requests \ {r}
      BY <1>0, LeavesDoes
    <2> HIDE DEF w
    <2>3. v \in Service /\ Rest(x.s, v) /\ v.requests \subseteq x.s.requests \ {r}
      <3>1. CASE r.op = "reopen"
        <4>1. v = FailRecoverySession(w, r.reopens)
          BY <3>1
        <4>2. v \in Service /\ Rest(w, v) /\ v.requests \subseteq w.requests
          BY <2>2, <4>1, FailRecoveryDoes
        <4> QED BY <2>2, <4>2 DEF Rest
      <3>2. CASE r.op # "reopen"
        BY <2>2, <3>2
      <3> QED BY <3>1, <3>2
    <2> HIDE DEF v
    <2>4. y.t = x.t /\ y.s = v
      BY <2>1 DEF Worlds
    <2> QED BY <2>3, <2>4 DEF Aftermath
  <1> QED BY <1>1, <1>2, <1>3

LEMMA CancelledDoes ==
  ASSUME NEW x \in Worlds, NEW r \in x.s.requests, NEW y, y = HandleCancelled(x, r)
  PROVE  Aftermath(x, r, y)
  <1>1. CASE r.phase = "stalling"
    BY <1>1, FailureDoes DEF HandleCancelled
  <1>2. CASE r.phase # "stalling"
    <2>1. y = CancelRequests(x, {r}) /\ {r} \in SUBSET x.s.requests
      BY <1>2 DEF HandleCancelled
    <2>2. /\ \E W \in SUBSET Wire : y.t = Cancel(x.t, W)
          /\ y.s \in Service /\ Rest(x.s, y.s) /\ y.s.requests \subseteq x.s.requests \ {r}
      BY <2>1, CancelRequestsDoes
    <2> QED BY <2>2 DEF Aftermath
  <1> QED BY <1>1, <1>2

(* What a world becomes once a request of it has come to an end. *)
LEMMA AftermathFollows ==
  ASSUME NEW x, Numbered(x.s), NEW r \in x.s.requests, NEW y, Aftermath(x, r, y)
  PROVE  /\ Follows(x.s, y.s)
         /\ \A q \in y.s.requests : q.phase \in Attended => q \in x.s.requests \ {r}
         /\ \A q \in y.s.requests : \E o \in x.s.requests :
              q.op = o.op /\ q.session = o.session /\ q.asked = o.asked
  <1>0. x.s \in Service /\ r \in Request /\ Regular(x.s, r) /\ r.id \in Nat
    BY RequestTyped DEF Numbered
  <1>1. \A q \in y.s.requests : \/ q \in x.s.requests \ {r}
                                \/ q = Delayed(r) /\ Recoverable(r) /\ r.spent = FALSE
    BY DEF Aftermath
  <1>2. /\ Delayed(r).phase = "backoff" /\ Delayed(r).wire = NoWire
        /\ Delayed(r).spent = TRUE /\ Delayed(r).id = r.id /\ Delayed(r).op = r.op
        /\ Delayed(r).gen = r.gen /\ Delayed(r).attempts = r.attempts /\ Delayed(r).asked = r.asked
        /\ Delayed(r).session = r.session /\ (Recoverable(Delayed(r)) <=> Recoverable(r))
    BY <1>0, DelayedDoes
  <1>3. r.spent = FALSE => r.attempts <= 1
    BY <1>0 DEF Regular
  <1>4. "backoff" \notin Attended
    BY DEF Attended
  <1>5. ASSUME NEW q \in y.s.requests PROVE \E o \in x.s.requests : Continues(o, q)
    <2>1. CASE q \in x.s.requests
      <3>1. Continues(q, q)
        BY DEF Continues
      <3> QED BY <2>1, <3>1
    <2>2. CASE q = Delayed(r) /\ Recoverable(r) /\ r.spent = FALSE
      <3>1. Continues(r, q)
        BY <1>2, <1>3, <1>4, <2>2 DEF Continues
      <3> QED BY <3>1
    <2> QED BY <1>1, <2>1, <2>2
  <1>6. \A o, q \in y.s.requests : o.id = q.id => o = q
    <2>1. \A o, q \in x.s.requests : o.id = q.id => o = q
      BY DEF Numbered
    <2> QED BY <1>1, <1>2, <2>1
  <1>7. /\ y.s \in Service /\ y.s.asked = x.s.asked /\ y.s.reopened = x.s.reopened
        /\ ~ y.s.closing
    BY DEF Aftermath, Rest, Numbered
  <1>8. Follows(x.s, y.s)
    BY <1>5, <1>6, <1>7 DEF Follows
  <1>9. \A q \in y.s.requests : q.phase \in Attended => q \in x.s.requests \ {r}
    BY <1>1, <1>2, <1>4
  <1>10. \A q \in y.s.requests : \E o \in x.s.requests :
            q.op = o.op /\ q.session = o.session /\ q.asked = o.asked
    BY <1>1, <1>2
  <1> QED BY <1>8, <1>9, <1>10

LEMMA AftermathServes ==
  ASSUME NEW x, Sane(x.t), NEW r, NEW y, Aftermath(x, r, y)
  PROVE  Sane(y.t) /\ Serves(x.t, y.t)
  <1>1. CASE y.t = x.t
    BY <1>1, ServesItself DEF Sane
  <1>2. CASE \E W \in SUBSET Wire : y.t = Cancel(x.t, W)
    BY <1>2, CancelSane
  <1> QED BY <1>1, <1>2 DEF Aftermath

(* An ending is that of one request, and of one that awaits it. *)
LEMMA OnlyAddressee ==
  ASSUME NEW t, NEW s, Numbered(s), Wired(t, s), NEW m \in t.signals, m.signal \in Endings,
         NEW r \in s.requests, r.wire = m.wire
  PROVE  /\ r.phase \in Attended
         /\ \A q \in s.requests : q.wire = m.wire => q = r
  <1>1. m.wire[1] > 0 /\ NoWire[1] = 0
    BY DEF Wired, NoWire
  <1>2. r.phase \in Attended /\ r.wire = <<r.id, r.attempts>>
    <2>1. Regular(s, r)
      BY DEF Numbered
    <2>2. r.wire # NoWire
      BY <1>1
    <2> QED BY <2>1, <2>2 DEF Regular
  <1>3. ASSUME NEW q \in s.requests, q.wire = m.wire PROVE q = r
    <2>1. Regular(s, q)
      BY DEF Numbered
    <2>2. q.wire # NoWire
      BY <1>1, <1>3
    <2>3. q.wire = <<q.id, q.attempts>>
      BY <2>1, <2>2 DEF Regular
    <2>4. q.id = r.id
      BY <1>2, <1>3, <2>3
    <2> QED BY <2>4 DEF Numbered
  <1> QED BY <1>2, <1>3

(* The same when the world x is what is left once a signal was heard. *)
LEMMA HearingKeeps ==
  ASSUME NEW t, NEW s, Inductive(t, s), NEW m \in t.signals, m.signal \in Endings,
         NEW r \in s.requests, r.wire = m.wire,
         NEW x, x.t = [t EXCEPT !.signals = @ \ {m}], x.s = s, NEW y, Aftermath(x, r, y)
  PROVE  Inductive(y.t, y.s) /\ Keeps(t, y.t) /\ y.s.answers = s.answers
  <1>0. Sane(t) /\ Numbered(s) /\ Joint(t, s) /\ Awaited(t, s)
    BY DEF Inductive, Joint
  <1>1. /\ Sane(x.t) /\ Sheds(t, x.t) /\ Keeps(t, x.t) /\ x.t.signals = t.signals \ {m}
        /\ x.t.pending = t.pending /\ x.t.queue = t.queue
    BY <1>0, HeardSane
  <1>2. Sane(y.t) /\ Serves(x.t, y.t)
    BY <1>1, AftermathServes
  <1>3. /\ Follows(s, y.s)
        /\ \A q \in y.s.requests : q.phase \in Attended => q \in s.requests \ {r}
        /\ \A q \in y.s.requests : \E o \in s.requests :
              q.op = o.op /\ q.session = o.session /\ q.asked = o.asked
    BY <1>0, AftermathFollows
  <1>4. /\ t \in Transport /\ x.t \in Transport /\ y.t \in Transport
        /\ Ping \notin t.pending /\ t.queue \subseteq t.pending
    BY <1>0, <1>1, <1>2 DEF Sane, Greeting, Live
  <1>5. Sheds(t, y.t)
    BY <1>1, <1>2, <1>4, ShedsTwice DEF Serves
  <1>6. y.t.least = t.least /\ (y.t.state = "stopping" => t.state = "stopping")
    BY <1>1, <1>2 DEF Serves, Keeps
  <1>7. /\ y.s.sessions = s.sessions /\ y.s.aliases = s.aliases /\ y.s.least = s.least
        /\ y.s.closing = s.closing
    BY DEF Aftermath, Rest
  <1>8. \A q \in y.s.requests :
          q.op \notin Opens /\ q.session # NoSession => <<q.session, q.asked>> \in Known(t, s)
    BY <1>3, OwnKnown
  <1>9. Numbered(y.s) /\ Joint(y.t, y.s)
    BY <1>0, <1>3, <1>4, <1>5, <1>6, <1>7, <1>8, JointOn
  <1>10. Awaited(x.t, y.s)
    <2> SUFFICES ASSUME NEW q \in y.s.requests, q.phase \in Attended
                 PROVE  \/ \E p \in x.t.pending : p.wire = q.wire /\ (q.phase = "stalling" => p \notin x.t.queue)
                        \/ \E n \in x.t.signals : n.wire = q.wire /\ n.signal \in Endings
      BY DEF Awaited
    <2>1. q \in s.requests /\ q # r
      BY <1>3
    <2>2. q.wire # m.wire
      BY <1>0, <2>1, OnlyAddressee DEF Joint
    <2> QED BY <1>0, <1>1, <2>1, <2>2 DEF Awaited
  <1>11. Awaited(y.t, y.s)
    <2>1. Tells(x.t, y.t) /\ y.t.queue \subseteq x.t.queue
      BY <1>2 DEF Serves, Sheds
    <2> QED BY <1>10, <2>1, AwaitedOn
  <1>12. Keeps(t, y.t)
    BY <1>1, <1>2 DEF Serves, Keeps
  <1>13. y.s.answers = s.answers
    BY DEF Aftermath, Rest
  <1> QED BY <1>2, <1>9, <1>11, <1>12, <1>13 DEF Inductive, Joint

-----------------------------------------------------------------------------
(* The steps. *)

IInv == Inductive(transport, service)

(* The transport serves; the service goes on with what is left of its requests. *)
LEMMA ServingKeeps ==
  ASSUME NEW t, NEW s, Inductive(t, s), NEW u, Sane(u), Sheds(t, u), Tells(t, u), u.least = t.least,
         NEW v, Follows(s, v), v.sessions = s.sessions, v.aliases = s.aliases, v.least = s.least,
         u.state = "stopping" => t.state = "stopping" \/ v.closing, s.closing => v.closing,
         \A q \in v.requests :
           q.op \notin Opens /\ q.session # NoSession => <<q.session, q.asked>> \in Known(t, s),
         \A q \in v.requests : q.phase \in Attended => q \in s.requests
  PROVE  Inductive(u, v)
  <1>1. Numbered(v) /\ Joint(u, v)
    <2>1. t.queue \subseteq t.pending /\ Numbered(s) /\ Joint(t, s)
      BY DEF Inductive, Joint, Sane, Live
    <2> QED BY <2>1, JointOn
  <1>2. u.queue \subseteq t.queue
    BY DEF Sheds
  <1>3. Awaited(u, v)
    BY <1>2, AwaitedOn DEF Inductive
  <1> QED BY <1>1, <1>3 DEF Inductive, Joint

LEMMA SameFollows ==
  ASSUME NEW s, Numbered(s), NEW v \in Service, Rest(s, v) \/ (v.asked = s.asked /\ v.reopened = s.reopened),
         v.requests \subseteq s.requests, v.closing => v.requests = {} \/ s.closing
  PROVE  Follows(s, v)
  <1>1. \A q : Continues(q, q)
    BY DEF Continues
  <1> QED BY <1>1 DEF Follows, Rest, Numbered

(* The client goes on while the service loses some requests, or none. *)
LEMMA ClientKeeps ==
  ASSUME NEW t, NEW s, Inductive(t, s), NEW u, Sane(u), Sheds(t, u), Tells(t, u), u.least = t.least,
         u.state = "stopping" => t.state = "stopping",
         NEW v \in Service, Rest(s, v), v.requests \subseteq s.requests
  PROVE  Inductive(u, v)
  <1>1. Numbered(s) /\ s \in Service
    BY DEF Inductive, Numbered
  <1>2. Follows(s, v)
    BY <1>1, SameFollows DEF Rest
  <1>3. \A q \in v.requests :
          q.op \notin Opens /\ q.session # NoSession => <<q.session, q.asked>> \in Known(t, s)
    BY OwnKnown
  <1>4. /\ v.sessions = s.sessions /\ v.aliases = s.aliases /\ v.least = s.least
        /\ v.closing = s.closing
    BY DEF Rest
  <1>5. \A q \in v.requests : q.phase \in Attended => q \in s.requests
    OBVIOUS
  <1> QED BY <1>2, <1>3, <1>4, <1>5, ServingKeeps

(* The steps of the client alone. *)
LEMMA ClientAlone ==
  ASSUME NEW t, NEW s, Inductive(t, s), NEW u, Sane(u), Sheds(t, u), Tells(t, u), u.least = t.least,
         u.state = "stopping" => t.state = "stopping"
  PROVE  Inductive(u, s)
  <1>1. s \in Service
    BY DEF Inductive, Numbered
  <1>2. Rest(s, s)
    BY DEF Rest
  <1> QED BY <1>1, <1>2, ClientKeeps

(* A fresh envelope is submitted for the request n. *)
LEMMA SubmitKeeps ==
  ASSUME NEW t, NEW s, Inductive(t, s), ~ s.closing,
         NEW v, Numbered(v), ~ v.closing, v.sessions = s.sessions, v.aliases = s.aliases,
         v.least = s.least, NEW n \in v.requests, NEW e \in Envelope,
         \A q \in v.requests : q = n \/ (q \in s.requests /\ q.id # n.id),
         n.phase = "waiting", n.wire = e.wire, e.wire = <<n.id, n.attempts>>,
         e.op = n.op, e.gen = n.gen, e.session = n.session,
         e.wire[2] <= IF e.op = "export" THEN 1 ELSE 2,
         \A wire : Used(s, wire) => Used(v, wire) /\ wire # e.wire,
         n.op \notin Opens => <<n.session, n.asked>> \in Known(t, s),
         NEW u, u = Submit(t, e)
  PROVE  Inductive(u, v) /\ Keeps(t, u)
  <1> DEFINE b == [t EXCEPT !.pending = @ \cup {e}, !.queue = @ \cup {e}]
  <1>0. /\ Sane(t) /\ Wired(t, s) /\ Named(t, s) /\ Agreed(t, s) /\ Matching(t, s) /\ Timely(t, s)
        /\ Awaited(t, s) /\ Numbered(s)
    BY DEF Inductive
  <1>1. n.id > 0 /\ n.id \in Nat /\ Regular(v, n) /\ n \in Request
    BY PositiveIds, RequestTyped DEF Numbered
  <1>2. n.op # "ping"
    BY <1>1 DEF Request
  <1>3. e # Ping /\ e.wire[1] = n.id
    BY <1>2 DEF Ping
  <1>4. t.state # "stopping"
    BY <1>0 DEF Timely
  <1>5. /\ Sane(u) /\ b \in Transport /\ Sheds(b, u) /\ Tells(b, u) /\ Keeps(t, u)
        /\ b.pending = t.pending \cup {e} /\ b.queue = t.queue \cup {e}
        /\ b.signals = t.signals /\ b.worker = t.worker /\ b.least = t.least
        /\ b.state = t.state
    <2>1. Sane(t) /\ e # Ping
      BY <1>0, <1>3
    <2>2. b = [t EXCEPT !.pending = @ \cup {e}, !.queue = @ \cup {e}]
      OBVIOUS
    <2> HIDE DEF b
    <2>3. Sane(u) /\ Queued(t, e, b) /\ Sheds(b, u) /\ Tells(b, u) /\ Keeps(t, u)
      BY ONLY <2>1, <2>2, <1>4, e \in Envelope, u = Submit(t, e), SubmitSane
    <2> QED BY <2>3 DEF Queued
  <1> HIDE DEF b
  <1>6. Words(b) = Words(t)
    BY <1>5 DEF Words
  <1>7. Used(v, e.wire)
    <2>1. n.id <= v.asked \/ (MaxRequests < n.id /\ n.id <= MaxRequests + v.reopened)
      BY <1>1 DEF Regular
    <2>2. \A r \in v.requests : r.id = n.id => n.attempts <= r.attempts
      <3>1. \A r \in v.requests : r.id = n.id => r = n
        BY DEF Numbered
      <3>2. n.attempts <= n.attempts
        BY <1>1 DEF Request
      <3> QED BY <3>1, <3>2
    <2>3. e.wire \in Wire
      BY DEF Envelope
    <2> QED BY <1>3, <2>1, <2>2, <2>3 DEF Used
  <1>8. \A p \in t.pending \cup t.worker.working : p.wire # e.wire
    BY <1>0 DEF Wired
  <1>9. \A m \in Words(t) \cup t.signals : m.wire # e.wire
    BY <1>0 DEF Wired
  <1>10. Wired(b, v)
    <2>1. \A p \in b.pending \cup b.worker.working :
            Used(v, p.wire) /\ ((p.wire[1] > 0 /\ p.op # "ping") \/ p = Ping)
      BY <1>0, <1>1, <1>2, <1>3, <1>5, <1>7 DEF Wired
    <2>2. \A p \in b.pending : p.wire[1] > 0
      BY <1>0, <1>1, <1>3, <1>5 DEF Wired
    <2>3. \A m \in Words(b) \cup b.signals : Used(v, m.wire)
      BY <1>0, <1>5, <1>6 DEF Wired
    <2>4. \A m \in b.signals : m.signal \in Endings => m.wire[1] > 0
      BY <1>0, <1>5 DEF Wired
    <2>5. \A m \in Words(b), p \in b.queue : m.wire # p.wire
      BY <1>0, <1>5, <1>6, <1>9 DEF Wired
    <2>6. \A p, q \in b.pending \cup b.worker.working : p.wire = q.wire => p = q
      <3>1. \A p, q \in t.pending \cup t.worker.working : p.wire = q.wire => p = q
        BY <1>0 DEF Wired
      <3>2. b.pending \cup b.worker.working = t.pending \cup t.worker.working \cup {e}
        BY <1>5
      <3> QED BY <1>8, <3>1, <3>2
    <2>7. b.worker.working \cap b.queue = {}
      BY <1>0, <1>5, <1>8 DEF Wired
    <2> QED BY <2>1, <2>2, <2>3, <2>4, <2>5, <2>6, <2>7 DEF Wired
  <1>11. Known(b, v) \subseteq Known(t, s)
    <2> SUFFICES ASSUME NEW f \in Known(b, v) PROVE f \in Known(t, s)
      OBVIOUS
    <2>1. /\ f[1] # NoSession
          /\ \/ f \in b.worker.sessions
             \/ \E m \in Words(b) : m.status = "result" /\ f = <<m.session, m.print>>
             \/ \E m \in b.signals : m.signal = "succeeded" /\ f = <<m.session, m.print>>
             \/ f \in v.sessions
             \/ \E q \in v.requests : q.op \notin Opens /\ f = <<q.session, q.asked>>
      BY KnownFrom
    <2>2. CASE \E q \in v.requests : q.op \notin Opens /\ f = <<q.session, q.asked>>
      <3>1. PICK q \in v.requests : q.op \notin Opens /\ f = <<q.session, q.asked>>
        BY <2>2
      <3>2. CASE q = n
        BY <3>1, <3>2
      <3>3. CASE q \in s.requests
        BY <2>1, <3>1, <3>3, KnownFrom
      <3> QED BY <3>2, <3>3
    <2>3. CASE ~ \E q \in v.requests : q.op \notin Opens /\ f = <<q.session, q.asked>>
      BY <1>5, <1>6, <2>1, <2>3, KnownFrom
    <2> QED BY <2>2, <2>3
  <1>12. Named(b, v)
    <2>1. \A f \in Known(b, v) : Used(v, f[1]) /\ f[1] # e.wire
      BY <1>0, <1>11 DEF Named
    <2>2. \A a \in v.aliases : Used(v, a[1]) /\ a[1] # NoSession /\ a[1] # e.wire
      BY <1>0 DEF Named
    <2>3. ASSUME NEW x \in b.worker.working \cup b.queue
          PROVE  (\A f \in Known(b, v) : x.wire # f[1]) /\ (\A a \in v.aliases : x.wire # a[1])
      <3>1. CASE x = e
        BY <2>1, <2>2, <3>1
      <3>2. CASE x \in t.worker.working \cup t.queue
        BY <1>0, <1>11, <3>2 DEF Named
      <3> QED BY <1>5, <3>1, <3>2
    <2>4. \A known \in b.worker.sessions \cup v.sessions : known[1] # NoSession
      BY <1>0, <1>5 DEF Named
    <2>5. \A m \in Results(b) : m.session # NoSession \/ m.wire = NoWire
      BY <1>0, <1>5, <1>6 DEF Named, Results
    <2> QED BY <2>1, <2>2, <2>3, <2>4, <2>5 DEF Named
  <1>13. Agreed(b, v)
    BY <1>0, <1>11 DEF Agreed
  <1>14. \A q \in v.requests : q # n => q \in s.requests /\ q.wire # e.wire
    <2> SUFFICES ASSUME NEW q \in v.requests, q # n PROVE q \in s.requests /\ q.wire # e.wire
      OBVIOUS
    <2>1. q \in s.requests /\ q.id # n.id /\ Regular(s, q)
      BY <1>0 DEF Numbered
    <2>2. q.wire = <<q.id, q.attempts>> \/ q.wire = <<0, 0>>
      BY <2>1 DEF Regular, NoWire
    <2>3. q.wire[1] = q.id \/ q.wire[1] = 0
      BY <2>2
    <2> QED BY <1>1, <1>3, <2>1, <2>3
  <1>15. Matching(b, v)
    <2>1. ASSUME NEW p \in b.pending, NEW r \in v.requests, p.wire = r.wire
          PROVE  p.op = r.op /\ p.gen = r.gen /\ p.session = r.session
      <3>1. CASE p = e
        BY <1>14, <2>1, <3>1
      <3>2. CASE p \in t.pending
        BY <1>0, <1>8, <1>14, <2>1, <3>2 DEF Matching
      <3> QED BY <1>5, <3>1, <3>2
    <2>2. \A p \in b.pending, m \in Words(b) :
            p.wire = m.wire /\ p.op \notin Opens /\ m.status = "result" => m.session = p.session
      BY <1>0, <1>5, <1>6, <1>9 DEF Matching
    <2>3. \A m \in b.signals, r \in v.requests :
            m.signal = "succeeded" /\ m.wire = r.wire /\ r.op \notin Opens => m.print = r.asked
      BY <1>0, <1>5, <1>9, <1>14 DEF Matching
    <2>4. \A p \in b.pending : p.wire[2] <= IF p.op = "export" THEN 1 ELSE 2
      BY <1>0, <1>5 DEF Matching
    <2> QED BY <2>1, <2>2, <2>3, <2>4 DEF Matching
  <1>16. Timely(b, v)
    <2>1. \A m \in b.signals, r \in v.requests :
            m.signal = "succeeded" /\ m.wire = r.wire => r.gen >= v.least
      BY <1>0, <1>5, <1>9, <1>14 DEF Timely
    <2> QED BY <1>0, <1>4, <1>5, <2>1 DEF Timely
  <1>17. Awaited(b, v)
    <2> SUFFICES ASSUME NEW q \in v.requests, q.phase \in Attended
                 PROVE  \/ \E p \in b.pending : p.wire = q.wire /\ (q.phase = "stalling" => p \notin b.queue)
                        \/ \E m \in b.signals : m.wire = q.wire /\ m.signal \in Endings
      BY DEF Awaited
    <2>1. CASE q = n
      BY <1>5, <2>1
    <2>2. CASE q # n
      BY <1>0, <1>5, <1>14, <2>2 DEF Awaited
    <2> QED BY <2>1, <2>2
  <1>18. Joint(u, v)
    <2>1. Joint(b, v)
      BY <1>10, <1>12, <1>13, <1>15, <1>16 DEF Joint
    <2>2. b.queue \subseteq b.pending
      BY <1>0, <1>5 DEF Sane, Live
    <2>3. Follows(v, v)
      BY SameFollows DEF Numbered
    <2>4. u.least = b.least /\ (u.state = "stopping" => b.state = "stopping")
      BY <1>5 DEF Keeps
    <2>5. \A q \in v.requests :
           q.op \notin Opens /\ q.session # NoSession => <<q.session, q.asked>> \in Known(b, v)
      BY OwnKnown
    <2> QED BY <1>5, <2>1, <2>2, <2>3, <2>4, <2>5, JointOn
  <1>19. Awaited(u, v)
    <2>1. u.queue \subseteq b.queue
      BY <1>5 DEF Sheds
    <2> QED BY <1>5, <1>17, <2>1, AwaitedOn
  <1> QED BY <1>5, <1>18, <1>19 DEF Inductive, Joint

(* A request as Dispatch leaves it, and what it submits for it. *)
Sent(r) == [r EXCEPT !.attempts = @ + 1, !.wire = <<r.id, r.attempts + 1>>, !.phase = "waiting"]
Sending(r) == [wire |-> <<r.id, r.attempts + 1>>, op |-> r.op, gen |-> r.gen,
               session |-> r.session, print |-> r.print]

LEMMA SentDoes ==
  ASSUME NEW r \in Request
  PROVE  /\ Sent(r) \in Request /\ Sent(r).id = r.id /\ Sent(r).op = r.op /\ Sent(r).gen = r.gen
         /\ Sent(r).session = r.session /\ Sent(r).asked = r.asked /\ Sent(r).spent = r.spent
         /\ Sent(r).phase = "waiting" /\ Sent(r).attempts = r.attempts + 1
         /\ Sent(r).wire = <<r.id, r.attempts + 1>>
         /\ Recoverable(Sent(r)) <=> Recoverable(r)
  <1>1. r.id \in Nat /\ r.attempts + 1 \in Nat
    BY DEF Request
  <1>2. <<r.id, r.attempts + 1>> \in Wire /\ "waiting" \in Phases
    BY <1>1 DEF Wire, Phases
  <1> QED BY <1>1, <1>2 DEF Sent, Request, Recoverable

LEMMA SendingDoes ==
  ASSUME NEW r \in Request
  PROVE  /\ Sending(r) \in Envelope /\ Sending(r).wire = <<r.id, r.attempts + 1>>
         /\ Sending(r).op = r.op /\ Sending(r).gen = r.gen /\ Sending(r).session = r.session
  <1>1. r.id \in Nat /\ r.attempts + 1 \in Nat
    BY DEF Request
  <1>2. <<r.id, r.attempts + 1>> \in Wire
    BY <1>1 DEF Wire
  <1>3. r.op \in Operation /\ r.gen \in Nat /\ r.session \in Wire /\ r.print \in Nat
    BY DEF Request, Operation
  <1> QED BY <1>2, <1>3 DEF Sending, Envelope

LEMMA DispatchDoes ==
  ASSUME NEW x \in Worlds, NEW r \in Request, NEW y, y = Dispatch(x, r)
  PROVE  /\ y.t = Submit(x.t, Sending(r))
         /\ y.s \in Service /\ Rest(x.s, y.s) /\ y.s.requests = (x.s.requests \ {r}) \cup {Sent(r)}
  <1> DEFINE v == Change(x.s, r, Sent(r))
             u == Submit(x.t, Sending(r))
  <1>1. y = [x EXCEPT !.s = v, !.t = u]
    BY DEF Dispatch, Sent, Sending, Worlds
  <1>2. x.s \in Service /\ Sent(r) \in Request
    BY SentDoes DEF Worlds
  <1>3. v \in Service /\ Rest(x.s, v) /\ v.requests = (x.s.requests \ {r}) \cup {Sent(r)}
    BY <1>2, ChangeDoes
  <1> HIDE DEF v, u
  <1>4. y.t = u /\ y.s = v
    BY <1>1 DEF Worlds
  <1> QED BY <1>3, <1>4 DEF u

(* A request that was put off is sent again. *)
LEMMA SentAgain ==
  ASSUME NEW t, NEW s, Inductive(t, s), NEW r \in s.requests, r.phase \notin Attended,
         NEW x \in Worlds, x.t = t, x.s = s, NEW y, y = Dispatch(x, r)
  PROVE  Inductive(y.t, y.s) /\ Keeps(t, y.t) /\ y.s.answers = s.answers
  <1> DEFINE n == Sent(r)
             e == Sending(r)
  <1>0. Numbered(s) /\ s \in Service
    BY DEF Inductive, Numbered
  <1>1. r \in Request /\ Regular(s, r) /\ r.id \in Nat /\ r.attempts \in Nat /\ 0 < r.id
    BY <1>0, RequestTyped, PositiveIds DEF Numbered
  <1>2. /\ y.t = Submit(t, e)
        /\ y.s \in Service /\ Rest(s, y.s) /\ y.s.requests = (s.requests \ {r}) \cup {n}
    BY <1>1, DispatchDoes
  <1>3. /\ n \in Request /\ n.id = r.id /\ n.op = r.op /\ n.gen = r.gen
        /\ n.session = r.session /\ n.asked = r.asked /\ n.spent = r.spent
        /\ n.phase = "waiting" /\ n.attempts = r.attempts + 1
        /\ n.wire = <<r.id, r.attempts + 1>>
        /\ Recoverable(n) <=> Recoverable(r)
    BY <1>1, SentDoes
  <1>4. /\ e \in Envelope /\ e.wire = <<r.id, r.attempts + 1>>
        /\ e.op = r.op /\ e.gen = r.gen /\ e.session = r.session
    BY <1>1, SendingDoes
  <1> HIDE DEF n, e
  <1>5. Recoverable(r) /\ r.spent /\ r.attempts <= 1
    BY <1>1 DEF Regular
  <1>6. ~ s.closing
    BY <1>0 DEF Numbered
  <1>7. \A q \in y.s.requests : q = n \/ (q \in s.requests /\ q.id # n.id)
    BY <1>0, <1>2, <1>3 DEF Numbered
  <1>8. Regular(y.s, n)
    <2>1. IF n.op = "reopen" THEN MaxRequests < n.id /\ n.id <= MaxRequests + y.s.reopened
          ELSE 0 < n.id /\ n.id <= y.s.asked
      BY <1>1, <1>2, <1>3 DEF Regular, Rest
    <2>2. n.op \in Opens <=> n.session = NoSession
      BY <1>1, <1>3 DEF Regular
    <2>3. n.attempts <= 2
      BY <1>1, <1>3, <1>5
    <2> QED BY <1>3, <1>5, <2>1, <2>2, <2>3 DEF Regular, Attended
  <1>9. Numbered(y.s)
    <2>1. ASSUME NEW q \in y.s.requests PROVE Regular(y.s, q)
      <3>1. CASE q = n
        BY <1>8, <3>1
      <3>2. CASE q \in s.requests
        <4>1. Regular(s, q) /\ y.s.asked = s.asked /\ y.s.reopened = s.reopened
          BY <1>0, <1>2, <3>2 DEF Numbered, Rest
        <4> QED BY <4>1 DEF Regular
      <3> QED BY <1>7, <3>1, <3>2
    <2>2. \A o, q \in y.s.requests : o.id = q.id => o = q
      BY <1>0, <1>7 DEF Numbered
    <2> QED BY <1>0, <1>2, <1>6, <2>1, <2>2 DEF Numbered, Rest
  <1>10. ASSUME NEW wire, Used(s, wire) PROVE Used(y.s, wire) /\ wire # e.wire
    <2>1. r.id = wire[1] => wire[2] <= r.attempts
      BY <1>10 DEF Used
    <2>2. wire # e.wire
      <3>1. SUFFICES ASSUME wire = e.wire PROVE FALSE
        OBVIOUS
      <3>2. wire[1] = r.id /\ wire[2] = r.attempts + 1
        BY <1>4, <3>1
      <3> QED BY <1>1, <2>1, <3>2
    <2>3. wire[1] <= y.s.asked \/ (MaxRequests < wire[1] /\ wire[1] <= MaxRequests + y.s.reopened)
      BY <1>2, <1>10 DEF Used, Rest
    <2>4. ASSUME NEW q \in y.s.requests, q.id = wire[1] PROVE wire[2] <= q.attempts
      <3>1. CASE q \in s.requests
        BY <1>10, <2>4, <3>1 DEF Used
      <3>2. CASE q = n
        <4>1. wire[1] = r.id /\ wire[2] <= r.attempts
          BY <1>3, <2>1, <2>4, <3>2
        <4>2. n.attempts = r.attempts + 1
          BY <1>3
        <4>3. wire[2] \in Nat
          BY <1>10 DEF Used, Wire
        <4> QED BY <1>1, <3>2, <4>1, <4>2, <4>3
      <3> QED BY <1>7, <3>1, <3>2
    <2>5. wire \in Wire
      BY <1>10 DEF Used
    <2> QED BY <2>2, <2>3, <2>4, <2>5 DEF Used
  <1>11. n.op \notin Opens => <<n.session, n.asked>> \in Known(t, s)
    <2>1. r.op \notin Opens => r.session # NoSession
      BY <1>1 DEF Regular
    <2> QED BY <1>3, <2>1, OwnKnown
  <1>12. e.wire[2] <= IF e.op = "export" THEN 1 ELSE 2
    <2>1. e.wire[2] = r.attempts + 1 /\ r.op # "export"
      BY <1>4, <1>5 DEF Recoverable
    <2> QED BY <1>1, <1>4, <1>5, <2>1
  <1>13. n \in y.s.requests
    BY <1>2
  <1>14. /\ ~ y.s.closing /\ y.s.sessions = s.sessions /\ y.s.aliases = s.aliases
         /\ y.s.least = s.least /\ y.s.answers = s.answers
    BY <1>2, <1>6 DEF Rest
  <1>15. /\ n.wire = e.wire /\ e.wire = <<n.id, n.attempts>>
         /\ e.op = n.op /\ e.gen = n.gen /\ e.session = n.session
    BY <1>3, <1>4
  <1> QED BY <1>2, <1>3, <1>4, <1>6, <1>7, <1>9, <1>10, <1>11, <1>12, <1>13, <1>14, <1>15, SubmitKeeps

(* A request nobody has numbered before. *)
New(s, v, r) ==
  /\ IF r.op = "reopen"
     THEN MaxRequests + s.reopened < r.id /\ r.id <= MaxRequests + v.reopened
     ELSE s.asked < r.id /\ r.id <= v.asked
  /\ s.asked <= v.asked /\ v.asked <= MaxRequests /\ s.reopened <= v.reopened
  /\ r.op \in Opens <=> r.session = NoSession
  /\ r.attempts = 0
  /\ v.sessions = s.sessions /\ v.aliases = s.aliases /\ v.least = s.least
  /\ v.closing = s.closing

LEMMA NewNumbers ==
  ASSUME NEW s, Numbered(s), NEW v \in Service, NEW r \in Request, New(s, v, r)
  PROVE  /\ 0 < r.id /\ \A q \in s.requests : q.id # r.id
         /\ \A wire : Used(s, wire) =>
              wire[1] # r.id
              /\ (wire[1] <= v.asked \/ (MaxRequests < wire[1] /\ wire[1] <= MaxRequests + v.reopened))
         /\ \A q \in s.requests : Regular(v, q)
         /\ IF r.op = "reopen" THEN MaxRequests < r.id /\ r.id <= MaxRequests + v.reopened
            ELSE 0 < r.id /\ r.id <= v.asked
  <1>0. /\ s.asked \in Nat /\ s.reopened \in Nat /\ v.asked \in Nat /\ v.reopened \in Nat
        /\ MaxRequests \in Nat /\ r.id \in Nat /\ s.asked <= MaxRequests
    BY RequestTyped, BoundTyped DEF Numbered, Request
  <1>1. 0 < r.id
    BY <1>0 DEF New
  <1>2. ASSUME NEW q \in s.requests PROVE q.id # r.id /\ Regular(v, q)
    <2>1. Regular(s, q) /\ q.id \in Nat
      BY RequestTyped DEF Numbered
    <2>2. q.id # r.id
      BY <1>0, <2>1 DEF Regular, New
    <2>3. IF q.op = "reopen" THEN MaxRequests < q.id /\ q.id <= MaxRequests + v.reopened
          ELSE 0 < q.id /\ q.id <= v.asked
      BY <1>0, <2>1 DEF Regular, New
    <2> QED BY <2>1, <2>2, <2>3 DEF Regular
  <1>3. ASSUME NEW wire, Used(s, wire)
        PROVE  /\ wire[1] # r.id
               /\ wire[1] <= v.asked \/ (MaxRequests < wire[1] /\ wire[1] <= MaxRequests + v.reopened)
    <2>1. wire[1] \in Nat
      BY <1>3 DEF Used, Wire
    <2>2. wire[1] <= s.asked \/ (MaxRequests < wire[1] /\ wire[1] <= MaxRequests + s.reopened)
      BY <1>3 DEF Used
    <2> QED BY <1>0, <2>1, <2>2 DEF New
  <1>4. IF r.op = "reopen" THEN MaxRequests < r.id /\ r.id <= MaxRequests + v.reopened
        ELSE 0 < r.id /\ r.id <= v.asked
    BY <1>0, <1>1 DEF New
  <1> QED BY <1>1, <1>2, <1>3, <1>4

LEMMA SentFirst ==
  ASSUME NEW t, NEW s, Inductive(t, s), ~ s.closing, NEW x \in Worlds, x.t = t,
         NEW r \in Request, New(s, x.s, r), x.s.requests \ {r} = s.requests \ {r},
         r.op \notin Opens => <<r.session, r.asked>> \in Known(t, s),
         NEW y, y = Dispatch(x, r)
  PROVE  Inductive(y.t, y.s) /\ Keeps(t, y.t) /\ y.s.answers = x.s.answers
  <1> DEFINE n == Sent(r)
             e == Sending(r)
  <1>0. Numbered(s) /\ s \in Service /\ x.s \in Service
    BY DEF Inductive, Numbered, Worlds
  <1>1. /\ 0 < r.id /\ \A q \in s.requests : q.id # r.id
        /\ \A wire : Used(s, wire) =>
             wire[1] # r.id
             /\ (wire[1] <= x.s.asked \/ (MaxRequests < wire[1] /\ wire[1] <= MaxRequests + x.s.reopened))
        /\ \A q \in s.requests : Regular(x.s, q)
        /\ IF r.op = "reopen" THEN MaxRequests < r.id /\ r.id <= MaxRequests + x.s.reopened
           ELSE 0 < r.id /\ r.id <= x.s.asked
    BY <1>0, NewNumbers
  <1>2. /\ y.t = Submit(t, e)
        /\ y.s \in Service /\ Rest(x.s, y.s) /\ y.s.requests = (x.s.requests \ {r}) \cup {n}
    BY DispatchDoes
  <1>3. /\ n \in Request /\ n.id = r.id /\ n.op = r.op /\ n.gen = r.gen
        /\ n.session = r.session /\ n.asked = r.asked /\ n.spent = r.spent
        /\ n.phase = "waiting" /\ n.attempts = r.attempts + 1
        /\ n.wire = <<r.id, r.attempts + 1>>
        /\ Recoverable(n) <=> Recoverable(r)
    BY SentDoes
  <1>4. /\ e \in Envelope /\ e.wire = <<r.id, r.attempts + 1>>
        /\ e.op = r.op /\ e.gen = r.gen /\ e.session = r.session
    BY SendingDoes
  <1>5. r.attempts + 1 = 1
    BY DEF New
  <1> HIDE DEF n, e
  <1>6. y.s.requests = s.requests \cup {n}
    <2>1. r \notin s.requests
      BY <1>1
    <2> QED BY <1>2, <2>1
  <1>7. \A q \in y.s.requests : q = n \/ (q \in s.requests /\ q.id # n.id)
    BY <1>1, <1>3, <1>6
  <1>8. Regular(y.s, n)
    <2>1. IF n.op = "reopen" THEN MaxRequests < n.id /\ n.id <= MaxRequests + y.s.reopened
          ELSE 0 < n.id /\ n.id <= y.s.asked
      BY <1>1, <1>2, <1>3 DEF Rest
    <2>2. n.op \in Opens <=> n.session = NoSession
      BY <1>3 DEF New
    <2>3. n.attempts = 1 /\ n.wire = <<n.id, n.attempts>>
      BY <1>3, <1>5
    <2> QED BY <1>3, <2>1, <2>2, <2>3 DEF Regular, Attended
  <1>9. Numbered(y.s)
    <2>1. ASSUME NEW q \in y.s.requests PROVE Regular(y.s, q)
      <3>1. CASE q = n
        BY <1>8, <3>1
      <3>2. CASE q \in s.requests
        <4>1. Regular(x.s, q) /\ y.s.asked = x.s.asked /\ y.s.reopened = x.s.reopened
          BY <1>1, <1>2, <3>2 DEF Rest
        <4> QED BY <4>1 DEF Regular
      <3> QED BY <1>7, <3>1, <3>2
    <2>2. \A o, q \in y.s.requests : o.id = q.id => o = q
      BY <1>0, <1>7 DEF Numbered
    <2>3. y.s.asked <= MaxRequests /\ ~ y.s.closing
      BY <1>2 DEF Rest, New
    <2> QED BY <1>2, <2>1, <2>2, <2>3 DEF Numbered
  <1>10. ASSUME NEW wire, Used(s, wire) PROVE Used(y.s, wire) /\ wire # e.wire
    <2>1. wire[1] # r.id
      BY <1>1, <1>10
    <2>2. wire # e.wire
      BY <1>4, <2>1
    <2>3. wire[1] <= y.s.asked \/ (MaxRequests < wire[1] /\ wire[1] <= MaxRequests + y.s.reopened)
      BY <1>1, <1>2, <1>10 DEF Rest
    <2>4. ASSUME NEW q \in y.s.requests, q.id = wire[1] PROVE wire[2] <= q.attempts
      <3>1. q \in s.requests
        BY <1>3, <1>7, <2>1, <2>4
      <3> QED BY <1>10, <2>4, <3>1 DEF Used
    <2>5. wire \in Wire
      BY <1>10 DEF Used
    <2> QED BY <2>2, <2>3, <2>4, <2>5 DEF Used
  <1>11. n.op \notin Opens => <<n.session, n.asked>> \in Known(t, s)
    BY <1>3
  <1>12. e.wire[2] <= IF e.op = "export" THEN 1 ELSE 2
    <2>1. e.wire[2] = 1
      BY <1>4, <1>5
    <2> QED BY <2>1
  <1>13. n \in y.s.requests
    BY <1>2
  <1>14. /\ ~ y.s.closing /\ y.s.sessions = s.sessions /\ y.s.aliases = s.aliases
         /\ y.s.least = s.least /\ y.s.answers = x.s.answers
    BY <1>2 DEF Rest, New
  <1>15. /\ n.wire = e.wire /\ e.wire = <<n.id, n.attempts>>
         /\ e.op = n.op /\ e.gen = n.gen /\ e.session = n.session
    BY <1>3, <1>4
  <1> QED BY <1>2, <1>3, <1>4, <1>7, <1>9, <1>10, <1>11, <1>12, <1>13, <1>14, <1>15, SubmitKeeps

(* What every step does. *)
Steady(t, u) == u.process = "starting" /\ t.process # "starting" => ~ t.worker.alive
Fitting(s, v) ==
  \A a \in v.answers \ s.answers :
    \E r \in s.requests : /\ r.id = a.id /\ r.gen >= s.least
                          /\ r.op # "open" => a.print = r.asked
Proceeds(t, s, u, v) == Inductive(u, v) /\ Steady(t, u) /\ Fitting(s, v)

LEMMA KeepsProceeds ==
  ASSUME NEW t, NEW s, NEW u, NEW v, Inductive(u, v), v.answers = s.answers, Keeps(t, u)
  PROVE  Proceeds(t, s, u, v)
  BY DEF Proceeds, Steady, Fitting, Keeps

(* A signal that nobody waits for. *)
LEMMA HearingIgnored ==
  ASSUME NEW t, NEW s, Inductive(t, s), NEW m \in t.signals,
         m.signal \in Endings => \A r \in s.requests : r.wire # m.wire,
         NEW u, u = [t EXCEPT !.signals = @ \ {m}],
         NEW v \in Service, Rest(s, v), v.requests = s.requests
  PROVE  Proceeds(t, s, u, v)
  <1>0. Sane(t) /\ Numbered(s) /\ Joint(t, s) /\ Awaited(t, s)
    BY DEF Inductive, Joint
  <1>1. /\ Sane(u) /\ Sheds(t, u) /\ Keeps(t, u) /\ u.signals = t.signals \ {m}
        /\ u.pending = t.pending /\ u.queue = t.queue
    BY <1>0, HeardSane
  <1>2. Follows(s, v)
    BY <1>0, SameFollows DEF Rest
  <1>3. /\ v.sessions = s.sessions /\ v.aliases = s.aliases /\ v.least = s.least
        /\ v.closing = s.closing /\ v.answers = s.answers
    BY DEF Rest
  <1>4. \A q \in v.requests :
          q.op \notin Opens /\ q.session # NoSession => <<q.session, q.asked>> \in Known(t, s)
    BY OwnKnown
  <1>5. Joint(u, v) /\ Numbered(v)
    <2>1. t.queue \subseteq t.pending /\ u.least = t.least
          /\ (u.state = "stopping" => t.state = "stopping")
      BY <1>0, <1>1 DEF Sane, Live, Keeps
    <2> QED BY <1>0, <1>1, <1>2, <1>3, <1>4, <2>1, JointOn
  <1>6. Awaited(u, v)
    BY <1>0, <1>1 DEF Awaited
  <1> QED BY <1>1, <1>3, <1>5, <1>6, KeepsProceeds DEF Inductive, Joint

(* The result of a request that is over with it.  What the service then knows  *)
(* of sessions was known before.                                               *)
LEMMA ResultKeeps ==
  ASSUME NEW t, NEW s, Inductive(t, s), NEW m \in t.signals, m.signal \in Endings,
         NEW r \in s.requests, r.wire = m.wire,
         NEW u, u = [t EXCEPT !.signals = @ \ {m}],
         NEW v, Follows(s, v), v.least = s.least, v.closing = s.closing,
         \A q \in v.requests : q.phase \in Attended => q \in s.requests \ {r},
         \A q \in v.requests :
           q.op \notin Opens /\ q.session # NoSession => <<q.session, q.asked>> \in Known(t, s),
         \A f \in v.sessions : f[1] # NoSession /\ f \in Known(t, s),
         \A a \in v.aliases :
           /\ (\E b \in s.aliases : a[1] = b[1]) \/ \E f \in Known(t, s) : a[1] = f[1]
           /\ \E known \in v.sessions : known[1] = a[2]
           /\ \A f, g \in Known(t, s) : f[1] = a[1] /\ g[1] = a[2] => f[2] = g[2]
  PROVE  Inductive(u, v) /\ Keeps(t, u)
  <1>0. /\ Sane(t) /\ Numbered(s) /\ Awaited(t, s) /\ Wired(t, s) /\ Named(t, s) /\ Agreed(t, s)
        /\ Matching(t, s) /\ Timely(t, s)
    BY DEF Inductive
  <1>1. /\ Sane(u) /\ Sheds(t, u) /\ Keeps(t, u) /\ u.signals = t.signals \ {m}
        /\ u.pending = t.pending /\ u.queue = t.queue
    BY <1>0, HeardSane
  <1>2. Numbered(v)
    BY <1>0, FollowsNumbered
  <1>3. \A wire : Used(s, wire) => Used(v, wire)
    BY FollowsUsed
  <1>4. Wired(u, v)
    <2>1. t.queue \subseteq t.pending /\ Used(v, NoWire)
      BY <1>0, <1>2, NoWireUsed DEF Sane, Live
    <2> QED BY <1>0, <1>1, <1>3, <2>1, WiredOn
  <1>5. Known(u, v) \subseteq Known(t, s)
    <2>1. \A f \in v.sessions : f[1] # NoSession => f \in Known(t, s)
      OBVIOUS
    <2> QED BY <1>1, <2>1, KnownOn
  <1>6. Named(u, v)
    <2>1. ASSUME NEW a \in v.aliases
          PROVE  /\ Used(v, a[1]) /\ a[1] # NoSession
                 /\ \A e \in t.worker.working \cup t.queue : e.wire # a[1]
      <3>1. CASE \E b \in s.aliases : a[1] = b[1]
        BY <1>0, <1>3, <3>1 DEF Named
      <3>2. CASE \E f \in Known(t, s) : a[1] = f[1]
        <4>1. \A f \in Known(t, s) : f[1] # NoSession
          BY DEF Known
        <4> QED BY <1>0, <1>3, <3>2, <4>1 DEF Named
      <3> QED BY <3>1, <3>2
    <2>2. \A known \in v.sessions : known[1] # NoSession
      OBVIOUS
    <2> QED BY <1>0, <1>1, <1>3, <1>5, <2>1, <2>2, NamedOn
  <1>7. Agreed(u, v)
    <2>1. \A a \in v.aliases :
           /\ \E known \in v.sessions : known[1] = a[2]
           /\ \A f, g \in Known(t, s) : f[1] = a[1] /\ g[1] = a[2] => f[2] = g[2]
      OBVIOUS
    <2> QED BY <1>0, <1>5, <2>1, AgreedOn
  <1>8. Matching(u, v) /\ Timely(u, v)
    <2>1. u.least = t.least /\ (u.state = "stopping" => t.state = "stopping")
      BY <1>1 DEF Keeps
    <2>2. Matching(u, v)
      BY <1>0, <1>1, MatchingOn
    <2>3. Timely(u, v)
      <3>1. /\ u.state = "stopping" => t.state = "stopping" \/ v.closing
            /\ s.closing => v.closing
            /\ u.least = t.least
        BY <2>1
      <3>2. Wired(t, s) /\ Timely(t, s) /\ Sheds(t, u)
        BY <1>0, <1>1
      <3> QED BY <3>1, <3>2, TimelyOn
    <2> QED BY <2>2, <2>3
  <1>9. Awaited(u, v)
    <2> SUFFICES ASSUME NEW q \in v.requests, q.phase \in Attended
                 PROVE  \/ \E p \in u.pending : p.wire = q.wire /\ (q.phase = "stalling" => p \notin u.queue)
                        \/ \E n \in u.signals : n.wire = q.wire /\ n.signal \in Endings
      BY DEF Awaited
    <2>1. q \in s.requests /\ q # r
      OBVIOUS
    <2>2. q.wire # m.wire
      BY <1>0, <2>1, OnlyAddressee
    <2> QED BY <1>0, <1>1, <2>1, <2>2 DEF Awaited
  <1> QED BY <1>1, <1>2, <1>4, <1>6, <1>7, <1>8, <1>9 DEF Inductive

(* Worlds are put together from their two parts. *)
LEMMA WorldTyped ==
  ASSUME NEW t \in Transport, NEW s \in Service
  PROVE  [t |-> t, s |-> s] \in Worlds
  BY DEF Worlds

LEMMA HearsTyped ==
  ASSUME IInv, NEW m \in transport.signals
  PROVE  /\ World \in Worlds /\ World.t = transport /\ World.s = service
         /\ Hears(m) \in Worlds /\ Hears(m).s = service
         /\ Hears(m).t = [transport EXCEPT !.signals = @ \ {m}]
  <1>1. transport \in Transport /\ service \in Service
    BY DEF IInv, Inductive, Sane, Numbered
  <1>2. World \in Worlds /\ World.t = transport /\ World.s = service
    BY <1>1 DEF World, Worlds
  <1> DEFINE u == [transport EXCEPT !.signals = @ \ {m}]
  <1>3. u \in Transport
    BY <1>1 DEF Transport
  <1> HIDE DEF u
  <1>4. Hears(m) = [World EXCEPT !.t = u]
    BY <1>2 DEF Hears, Worlds, u
  <1>5. Hears(m) \in Worlds /\ Hears(m).s = service /\ Hears(m).t = u
    BY <1>2, <1>3, <1>4 DEF Worlds
  <1> QED BY <1>2, <1>5 DEF u

(* The session is the reopened one: its requests go on with the new one. *)
Goes(q, session, print) == [q EXCEPT !.session = session, !.print = print, !.phase = "resuming"]

LEMMA GoesDoes ==
  ASSUME NEW q \in Request, NEW session \in Wire, NEW print \in Nat
  PROVE  /\ Goes(q, session, print) \in Request
         /\ Goes(q, session, print).id = q.id /\ Goes(q, session, print).op = q.op
         /\ Goes(q, session, print).gen = q.gen /\ Goes(q, session, print).attempts = q.attempts
         /\ Goes(q, session, print).asked = q.asked /\ Goes(q, session, print).wire = q.wire
         /\ Goes(q, session, print).spent = q.spent
         /\ Goes(q, session, print).session = session
         /\ Goes(q, session, print).phase = "resuming"
         /\ Recoverable(Goes(q, session, print)) <=> Recoverable(q)
  <1>1. "resuming" \in Phases
    BY DEF Phases
  <1> QED BY <1>1 DEF Goes, Request, Recoverable

LEMMA ReopenDoes ==
  ASSUME NEW s \in Service, NEW r, NEW session \in Wire, NEW print \in Nat, r.reopens \in Wire,
         SameArchives(s, r.reopens, print), NEW v, v = CompleteReopen(s, r, session, print)
  PROVE  /\ v \in Service
         /\ v.requests = ((s.requests \ {r}) \ {q \in s.requests \ {r} : q.phase = "recovering" /\ q.session = r.reopens})
                \cup {Goes(q, session, print) :
                        q \in {q \in s.requests \ {r} : q.phase = "recovering" /\ q.session = r.reopens}}
         /\ v.sessions = {known \in s.sessions : known[1] # r.reopens} \cup {<<session, print>>}
         /\ v.aliases = {<<a[1], IF a[2] = r.reopens THEN session ELSE a[2]>> : a \in s.aliases}
                          \cup {<<r.reopens, session>>}
         /\ v.least = s.least /\ v.closing = s.closing /\ v.asked = s.asked
         /\ v.reopened = s.reopened /\ v.answers = s.answers
  <1> DEFINE old == r.reopens
             left == {o \in s.opens : o.id # r.id}
             u == [Leaves(s, r) EXCEPT !.opens = left, !.waiting = @ \ {old}]
             back == {q \in s.requests \ {r} : q.phase = "recovering" /\ q.session = old}
             resumed == {Goes(q, session, print) : q \in back}
             known2 == {known \in s.sessions : known[1] # old} \cup {<<session, print>>}
             aliases2 == {<<a[1], IF a[2] = old THEN session ELSE a[2]>> : a \in s.aliases}
                           \cup {<<old, session>>}
  <1>1. /\ Leaves(s, r) \in Service /\ Leaves(s, r).requests = s.requests \ {r}
        /\ Leaves(s, r).opens = s.opens /\ Rest(s, Leaves(s, r))
    <2>1. Leaves(s, r) \in Service /\ Leaves(s, r).requests = s.requests \ {r} /\ Rest(s, Leaves(s, r))
      BY LeavesDoes
    <2> QED BY <2>1 DEF Leaves, Service
  <1>2. left \in SUBSET [id : Nat, session : Wire]
    BY DEF Service
  <1> HIDE DEF left
  <1>3. /\ u \in Service /\ u.requests = s.requests \ {r} /\ Rest(s, u)
    BY <1>1, <1>2 DEF Service, Rest
  <1>4. v = [u EXCEPT !.sessions = {known \in @ : known[1] # old} \cup {<<session, print>>},
                      !.aliases = {<<a[1], IF a[2] = old THEN session ELSE a[2]>> : a \in @}
                                    \cup {<<old, session>>},
                      !.invalid = @ \ {old},
                      !.requests = (@ \ Recovering(u, old))
                                     \cup {Goes(q, session, print) : q \in Recovering(u, old)}]
    BY <1>1 DEF CompleteReopen, Goes, left
  <1> HIDE DEF u
  <1>5. Recovering(u, old) = back
    BY <1>3 DEF Recovering
  <1>6. v = [u EXCEPT !.sessions = known2, !.aliases = aliases2, !.invalid = @ \ {old},
                      !.requests = (@ \ back) \cup resumed]
    BY <1>3, <1>4, <1>5 DEF Service, Rest
  <1>7. known2 \in SUBSET (Wire \X Nat)
    BY DEF Service
  <1>8. aliases2 \in SUBSET (Wire \X Wire)
    <2>1. \A a \in s.aliases : a \in Wire \X Wire
      BY DEF Service
    <2>2. \A a \in s.aliases : <<a[1], IF a[2] = old THEN session ELSE a[2]>> \in Wire \X Wire
      BY <2>1
    <2> QED BY <2>2
  <1>9. resumed \in SUBSET Request /\ (s.requests \ {r}) \ back \in SUBSET Request
    <2>1. \A q \in back : q \in Request
      BY RequestTyped
    <2>2. \A q \in back : Goes(q, session, print) \in Request
      BY <2>1, GoesDoes
    <2> QED BY <2>2, RequestTyped
  <1> HIDE DEF known2, aliases2, back, resumed
  <1>10. v \in Service
    <2>1. (u.requests \ back) \cup resumed \in SUBSET Request
      BY <1>3, <1>9
    <2>2. u \in Service /\ u.invalid \ {old} \in SUBSET Wire
      BY <1>3 DEF Service
    <2>3. v = [u EXCEPT !.sessions = known2, !.aliases = aliases2, !.invalid = u.invalid \ {old},
                        !.requests = (u.requests \ back) \cup resumed]
      BY <1>6, <2>2 DEF Service
    <2> DEFINE a == (u.requests \ back) \cup resumed
               b == u.invalid \ {old}
    <2> HIDE DEF a, b
    <2>4. v = [u EXCEPT !.sessions = known2, !.aliases = aliases2, !.invalid = b, !.requests = a]
      BY <2>3 DEF a, b
    <2>5. a \in SUBSET Request /\ b \in SUBSET Wire
      BY <2>1, <2>2 DEF a, b
    <2> QED BY <1>7, <1>8, <2>2, <2>4, <2>5 DEF Service
  <1>11. /\ v.requests = ((s.requests \ {r}) \ back) \cup resumed
         /\ v.sessions = known2 /\ v.aliases = aliases2
         /\ v.least = s.least /\ v.closing = s.closing /\ v.asked = s.asked
         /\ v.reopened = s.reopened /\ v.answers = s.answers
    BY <1>3, <1>6 DEF Service, Rest
  <1> QED BY <1>10, <1>11 DEF known2, aliases2, back, resumed

LEMMA ReopenedKeeps ==
  ASSUME NEW t, NEW s, Inductive(t, s), NEW m \in t.signals, m.signal = "succeeded",
         NEW r \in s.requests, r.wire = m.wire,
         SameArchives(s, r.reopens, m.print),
         NEW v, v = CompleteReopen(s, r, m.session, m.print),
         NEW u, u = [t EXCEPT !.signals = @ \ {m}]
  PROVE  Proceeds(t, s, u, v)
  <1> DEFINE old == r.reopens
             session == m.session
             print == m.print
             back == {q \in s.requests \ {r} : q.phase = "recovering" /\ q.session = old}
  <1>0. /\ Sane(t) /\ Numbered(s) /\ Awaited(t, s) /\ Wired(t, s) /\ Named(t, s) /\ Agreed(t, s)
        /\ s \in Service /\ t \in Transport
    BY DEF Inductive, Sane, Numbered
  <1>1. old \in Wire /\ session \in Wire /\ print \in Nat
    <2>1. \A q \in Request : q.reopens \in Wire
      BY DEF Request
    <2> QED BY <1>0, <2>1, RequestTyped, PendingTyped
  <1>2. session # NoSession
    <2>1. m \in Results(t)
      BY DEF Results
    <2>2. m.wire[1] > 0 /\ NoWire[1] = 0
      BY <1>0 DEF Wired, Endings, NoWire
    <2> QED BY <1>0, <2>1, <2>2 DEF Named
  <1>3. <<session, print>> \in Known(t, s)
    BY <1>2, KnownFrom
  <1>4. <<old, print>> \in s.sessions /\ old # NoSession
    BY <1>0 DEF SameArchives, Named
  <1>5. <<old, print>> \in Known(t, s)
    BY <1>4, KnownFrom
  <1>6. /\ v \in Service
        /\ v.requests = ((s.requests \ {r}) \ back) \cup {Goes(q, session, print) : q \in back}
        /\ v.sessions = {known \in s.sessions : known[1] # old} \cup {<<session, print>>}
        /\ v.aliases = {<<a[1], IF a[2] = old THEN session ELSE a[2]>> : a \in s.aliases}
                          \cup {<<old, session>>}
        /\ v.least = s.least /\ v.closing = s.closing /\ v.asked = s.asked
        /\ v.reopened = s.reopened /\ v.answers = s.answers
    BY <1>0, <1>1, ReopenDoes
  <1>7. ASSUME NEW q \in back
        PROVE  /\ q \in s.requests /\ q # r /\ Goes(q, session, print).id = q.id
               /\ Continues(q, Goes(q, session, print))
               /\ Goes(q, session, print).phase \notin Attended
               /\ Goes(q, session, print).session = session
               /\ Goes(q, session, print).asked = q.asked
               /\ q.asked = print
    <2>1. q \in s.requests /\ q # r /\ q \in Request /\ Regular(s, q) /\ q.session = old
          /\ q.phase = "recovering"
      BY <1>0, RequestTyped DEF Numbered
    <2>2. /\ Goes(q, session, print).id = q.id /\ Goes(q, session, print).op = q.op
          /\ Goes(q, session, print).gen = q.gen /\ Goes(q, session, print).attempts = q.attempts
          /\ Goes(q, session, print).asked = q.asked /\ Goes(q, session, print).wire = q.wire
          /\ Goes(q, session, print).spent = q.spent
          /\ Goes(q, session, print).session = session
          /\ Goes(q, session, print).phase = "resuming"
          /\ Recoverable(Goes(q, session, print)) <=> Recoverable(q)
      BY <1>1, <2>1, GoesDoes
    <2>3. q.wire = NoWire /\ q.attempts <= 1 /\ Recoverable(q) /\ q.spent
      BY <2>1 DEF Regular, Attended
    <2>4. q.op \notin Opens
      BY <1>4, <2>1 DEF Regular
    <2>5. <<q.session, q.asked>> \in Known(t, s)
      BY <1>4, <2>1, <2>4, OwnKnown
    <2>6. q.asked = print
      BY <1>0, <1>5, <2>1, <2>5 DEF Agreed
    <2>7. Goes(q, session, print).phase \notin Attended
      BY <2>2 DEF Attended
    <2>8. Continues(q, Goes(q, session, print))
      BY <1>2, <1>4, <2>1, <2>2, <2>3, <2>7 DEF Continues
    <2> QED BY <2>1, <2>2, <2>6, <2>7, <2>8
  <1> HIDE DEF back
  <1>8. ASSUME NEW q \in v.requests
        PROVE  \/ q \in s.requests \ {r} /\ q \notin back
               \/ \E o \in back : q = Goes(o, session, print)
    BY <1>6
  <1>9. Follows(s, v)
    <2>1. ASSUME NEW q \in v.requests PROVE \E o \in s.requests : Continues(o, q)
      <3>1. CASE q \in s.requests
        <4>1. Continues(q, q)
          BY DEF Continues
        <4> QED BY <3>1, <4>1
      <3>2. CASE \E o \in back : q = Goes(o, session, print)
        BY <1>7, <3>2
      <3> QED BY <1>8, <3>1, <3>2
    <2>2. ASSUME NEW o, NEW q, o \in v.requests, q \in v.requests, o.id = q.id PROVE o = q
      <3>1. \A a, b \in s.requests : a.id = b.id => a = b
        BY <1>0 DEF Numbered
      <3>2. CASE o \in s.requests /\ o \notin back /\ q \in s.requests
        BY <2>2, <3>1, <3>2
      <3>3. CASE q \in s.requests /\ q \notin back /\ \E a \in back : o = Goes(a, session, print)
        BY <1>7, <2>2, <3>1, <3>3
      <3>4. CASE o \in s.requests /\ o \notin back /\ \E a \in back : q = Goes(a, session, print)
        BY <1>7, <2>2, <3>1, <3>4
      <3>5. CASE /\ \E a \in back : q = Goes(a, session, print)
                 /\ \E a \in back : o = Goes(a, session, print)
        BY <1>7, <2>2, <3>1, <3>5
      <3> QED BY <1>8, <2>2, <3>2, <3>3, <3>4, <3>5
    <2>3. ~ v.closing
      BY <1>0, <1>6 DEF Numbered
    <2> QED BY <1>6, <2>1, <2>2, <2>3 DEF Follows
  <1>10. \A q \in v.requests : q.phase \in Attended => q \in s.requests \ {r}
    BY <1>7, <1>8
  <1>11. ASSUME NEW q \in v.requests, q.op \notin Opens, q.session # NoSession
         PROVE  <<q.session, q.asked>> \in Known(t, s)
    <2>1. CASE q \in s.requests
      BY <1>11, <2>1, OwnKnown
    <2>2. CASE \E o \in back : q = Goes(o, session, print)
      <3>1. q.session = session /\ q.asked = print
        BY <1>7, <2>2
      <3> QED BY <1>3, <3>1
    <2> QED BY <1>8, <2>1, <2>2
  <1>12. ASSUME NEW f \in v.sessions PROVE f[1] # NoSession /\ f \in Known(t, s)
    <2>1. CASE f \in s.sessions
      <3>1. f[1] # NoSession
        BY <1>0, <2>1 DEF Named
      <3> QED BY <2>1, <3>1, KnownFrom
    <2>2. CASE f = <<session, print>>
      BY <1>2, <1>3, <2>2
    <2> QED BY <1>6, <2>1, <2>2
  <1>13. ASSUME NEW a \in v.aliases
         PROVE  /\ (\E b \in s.aliases : a[1] = b[1]) \/ \E f \in Known(t, s) : a[1] = f[1]
                /\ \E known \in v.sessions : known[1] = a[2]
                /\ \A f, g \in Known(t, s) : f[1] = a[1] /\ g[1] = a[2] => f[2] = g[2]
    <2>1. \A g \in Known(t, s) : g[1] = session => g[2] = print
      BY <1>0, <1>3 DEF Agreed
    <2>2. <<session, print>> \in v.sessions /\ <<session, print>>[1] = session
      BY <1>6
    <2>3. CASE a = <<old, session>>
      <3>1. a[1] = old /\ a[2] = session
        BY <2>3
      <3>2. \A f \in Known(t, s) : f[1] = old => f[2] = print
        BY <1>0, <1>5 DEF Agreed
      <3>3. <<old, print>>[1] = old
        OBVIOUS
      <3> QED BY <1>5, <2>1, <2>2, <3>1, <3>2, <3>3
    <2>4. CASE \E b \in s.aliases : a = <<b[1], IF b[2] = old THEN session ELSE b[2]>>
      <3>1. PICK b \in s.aliases : a = <<b[1], IF b[2] = old THEN session ELSE b[2]>>
        BY <2>4
      <3>2. a[1] = b[1] /\ a[2] = IF b[2] = old THEN session ELSE b[2]
        BY <3>1
      <3>3. CASE b[2] = old
        <4>1. \A f \in Known(t, s) : f[1] = b[1] => f[2] = print
          BY <1>0, <1>5, <3>3 DEF Agreed
        <4> QED BY <2>1, <2>2, <3>2, <3>3, <4>1
      <3>4. CASE b[2] # old
        <4>1. \E known \in s.sessions : known[1] = b[2]
          BY <1>0 DEF Agreed
        <4>2. \E known \in v.sessions : known[1] = b[2]
          BY <1>6, <3>4, <4>1
        <4>3. \A f, g \in Known(t, s) : f[1] = b[1] /\ g[1] = b[2] => f[2] = g[2]
          BY <1>0 DEF Agreed
        <4> QED BY <3>2, <3>4, <4>2, <4>3
      <3> QED BY <3>3, <3>4
    <2> QED BY <1>6, <2>3, <2>4
  <1>14. m.signal \in Endings
    BY DEF Endings
  <1>15. Inductive(u, v) /\ Keeps(t, u)
    BY <1>6, <1>9, <1>10, <1>11, <1>12, <1>13, <1>14, ResultKeeps
  <1> QED BY <1>6, <1>15, KeepsProceeds

LEMMA AnswerKeeps ==
  ASSUME NEW t, NEW s, Inductive(t, s), NEW m \in t.signals, m.signal = "succeeded",
         NEW r \in s.requests, r.wire = m.wire, r.op # "reopen",
         NEW v, v = Settled(s, r, m.session, m.print),
         NEW u, u = [t EXCEPT !.signals = @ \ {m}]
  PROVE  Proceeds(t, s, u, v)
  <1> DEFINE w == Leaves(s, r)
             f == <<m.session, m.print>>
             known2 == IF r.op = "open" THEN s.sessions \cup {f} ELSE s.sessions
             a == [id |-> r.id, print |-> m.print]
  <1>0. /\ Sane(t) /\ Numbered(s) /\ Wired(t, s) /\ Named(t, s) /\ Agreed(t, s)
        /\ Matching(t, s) /\ Timely(t, s) /\ s \in Service /\ t \in Transport
    BY DEF Inductive, Sane, Numbered
  <1>1. m.session \in Wire /\ m.print \in Nat /\ r \in Request /\ r.id \in Nat
    BY <1>0, RequestTyped, PendingTyped
  <1>2. m.session # NoSession
    <2>1. m \in Results(t)
      BY DEF Results
    <2>2. m.wire[1] > 0 /\ NoWire[1] = 0
      BY <1>0 DEF Wired, Endings, NoWire
    <2> QED BY <1>0, <2>1, <2>2 DEF Named
  <1>3. f \in Known(t, s)
    BY <1>2, KnownFrom
  <1>4. w \in Service /\ Rest(s, w) /\ w.requests = s.requests \ {r}
    BY <1>0, LeavesDoes
  <1>5. known2 \in SUBSET (Wire \X Nat)
    BY <1>0, <1>1 DEF Service
  <1>6. a \in [id : Nat, print : Nat] /\ a.id = r.id /\ a.print = m.print
    BY <1>1
  <1>7. f[1] = m.session
    OBVIOUS
  <1>8. v = [w EXCEPT !.sessions = known2, !.answers = @ \cup {a}]
    BY <1>4 DEF Rest, Service, Settled
  <1>9. \A known \in known2 : known \in s.sessions \/ known = f
    OBVIOUS
  <1>17. s.sessions \subseteq known2
    OBVIOUS
  <1> HIDE DEF w, f, known2, a
  <1>10. v \in Service
    <2>1. w.answers \cup {a} \in SUBSET [id : Nat, print : Nat]
      BY <1>4, <1>6 DEF Service
    <2> QED BY <1>4, <1>5, <1>8, <2>1 DEF Service
  <1>11. /\ v.requests = s.requests \ {r} /\ v.sessions = known2 /\ v.aliases = s.aliases
         /\ v.least = s.least /\ v.closing = s.closing /\ v.asked = s.asked
         /\ v.reopened = s.reopened /\ v.answers = s.answers \cup {a}
    BY <1>4, <1>8 DEF Service, Rest
  <1>12. Follows(s, v)
    <2>1. v.closing => v.requests = {} \/ s.closing
      BY <1>11
    <2> QED BY <1>0, <1>10, <1>11, <2>1, SameFollows
  <1>13. ASSUME NEW q \in v.requests, q.op \notin Opens, q.session # NoSession
         PROVE  <<q.session, q.asked>> \in Known(t, s)
    BY <1>11, <1>13, OwnKnown
  <1>14. ASSUME NEW g \in v.sessions PROVE g[1] # NoSession /\ g \in Known(t, s)
    <2>1. CASE g \in s.sessions
      <3>1. g[1] # NoSession
        BY <1>0, <2>1 DEF Named
      <3> QED BY <2>1, <3>1, KnownFrom
    <2>2. CASE g = f
      BY <1>2, <1>3, <1>7, <2>2
    <2> QED BY <1>9, <1>11, <2>1, <2>2
  <1>15. ASSUME NEW b \in v.aliases
         PROVE  /\ (\E c \in s.aliases : b[1] = c[1]) \/ \E g \in Known(t, s) : b[1] = g[1]
                /\ \E known \in v.sessions : known[1] = b[2]
                /\ \A g, h \in Known(t, s) : g[1] = b[1] /\ h[1] = b[2] => g[2] = h[2]
    <2>1. b \in s.aliases
      BY <1>11
    <2> QED BY <1>0, <1>11, <1>17, <2>1 DEF Agreed
  <1>16. Inductive(u, v) /\ Keeps(t, u)
    <2>1. m.signal \in Endings
      BY DEF Endings
    <2>2. \A q \in v.requests : q.phase \in Attended => q \in s.requests \ {r}
      BY <1>11
    <2>3. /\ Follows(s, v) /\ v.least = s.least /\ v.closing = s.closing
          /\ \A g \in v.sessions : g[1] # NoSession /\ g \in Known(t, s)
      BY <1>11, <1>12, <1>14
    <2>4. \A q \in v.requests :
            q.op \notin Opens /\ q.session # NoSession => <<q.session, q.asked>> \in Known(t, s)
      BY <1>13
    <2>5. \A b \in v.aliases :
            /\ (\E c \in s.aliases : b[1] = c[1]) \/ \E g \in Known(t, s) : b[1] = g[1]
            /\ \E known \in v.sessions : known[1] = b[2]
            /\ \A g, h \in Known(t, s) : g[1] = b[1] /\ h[1] = b[2] => g[2] = h[2]
      BY <1>15
    <2> QED BY ONLY Inductive(t, s), m \in t.signals, r \in s.requests, r.wire = m.wire,
                    u = [t EXCEPT !.signals = @ \ {m}], <2>1, <2>2, <2>3, <2>4, <2>5, ResultKeeps
  <1>18. Fitting(s, v)
    <2>1. r.gen >= s.least
      BY <1>0 DEF Timely
    <2>2. r.op # "open" => m.print = r.asked
      BY <1>0 DEF Matching, Opens
    <2> QED BY <1>6, <1>11, <2>1, <2>2 DEF Fitting
  <1> QED BY <1>16, <1>18 DEF Proceeds, Steady, Keeps

LEMMA ResultProceeds ==
  ASSUME NEW t, NEW s, Inductive(t, s), NEW m \in t.signals, m.signal = "succeeded",
         NEW r \in s.requests, r.wire = m.wire,
         NEW x \in Worlds, x.t = [t EXCEPT !.signals = @ \ {m}], x.s = s,
         NEW y, y = HandleResult(x, r, m.session, m.print)
  PROVE  Proceeds(t, s, y.t, y.s)
  <1>0. m.signal \in Endings
    BY DEF Endings
  <1>1. CASE r.phase = "stalling"
    <2>1. y = HandleFailure(x, r, "request_stalled")
      BY <1>1 DEF HandleResult
    <2>2. Aftermath(x, r, y)
      BY <2>1, FailureDoes
    <2> QED BY <1>0, <2>2, HearingKeeps, KeepsProceeds
  <1>2. CASE r.phase # "stalling" /\ r.op = "reopen"
    <2> DEFINE v == CompleteReopen(x.s, r, m.session, m.print)
    <2>1. y = [x EXCEPT !.s = v]
      BY <1>2 DEF HandleResult, Worlds
    <2> HIDE DEF v
    <2>2. y.t = x.t /\ y.s = v
      BY <2>1 DEF Worlds
    <2>3. CASE SameArchives(s, r.reopens, m.print)
      BY <2>2, <2>3, ReopenedKeeps DEF v
    <2>4. CASE ~ SameArchives(s, r.reopens, m.print)
      <3> DEFINE left == {o \in s.opens : o.id # r.id}
                 w == [Leaves(s, r) EXCEPT !.opens = left, !.waiting = @ \ {r.reopens}]
      <3>0. s \in Service
        BY DEF Worlds
      <3>1. /\ Leaves(s, r) \in Service /\ Rest(s, Leaves(s, r)) /\ Leaves(s, r).requests = s.requests \ {r}
        BY <3>0, LeavesDoes
      <3>2. left \in SUBSET [id : Nat, session : Wire] /\ Leaves(s, r).opens = s.opens
        BY <3>0 DEF Service, Leaves
      <3>3. v = FailRecoverySession(w, r.reopens)
        BY <2>4, <3>1, <3>2 DEF v, CompleteReopen
      <3> HIDE DEF left
      <3>4. w \in Service /\ Rest(s, w) /\ w.requests = s.requests \ {r}
        BY <3>1, <3>2 DEF Service, Rest
      <3> HIDE DEF w
      <3>5. v \in Service /\ Rest(w, v) /\ v.requests \subseteq w.requests
        BY <3>3, <3>4, FailRecoveryDoes
      <3>6. Aftermath(x, r, y)
        BY <2>2, <3>4, <3>5 DEF Aftermath, Rest
      <3> QED BY <1>0, <3>6, HearingKeeps, KeepsProceeds
    <2> QED BY <2>3, <2>4
  <1>3. CASE r.phase # "stalling" /\ r.op # "reopen"
    <2>1. y = [x EXCEPT !.s = Settled(s, r, m.session, m.print)]
      BY <1>3 DEF HandleResult
    <2>2. y.t = x.t /\ y.s = Settled(s, r, m.session, m.print)
      BY <2>1 DEF Worlds
    <2> QED BY <1>3, <2>2, AnswerKeeps
  <1> QED BY <1>1, <1>2, <1>3

LEMMA HearProceeds ==
  ASSUME IInv, Hear
  PROVE  Proceeds(transport, service, transport', service')
  <1> DEFINE t == transport
             s == service
  <1>0. Inductive(t, s) /\ s \in Service /\ Numbered(s) /\ Wired(t, s)
    BY DEF IInv, Inductive, Numbered
  <1>1. PICK m \in t.signals : HearEnding(m) \/ HearCrashed(m) \/ HearReady(m)
    BY DEF Hear
  <1> DEFINE x == Hears(m)
  <1>2. x \in Worlds /\ x.s = s /\ x.t = [t EXCEPT !.signals = @ \ {m}]
    BY HearsTyped
  <1> HIDE DEF x
  <1>3. CASE HearEnding(m) /\ Addressees(m) = {}
    <2>1. Becomes(x)
      <3>1. (Addressees(m) = {} /\ Becomes(Hears(m))) \/ \E r \in Addressees(m) : Becomes(Handled(m, r))
        BY <1>3 DEF HearEnding
      <3> QED BY <1>3, <3>1 DEF x
    <2>2. \A r \in s.requests : r.wire # m.wire
      <3>1. s.closing => s.requests = {}
        BY <1>0 DEF Numbered
      <3> QED BY <1>3, <3>1 DEF Addressees
    <2>3. t' = [t EXCEPT !.signals = @ \ {m}] /\ s' = s
      BY <1>2, <2>1 DEF Becomes
    <2>4. Rest(s, s') /\ s'.requests = s.requests /\ s' \in Service
      BY <1>0, <2>3 DEF Rest
    <2> QED BY <1>0, <2>2, <2>3, <2>4, HearingIgnored
  <1>4. ASSUME NEW r \in Addressees(m), HearEnding(m), Becomes(Handled(m, r))
        PROVE  Proceeds(t, s, t', s')
    <2> DEFINE y == Handled(m, r)
    <2>1. t' = y.t /\ s' = y.s
      BY <1>4 DEF Becomes
    <2>2. r \in s.requests /\ r.wire = m.wire
      BY DEF Addressees
    <2>3. CASE m.signal = "failed"
      <3>1. y = HandleFailure(x, r, m.code)
        BY <2>3 DEF Handled, x
      <3> HIDE DEF y
      <3>2. Aftermath(x, r, y) /\ m.signal \in Endings
        BY <1>2, <2>2, <2>3, <3>1, FailureDoes DEF Endings
      <3> QED BY <1>0, <1>2, <2>1, <2>2, <3>2, HearingKeeps, KeepsProceeds
    <2>4. CASE m.signal = "cancelled"
      <3>1. y = HandleCancelled(x, r)
        BY <2>4 DEF Handled, x
      <3> HIDE DEF y
      <3>2. Aftermath(x, r, y) /\ m.signal \in Endings
        BY <1>2, <2>2, <2>4, <3>1, CancelledDoes DEF Endings
      <3> QED BY <1>0, <1>2, <2>1, <2>2, <3>2, HearingKeeps, KeepsProceeds
    <2>5. CASE m.signal = "succeeded"
      <3>1. y = HandleResult(x, r, m.session, m.print)
        BY <2>5 DEF Handled, x
      <3> HIDE DEF y
      <3> QED BY <1>0, <1>2, <2>1, <2>2, <2>5, <3>1, ResultProceeds
    <2> QED BY <1>4, <2>3, <2>4, <2>5 DEF HearEnding
  <1>5. CASE HearCrashed(m)
    <2> DEFINE gone == s.invalid \cup {known[1] : known \in s.sessions}
    <2>1. gone \in SUBSET Wire
      <3>1. \A known \in s.sessions : known \in Wire \X Nat
        BY <1>0 DEF Service
      <3>2. \A known \in s.sessions : known[1] \in Wire
        BY <3>1
      <3> QED BY <1>0, <3>2 DEF Service
    <2>2. Becomes([x EXCEPT !.s.invalid = @ \cup {known[1] : known \in s.sessions}])
      BY <1>5 DEF HearCrashed, x
    <2>3. s' = [s EXCEPT !.invalid = gone] /\ t' = x.t
      BY <1>0, <1>2, <2>2 DEF Becomes, Worlds, Service
    <2> HIDE DEF gone
    <2>4. Rest(s, s') /\ s'.requests = s.requests /\ s' \in Service
      BY <1>0, <2>1, <2>3 DEF Rest, Service
    <2>5. m.signal \notin Endings
      BY <1>5 DEF HearCrashed, Endings
    <2> QED BY <1>0, <1>2, <2>3, <2>4, <2>5, HearingIgnored
  <1>6. CASE HearReady(m)
    <2> DEFINE due == s.waiting \ {o.session : o \in s.opens}
    <2>1. due \in SUBSET Wire
      BY <1>0 DEF Service
    <2>2. Becomes([x EXCEPT !.s = ReopenSessions(@)])
      BY <1>6 DEF HearReady, x
    <2>3. s' = [s EXCEPT !.due = due] /\ t' = x.t
      BY <1>0, <1>2, <2>2 DEF Becomes, Worlds, Service, ReopenSessions
    <2> HIDE DEF due
    <2>4. Rest(s, s') /\ s'.requests = s.requests /\ s' \in Service
      BY <1>0, <2>1, <2>3 DEF Rest, Service
    <2>5. m.signal \notin Endings
      BY <1>6 DEF HearReady, Endings
    <2> QED BY <1>0, <1>2, <2>3, <2>4, <2>5, HearingIgnored
  <1> QED BY <1>1, <1>3, <1>4, <1>5, <1>6 DEF HearEnding

(* The service loses requests, or none, and the client does nothing. *)
LEMMA ServiceAlone ==
  ASSUME NEW t, NEW s, Inductive(t, s), NEW v \in Service, Rest(s, v), v.requests \subseteq s.requests
  PROVE  Proceeds(t, s, t, v)
  <1>1. Sane(t) /\ Sheds(t, t) /\ Tells(t, t) /\ Keeps(t, t)
    <2>1. Sane(t) /\ t \in Transport
      BY DEF Inductive, Sane
    <2> QED BY <2>1, ServesItself DEF Serves
  <1>2. Inductive(t, v)
    BY <1>1, ClientKeeps
  <1> QED BY <1>1, <1>2, KeepsProceeds DEF Rest

(* The client serves, and the service does nothing. *)
LEMMA ClientServes ==
  ASSUME NEW t, NEW s, Inductive(t, s), NEW u, Sane(u), Serves(t, u)
  PROVE  Proceeds(t, s, u, s)
  <1>1. Sheds(t, u) /\ Tells(t, u) /\ Keeps(t, u) /\ u.least = t.least
        /\ (u.state = "stopping" => t.state = "stopping")
    BY DEF Serves, Keeps
  <1>2. Inductive(u, s)
    BY <1>1, ClientAlone
  <1> QED BY <1>1, <1>2, KeepsProceeds

LEMMA StartReopenProceeds ==
  ASSUME IInv, NEW session \in service.due, StartReopen(session)
  PROVE  Proceeds(transport, service, transport', service')
  <1> DEFINE t == transport
             s == service
             due == s.due \ {session}
             w == [s EXCEPT !.due = due]
             targets == Recovering(s, session)
             id == MaxRequests + 1 + s.reopened
             reopen(gen) == [id |-> id, op |-> "reopen", gen |-> gen, session |-> NoSession,
                      print |-> 0, asked |-> 0, reopens |-> session, spent |-> TRUE,
                      phase |-> "waiting", attempts |-> 0, wire |-> NoWire]
             x == [World EXCEPT !.s.due = @ \ {session}]
  <1>0. /\ Inductive(t, s) /\ s \in Service /\ t \in Transport /\ Numbered(s)
        /\ session \in Wire /\ due \in SUBSET Wire
    <2>1. /\ Inductive(t, s) /\ s \in Service /\ t \in Transport /\ Numbered(s)
      BY DEF IInv, Inductive, Numbered, Sane
    <2> QED BY <2>1 DEF Service
  <1>1. World.t = t /\ World.s = s /\ World \in Worlds
    BY <1>0 DEF World, Worlds
  <1>2. x = [World EXCEPT !.s = w]
    BY <1>1
  <1>3. w \in Service /\ Rest(s, w) /\ w.requests = s.requests
        /\ w.waiting = s.waiting /\ w.opens = s.opens
    <2> HIDE DEF due
    <2> QED BY <1>0 DEF Service, Rest
  <1>4. x \in Worlds /\ x.t = t /\ x.s = w
    <2> HIDE DEF w, x
    <2> QED BY <1>1, <1>2, <1>3 DEF Worlds
  <1>5. \/ targets = {} /\ Becomes([x EXCEPT !.s.waiting = @ \ {session}])
        \/ Becomes([x EXCEPT !.s = FailRecoverySession(@, session)])
        \/ \E newest \in targets :
             Becomes(Dispatch([x EXCEPT !.s.opens = @ \cup {[id |-> id, session |-> session]},
                                        !.s.reopened = @ + 1], reopen(newest.gen)))
    BY DEF StartReopen
  <1> HIDE DEF x, w, due
  <1>6. CASE Becomes([x EXCEPT !.s.waiting = @ \ {session}])
    <2> DEFINE waiting == w.waiting \ {session}
    <2>1. waiting \in SUBSET Wire
      BY <1>3 DEF Service
    <2>2. t' = t /\ s' = [w EXCEPT !.waiting = waiting]
      BY <1>3, <1>4, <1>6 DEF Becomes, Worlds, Service
    <2> HIDE DEF waiting
    <2>3. s' \in Service /\ Rest(w, s') /\ s'.requests = w.requests
      BY <1>3, <2>1, <2>2 DEF Service, Rest
    <2>4. Rest(s, s') /\ s'.requests \subseteq s.requests
      BY <1>3, <2>3 DEF Rest
    <2> QED BY <1>0, <2>2, <2>3, <2>4, ServiceAlone
  <1>7. CASE Becomes([x EXCEPT !.s = FailRecoverySession(@, session)])
    <2> DEFINE v == FailRecoverySession(w, session)
    <2>1. v \in Service /\ Rest(w, v) /\ v.requests \subseteq w.requests
      BY <1>3, FailRecoveryDoes
    <2>2. Becomes([x EXCEPT !.s = v])
      BY <1>4, <1>7
    <2> HIDE DEF v
    <2>3. t' = t /\ s' = v
      BY <1>4, <2>2 DEF Becomes, Worlds
    <2>4. Rest(s, v) /\ v.requests \subseteq s.requests
      BY <1>3, <2>1 DEF Rest
    <2> QED BY <1>0, <2>1, <2>3, <2>4, ServiceAlone
  <1>8. ASSUME NEW newest \in targets,
               Becomes(Dispatch([x EXCEPT !.s.opens = @ \cup {[id |-> id, session |-> session]},
                                          !.s.reopened = @ + 1], reopen(newest.gen)))
        PROVE  Proceeds(t, s, t', s')
    <2> DEFINE r == reopen(newest.gen)
               opens == w.opens \cup {[id |-> id, session |-> session]}
               n == w.reopened + 1
               v == [w EXCEPT !.opens = opens, !.reopened = n]
               z == [x EXCEPT !.s.opens = @ \cup {[id |-> id, session |-> session]}, !.s.reopened = @ + 1]
    <2>1. /\ s.reopened \in Nat /\ MaxRequests \in Nat /\ id \in Nat /\ newest \in s.requests
          /\ newest.gen \in Nat
      BY <1>0, BoundTyped, RequestTyped DEF Recovering
    <2>2. z = [x EXCEPT !.s = v]
      BY <1>3, <1>4 DEF Worlds, Service
    <2>3. w.reopened = s.reopened /\ n \in Nat
      BY <1>3, <2>1 DEF Rest
    <2>4. opens \in SUBSET [id : Nat, session : Wire]
      BY <1>0, <1>3, <2>1 DEF Service
    <2>5. r \in Request /\ r.op = "reopen" /\ r.session = NoSession /\ r.attempts = 0 /\ r.id = id
      <3>1. NoSession \in Wire /\ NoWire \in Wire /\ "waiting" \in Phases
        BY DEF NoSession, NoWire, Wire, Phases
      <3> HIDE DEF id
      <3> QED BY <1>0, <2>1, <3>1 DEF Request
    <2>13. n = s.reopened + 1
      BY <2>3
    <2>6. id = MaxRequests + 1 + s.reopened /\ MaxRequests + s.reopened < id
          /\ id <= MaxRequests + n
      BY <2>1, <2>3
    <2> HIDE DEF opens, r, n, id
    <2>7. /\ v \in Service /\ v.requests = s.requests /\ v.sessions = s.sessions
          /\ v.aliases = s.aliases /\ v.least = s.least /\ v.closing = s.closing
          /\ v.asked = s.asked /\ v.reopened = n /\ v.answers = s.answers
      BY <1>3, <2>3, <2>4 DEF Service, Rest
    <2> HIDE DEF v
    <2>8. z \in Worlds /\ z.t = t /\ z.s = v
      BY <1>4, <2>2, <2>7 DEF Worlds
    <2> DEFINE y == Dispatch(z, r)
    <2>9. t' = y.t /\ s' = y.s
      BY <1>8 DEF Becomes, r, id
    <2> HIDE DEF z
    <2>10. New(s, v, r)
      <3>1. s.asked <= v.asked /\ v.asked <= MaxRequests /\ s.reopened <= v.reopened
        BY <1>0, <2>1, <2>3, <2>7, <2>13, RequestTyped DEF Numbered
      <3>2. MaxRequests + s.reopened < r.id /\ r.id <= MaxRequests + v.reopened
        BY <2>5, <2>6, <2>7
      <3>3. r.op \in Opens
        BY <2>5 DEF Opens
      <3> QED BY <2>5, <2>7, <3>1, <3>2, <3>3 DEF New
    <2>11. ~ s.closing
      BY <1>0, <2>1 DEF Numbered
    <2>12. Inductive(y.t, y.s) /\ Keeps(t, y.t) /\ y.s.answers = v.answers
      <3>1. r.op \in Opens
        BY <2>5 DEF Opens
      <3>2. z.s.requests \ {r} = s.requests \ {r}
        BY <2>7, <2>8
      <3>3. New(s, z.s, r) /\ z.s.answers = v.answers
        BY <2>8, <2>10
      <3>4. y = Dispatch(z, r)
        OBVIOUS
      <3> HIDE DEF y
      <3>5. Inductive(y.t, y.s) /\ Keeps(t, y.t) /\ y.s.answers = z.s.answers
        <4>1. r.op \notin Opens => <<r.session, r.asked>> \in Known(t, s)
          BY <3>1
        <4>2. Inductive(t, s) /\ ~ s.closing /\ z \in Worlds /\ z.t = t /\ r \in Request
          BY <1>0, <2>5, <2>8, <2>11
        <4> QED BY ONLY <4>1, <4>2, <3>2, <3>3, <3>4, SentFirst
      <3> QED BY <3>3, <3>5
    <2> QED BY <2>7, <2>9, <2>12, KeepsProceeds
  <1> QED BY <1>5, <1>6, <1>7, <1>8

LEMMA ResumeProceeds ==
  ASSUME IInv, NEW r \in Resuming(service), Resume(r)
  PROVE  Proceeds(transport, service, transport', service')
  <1> DEFINE y == Dispatch(World, r)
  <1>1. World \in Worlds /\ World.t = transport /\ World.s = service
    BY WorldTyped DEF World, IInv, Inductive, Sane, Numbered
  <1>2. r \in service.requests /\ r.phase \notin Attended
    BY DEF Resuming, Attended
  <1>3. transport' = y.t /\ service' = y.s
    BY DEF Resume, Becomes
  <1> HIDE DEF y
  <1>4. Inductive(y.t, y.s) /\ Keeps(transport, y.t) /\ y.s.answers = service.answers
    BY <1>1, <1>2, SentAgain DEF IInv, y
  <1> QED BY <1>3, <1>4, KeepsProceeds

LEMMA CallProceeds ==
  ASSUME IInv, CallGoesOn
  PROVE  Proceeds(transport, service, transport', service')
  <1>0. Inductive(transport, service) /\ Sane(transport)
    BY DEF IInv, Inductive
  <1>1. CASE Hear
    BY <1>1, HearProceeds
  <1>2. CASE \E session \in service.due : StartReopen(session)
    BY <1>2, StartReopenProceeds
  <1>3. CASE \E r \in Resuming(service) : Resume(r)
    BY <1>3, ResumeProceeds
  <1>4. CASE transport' = FlushNow(transport) /\ UNCHANGED service
    <2>1. Sane(transport') /\ Serves(transport, transport')
      BY <1>0, <1>4, FlushNowSane
    <2> QED BY <1>0, <1>4, <2>1, ClientServes
  <1>5. CASE transport' = ReadOn(transport) /\ UNCHANGED service
    <2>1. Sane(transport') /\ Serves(transport, transport')
      BY <1>0, <1>5, ReadOnSane
    <2> QED BY <1>0, <1>5, <2>1, ClientServes
  <1> QED BY <1>1, <1>2, <1>3, <1>4, <1>5 DEF CallGoesOn

-----------------------------------------------------------------------------
(* The calls of the interface. *)

LEMMA KeepsTwice ==
  ASSUME NEW t, NEW u, NEW v, Keeps(t, u), Keeps(u, v)
  PROVE  Keeps(t, v)
  BY DEF Keeps

LEMMA CancellingProceeds ==
  ASSUME IInv, NEW R \in SUBSET service.requests, Becomes(CancelRequests(World, R))
  PROVE  Proceeds(transport, service, transport', service')
  <1> DEFINE y == CancelRequests(World, R)
  <1>1. World \in Worlds /\ World.t = transport /\ World.s = service
    BY WorldTyped DEF World, IInv, Inductive, Sane, Numbered
  <1>2. transport' = y.t /\ service' = y.s
    BY DEF Becomes
  <1>3. /\ \E W \in SUBSET Wire : y.t = Cancel(transport, W)
        /\ y.s \in Service /\ Rest(service, y.s) /\ y.s.requests \subseteq service.requests \ R
    BY <1>1, CancelRequestsDoes
  <1> HIDE DEF y
  <1>4. Inductive(transport, service) /\ Sane(transport)
    BY DEF IInv, Inductive
  <1>5. Sane(y.t) /\ Serves(transport, y.t)
    BY <1>3, <1>4, CancelSane
  <1>6. /\ Sheds(transport, y.t) /\ Tells(transport, y.t) /\ Keeps(transport, y.t)
        /\ y.t.least = transport.least /\ (y.t.state = "stopping" => transport.state = "stopping")
    BY <1>5 DEF Serves, Keeps
  <1>7. Inductive(y.t, y.s)
    BY <1>3, <1>4, <1>5, <1>6, ClientKeeps
  <1> QED BY <1>2, <1>3, <1>6, <1>7, KeepsProceeds DEF Rest

(* A generation begins when nothing of the earlier ones is on its way. *)
LEMMA LeastMoves ==
  ASSUME NEW t, NEW s, Inductive(t, s), NEW least \in Nat,
         NEW u, u = [t EXCEPT !.least = least], NEW v, v = [s EXCEPT !.least = least],
         \A m \in t.signals : m.signal # "succeeded"
  PROVE  Inductive(u, v)
  <1>0. /\ t \in Transport /\ s \in Service /\ Live(t) /\ Greeting(t) /\ Numbered(s)
        /\ Wired(t, s) /\ Named(t, s) /\ Agreed(t, s) /\ Matching(t, s) /\ Timely(t, s)
        /\ Awaited(t, s)
    BY DEF Inductive, Sane, Numbered
  <1>1. /\ u \in Transport /\ u.state = t.state /\ u.process = t.process /\ u.expected = t.expected
        /\ u.restart = t.restart /\ u.turn = t.turn /\ u.reading = t.reading /\ u.worker = t.worker
        /\ u.pending = t.pending /\ u.queue = t.queue /\ u.signals = t.signals /\ u.least = least
    BY <1>0 DEF Transport
  <1>2. /\ v \in Service /\ v.requests = s.requests /\ v.sessions = s.sessions
        /\ v.aliases = s.aliases /\ v.closing = s.closing /\ v.asked = s.asked
        /\ v.reopened = s.reopened /\ v.least = least
    BY <1>0 DEF Service
  <1>3. Words(u) = Words(t)
    BY <1>1 DEF Words
  <1>4. Results(u) = Results(t)
    BY <1>1, <1>3 DEF Results
  <1>5. Known(u, v) = Known(t, s)
    BY <1>1, <1>2, <1>4 DEF Known
  <1>6. \A wire : Used(v, wire) <=> Used(s, wire)
    BY <1>2 DEF Used
  <1>7. Live(u)
    BY <1>0, <1>1 DEF Live, Running
  <1>8. Greeting(u)
    BY <1>0, <1>1 DEF Greeting, Greets
  <1>9. Numbered(v)
    <2>1. \A r \in v.requests : Regular(v, r)
      BY <1>0, <1>2 DEF Numbered, Regular
    <2> QED BY <1>0, <1>2, <2>1 DEF Numbered
  <1>10. Wired(u, v)
    BY <1>0, <1>1, <1>3, <1>6 DEF Wired
  <1>11. Named(u, v)
    BY <1>0, <1>1, <1>2, <1>4, <1>5, <1>6 DEF Named
  <1>12. Agreed(u, v)
    BY <1>0, <1>2, <1>5 DEF Agreed
  <1>13. Matching(u, v)
    BY <1>0, <1>1, <1>2, <1>3 DEF Matching
  <1>14. Timely(u, v)
    BY <1>0, <1>1, <1>2 DEF Timely
  <1>15. Awaited(u, v)
    BY <1>0, <1>1, <1>2 DEF Awaited
  <1> QED BY <1>1, <1>7, <1>8, <1>9, <1>10, <1>11, <1>12, <1>13, <1>14, <1>15 DEF Inductive, Sane

LEMMA InvalidateProceeds ==
  ASSUME IInv, transport.signals = {}, NEW least \in Nat, Invalidate(least)
  PROVE  Proceeds(transport, service, transport', service')
  <1> DEFINE t == transport
             s == service
             w == [s EXCEPT !.least = least]
             R == {r \in s.requests : r.gen < least}
             z == [World EXCEPT !.s.least = least]
             x == CancelRequests(z, R)
  <1>0. /\ Inductive(t, s) /\ s \in Service /\ t \in Transport /\ Numbered(s) /\ Sane(t)
        /\ least > s.least /\ Timely(t, s)
    BY DEF IInv, Inductive, Numbered, Sane, Invalidate
  <1>1. World.t = t /\ World.s = s /\ World \in Worlds
    BY <1>0 DEF World, Worlds
  <1>2. w \in Service /\ w.requests = s.requests /\ w.sessions = s.sessions
        /\ w.aliases = s.aliases /\ w.least = least /\ w.closing = s.closing
        /\ w.asked = s.asked /\ w.reopened = s.reopened /\ w.answers = s.answers
    BY <1>0 DEF Service
  <1>3. z = [World EXCEPT !.s = w]
    BY <1>1
  <1>4. z \in Worlds /\ z.t = t /\ z.s = w
    <2> HIDE DEF w, z
    <2> QED BY <1>1, <1>2, <1>3 DEF Worlds
  <1>5. /\ \E W \in SUBSET Wire : x.t = Cancel(t, W)
        /\ x.s \in Service /\ Rest(w, x.s) /\ x.s.requests \subseteq s.requests \ R
    <2>1. R \in SUBSET z.s.requests
      BY <1>2, <1>4
    <2> HIDE DEF z, w, R
    <2> QED BY <1>2, <1>4, <2>1, CancelRequestsDoes
  <1>6. Becomes([x EXCEPT !.t = InvalidateBefore(@, least)])
    BY DEF Invalidate
  <1>7. x \in Worlds
    <2> DEFINE lost == {r.session : r \in R}
    <2>1. x.t \in Transport
      BY <1>0, <1>5, CancelSane DEF Sane
    <2>2. x = [t |-> x.t, s |-> x.s]
      BY DEF CancelRequests
    <2> HIDE DEF x
    <2>3. [t |-> x.t, s |-> x.s] \in Worlds
      BY <1>5, <2>1, WorldTyped
    <2> QED BY <2>2, <2>3
  <1> DEFINE u == InvalidateBefore(x.t, least)
  <1>8. t' = u /\ s' = x.s
    <2> HIDE DEF x, u
    <2>1. Becomes([x EXCEPT !.t = u])
      BY <1>6 DEF u
    <2> QED BY <1>7, <2>1 DEF Becomes, Worlds
  <1> HIDE DEF x, w, z
  <1>9. Sane(x.t) /\ Serves(t, x.t)
    BY <1>0, <1>5, CancelSane
  <1>10. /\ Sane(u) /\ Sheds(x.t, u) /\ Tells(x.t, u) /\ u.least = least
         /\ x.t.worker.alive => u.process = x.t.process /\ u.worker.alive
         /\ u.state = "stopping" => x.t.state = "stopping"
    <2>1. least > x.t.least
      BY <1>0, <1>9 DEF Timely, Serves, Keeps
    <2> QED BY <1>9, <2>1, InvalidateSane
  <1> HIDE DEF u
  <1> DEFINE u1 == [u EXCEPT !.least = t.least]
             v1 == [x.s EXCEPT !.least = s.least]
  <1>11. /\ u1 \in Transport /\ u1.state = u.state /\ u1.process = u.process /\ u1.expected = u.expected
         /\ u1.restart = u.restart /\ u1.turn = u.turn /\ u1.reading = u.reading /\ u1.worker = u.worker
         /\ u1.pending = u.pending /\ u1.queue = u.queue /\ u1.signals = u.signals /\ u1.least = t.least
         /\ u = [u1 EXCEPT !.least = least]
    <2>1. u \in Transport /\ t.least \in Nat
      BY <1>0, <1>10, PendingTyped DEF Sane
    <2> QED BY <1>10, <2>1 DEF Transport
  <1>12. /\ v1 \in Service /\ Rest(s, v1) /\ v1.requests = x.s.requests
         /\ x.s = [v1 EXCEPT !.least = least]
    <2>1. s.least \in Nat /\ x.s \in Service /\ x.s.least = least
      BY <1>0, <1>2, <1>5 DEF Service, Rest
    <2>2. /\ v1 \in Service /\ v1.requests = x.s.requests /\ x.s = [v1 EXCEPT !.least = least]
          /\ v1.sessions = x.s.sessions /\ v1.aliases = x.s.aliases /\ v1.least = s.least
          /\ v1.closing = x.s.closing /\ v1.asked = x.s.asked /\ v1.reopened = x.s.reopened
          /\ v1.answers = x.s.answers
      BY <2>1 DEF Service
    <2> QED BY <1>2, <1>5, <2>2 DEF Rest
  <1> HIDE DEF u1, v1
  <1>13. Words(u1) = Words(u)
    BY <1>11 DEF Words
  <1>14. Sane(u1)
    <2>1. Live(u1)
      BY <1>10, <1>11 DEF Live, Running, Sane
    <2>2. Greeting(u1)
      BY <1>10, <1>11 DEF Greeting, Greets, Sane
    <2> QED BY <1>11, <2>1, <2>2 DEF Sane
  <1>15. Sheds(t, u1) /\ Tells(t, u1)
    <2>1. Sheds(t, u) /\ Tells(t, u)
      <3>1. /\ t \in Transport /\ x.t \in Transport /\ u \in Transport /\ Ping \notin t.pending
            /\ t.queue \subseteq t.pending
        BY <1>0, <1>9, <1>10 DEF Sane, Greeting, Live
      <3>2. Sheds(t, x.t) /\ Tells(t, x.t)
        BY <1>9 DEF Serves
      <3> QED BY <1>10, <3>1, <3>2, ShedsTwice, TellsTwice
    <2> QED BY <1>11, <1>13, <2>1 DEF Sheds, Tells
  <1>16. u1.state = "stopping" => t.state = "stopping"
    BY <1>9, <1>10, <1>11 DEF Serves, Keeps
  <1>17. Inductive(u1, v1)
    <2>1. v1.requests \subseteq s.requests
      BY <1>5, <1>12
    <2> QED BY <1>0, <1>11, <1>12, <1>14, <1>15, <1>16, <2>1, ClientKeeps
  <1>18. \A m \in u1.signals : m.signal # "succeeded"
    BY <1>15 DEF Sheds
  <1>19. Inductive(u, x.s)
    BY <1>11, <1>12, <1>17, <1>18, LeastMoves
  <1>20. Steady(t, u)
    BY <1>9, <1>10 DEF Serves, Keeps, Steady
  <1>21. Fitting(s, x.s)
    BY <1>2, <1>5 DEF Fitting, Rest
  <1> QED BY <1>8, <1>19, <1>20, <1>21 DEF Proceeds

LEMMA ShutdownProceeds ==
  ASSUME IInv, RequestShutdown
  PROVE  Proceeds(transport, service, transport', service')
  <1> DEFINE t == transport
             s == service
             w == [s EXCEPT !.closing = TRUE]
             z == [World EXCEPT !.s.closing = TRUE]
             x == CancelRequests(z, s.requests)
             u == Shutdown(x.t)
  <1>0. /\ Inductive(t, s) /\ s \in Service /\ t \in Transport /\ Numbered(s) /\ Sane(t)
        /\ ~ s.closing
    BY DEF IInv, Inductive, Numbered, Sane, RequestShutdown
  <1>1. World.t = t /\ World.s = s /\ World \in Worlds
    BY <1>0 DEF World, Worlds
  <1>2. w \in Service /\ w.requests = s.requests /\ w.sessions = s.sessions
        /\ w.aliases = s.aliases /\ w.least = s.least /\ w.closing = TRUE
        /\ w.asked = s.asked /\ w.reopened = s.reopened /\ w.answers = s.answers
    BY <1>0 DEF Service
  <1>3. z = [World EXCEPT !.s = w]
    BY <1>1
  <1>4. z \in Worlds /\ z.t = t /\ z.s = w
    <2> HIDE DEF w, z
    <2> QED BY <1>1, <1>2, <1>3 DEF Worlds
  <1>5. /\ \E W \in SUBSET Wire : x.t = Cancel(t, W)
        /\ x.s \in Service /\ Rest(w, x.s) /\ x.s.requests \subseteq s.requests \ s.requests
    <2>1. s.requests \in SUBSET z.s.requests
      BY <1>2, <1>4
    <2> HIDE DEF z, w
    <2> QED BY <1>2, <1>4, <2>1, CancelRequestsDoes
  <1>6. Becomes([x EXCEPT !.t = u])
    BY DEF RequestShutdown
  <1>7. x \in Worlds
    <2>1. x.t \in Transport
      BY <1>0, <1>5, CancelSane DEF Sane
    <2>2. x = [t |-> x.t, s |-> x.s]
      BY DEF CancelRequests
    <2> HIDE DEF x
    <2>3. [t |-> x.t, s |-> x.s] \in Worlds
      BY <1>5, <2>1, WorldTyped
    <2> QED BY <2>2, <2>3
  <1>8. t' = u /\ s' = x.s
    <2> HIDE DEF x, u
    <2> QED BY <1>6, <1>7 DEF Becomes, Worlds
  <1> HIDE DEF x, w, z
  <1>9. Sane(x.t) /\ Serves(t, x.t)
    BY <1>0, <1>5, CancelSane
  <1>10. /\ Sane(u) /\ Sheds(x.t, u) /\ Tells(x.t, u) /\ u.least = x.t.least
         /\ x.t.worker.alive => u.process = x.t.process /\ u.worker.alive
    BY <1>9, ShutdownSane
  <1> HIDE DEF u
  <1>11. Sheds(t, u) /\ Tells(t, u)
    <2>1. /\ t \in Transport /\ x.t \in Transport /\ u \in Transport /\ Ping \notin t.pending
          /\ t.queue \subseteq t.pending
      BY <1>0, <1>9, <1>10 DEF Sane, Greeting, Live
    <2>2. Sheds(t, x.t) /\ Tells(t, x.t)
      BY <1>9 DEF Serves
    <2> QED BY <1>10, <2>1, <2>2, ShedsTwice, TellsTwice
  <1>12. u.least = t.least
    BY <1>9, <1>10 DEF Serves, Keeps
  <1>13. /\ x.s.requests = {} /\ x.s.sessions = s.sessions
         /\ x.s.aliases = s.aliases /\ x.s.least = s.least /\ x.s.closing = TRUE
         /\ x.s.asked = s.asked /\ x.s.reopened = s.reopened /\ x.s.answers = s.answers
    BY <1>2, <1>5 DEF Rest
  <1>14. Follows(s, x.s)
    BY <1>0, <1>5, <1>13, SameFollows
  <1>15. Inductive(u, x.s)
    BY <1>0, <1>10, <1>11, <1>12, <1>13, <1>14, ServingKeeps
  <1>16. Steady(t, u)
    BY <1>9, <1>10 DEF Serves, Keeps, Steady
  <1>17. Fitting(s, x.s)
    BY <1>13 DEF Fitting
  <1> QED BY <1>8, <1>15, <1>16, <1>17 DEF Proceeds

(* A request that is only to be sent later joins the others. *)
LEMMA AskedLater ==
  ASSUME NEW t, NEW s, Inductive(t, s), ~ s.closing, NEW d \in Request, NEW v \in Service,
         New(s, v, d), v.reopened = s.reopened, v.requests \subseteq s.requests \cup {d},
         d.phase \notin Attended, d.wire = NoWire, d.spent, Recoverable(d),
         d.op \notin Opens => <<d.session, d.asked>> \in Known(t, s)
  PROVE  Inductive(t, v)
  <1>0. /\ Sane(t) /\ Numbered(s) /\ Wired(t, s) /\ Named(t, s) /\ Agreed(t, s) /\ Matching(t, s)
        /\ Timely(t, s) /\ Awaited(t, s) /\ t.queue \subseteq t.pending /\ t \in Transport
    BY DEF Inductive, Sane, Live
  <1>1. Sheds(t, t)
    BY <1>0, ServesItself DEF Serves
  <1>2. /\ 0 < d.id /\ \A q \in s.requests : q.id # d.id
        /\ \A wire : Used(s, wire) =>
             wire[1] # d.id
             /\ (wire[1] <= v.asked \/ (MaxRequests < wire[1] /\ wire[1] <= MaxRequests + v.reopened))
        /\ \A q \in s.requests : Regular(v, q)
        /\ IF d.op = "reopen" THEN MaxRequests < d.id /\ d.id <= MaxRequests + v.reopened
           ELSE 0 < d.id /\ d.id <= v.asked
    BY <1>0, NewNumbers
  <1>3. /\ v.sessions = s.sessions /\ v.aliases = s.aliases /\ v.least = s.least
        /\ v.closing = s.closing /\ d.attempts = 0 /\ (d.op \in Opens <=> d.session = NoSession)
        /\ v.asked <= MaxRequests
    BY DEF New
  <1>4. \A q \in v.requests : q = d \/ q \in s.requests
    OBVIOUS
  <1>5. Numbered(v)
    <2>1. Regular(v, d)
      BY <1>2, <1>3 DEF Regular
    <2>2. \A q \in v.requests : Regular(v, q)
      BY <1>2, <1>4, <2>1
    <2>3. \A o, q \in v.requests : o.id = q.id => o = q
      BY <1>0, <1>2, <1>4 DEF Numbered
    <2> QED BY <1>3, <2>2, <2>3 DEF Numbered
  <1>6. ASSUME NEW wire, Used(s, wire) PROVE Used(v, wire)
    <2>1. \A q \in v.requests : q.id = wire[1] => wire[2] <= q.attempts
      BY <1>2, <1>4, <1>6 DEF Used
    <2>2. wire \in Wire
      BY <1>6 DEF Used
    <2> QED BY <1>2, <1>6, <2>1, <2>2 DEF Used
  <1>7. Used(v, NoWire)
    BY <1>5, NoWireUsed
  <1>8. Wired(t, v)
    BY <1>0, <1>1, <1>6, <1>7, WiredOn
  <1>9. Known(t, v) \subseteq Known(t, s)
    <2>1. \A f \in v.sessions : f[1] # NoSession => f \in Known(t, s)
      BY <1>3, KnownFrom
    <2>2. ASSUME NEW q \in v.requests, q.op \notin Opens, q.session # NoSession
          PROVE  <<q.session, q.asked>> \in Known(t, s)
      <3>1. CASE q = d
        BY <2>2, <3>1
      <3>2. CASE q \in s.requests
        BY <2>2, <3>2, OwnKnown
      <3> QED BY <1>4, <3>1, <3>2
    <2> QED BY <1>1, <2>1, <2>2, KnownOn
  <1>10. Named(t, v)
    <2>1. ASSUME NEW a \in v.aliases
          PROVE  /\ Used(v, a[1]) /\ a[1] # NoSession
                 /\ \A e \in t.worker.working \cup t.queue : e.wire # a[1]
      BY <1>0, <1>3, <1>6 DEF Named
    <2>2. \A known \in v.sessions : known[1] # NoSession
      BY <1>0, <1>3 DEF Named
    <2> QED BY <1>0, <1>1, <1>6, <1>9, <2>1, <2>2, NamedOn
  <1>11. Agreed(t, v)
    BY <1>0, <1>3, <1>9 DEF Agreed
  <1>12. NoWire[1] = 0
    BY DEF NoWire
  <1>13. Matching(t, v)
    <2>1. \A p \in t.pending : p.wire # d.wire
      BY <1>0, <1>12 DEF Wired
    <2>2. \A m \in t.signals : m.signal = "succeeded" => m.wire # d.wire
      BY <1>0, <1>12 DEF Wired, Endings
    <2> QED BY <1>0, <1>4, <2>1, <2>2 DEF Matching
  <1>14. Timely(t, v)
    <2>1. \A m \in t.signals : m.signal = "succeeded" => m.wire # d.wire
      BY <1>0, <1>12 DEF Wired, Endings
    <2> QED BY <1>0, <1>3, <1>4, <2>1 DEF Timely
  <1>15. Awaited(t, v)
    BY <1>0, <1>4 DEF Awaited
  <1> QED BY <1>0, <1>5, <1>8, <1>10, <1>11, <1>13, <1>14, <1>15 DEF Inductive

LEMMA AskProceeds ==
  ASSUME IInv, NEW op \in Operations, NEW gen \in Nat,
         NEW known \in service.sessions \cup {<<NoSession, 0>>}, Ask(op, gen, known)
  PROVE  Proceeds(transport, service, transport', service')
  <1> DEFINE t == transport
             s == service
             r == [id |-> s.asked + 1, op |-> op, gen |-> gen, session |-> known[1],
                   print |-> known[2], asked |-> known[2], reopens |-> NoSession, spent |-> FALSE,
                   phase |-> "waiting", attempts |-> 0, wire |-> NoWire]
             n == s.asked + 1
             asking == s.requests \cup {r}
             w == [s EXCEPT !.asked = n, !.requests = asking]
             x == [World EXCEPT !.s.asked = @ + 1, !.s.requests = @ \cup {r}]
  <1>0. /\ Inductive(t, s) /\ s \in Service /\ t \in Transport /\ Numbered(s) /\ Sane(t)
        /\ ~ s.closing /\ s.asked < MaxRequests /\ Named(t, s)
        /\ (op = "open" <=> known[1] = NoSession)
    BY DEF IInv, Inductive, Numbered, Sane, Ask
  <1>1. World.t = t /\ World.s = s /\ World \in Worlds
    BY <1>0 DEF World, Worlds
  <1>2. s.asked \in Nat /\ n \in Nat /\ MaxRequests \in Nat /\ s.reopened \in Nat
    BY <1>0, BoundTyped, RequestTyped
  <1>3. known[1] \in Wire /\ known[2] \in Nat
    <2>1. s.sessions \subseteq Wire \X Nat /\ <<NoSession, 0>> \in Wire \X Nat
      BY <1>0 DEF Service, NoSession, Wire
    <2> QED BY <2>1
  <1>4. /\ r \in Request /\ r.id = n /\ r.op = op /\ r.session = known[1] /\ r.asked = known[2]
        /\ r.attempts = 0 /\ r.spent = FALSE
    <2>1. NoSession \in Wire /\ NoWire \in Wire /\ "waiting" \in Phases
      BY DEF NoSession, NoWire, Wire, Phases
    <2>2. op \in {"open", "read", "export"}
      BY RequestBoundsAssumption
    <2> QED BY <1>2, <1>3, <2>1, <2>2 DEF Request
  <1>5. r.op \in Opens <=> r.session = NoSession
    <2>1. op \in {"open", "read", "export"}
      BY RequestBoundsAssumption
    <2> QED BY <1>0, <1>4, <2>1 DEF Opens
  <1>6. r.op # "reopen"
    BY <1>4, RequestBoundsAssumption
  <1>7. r.op \notin Opens => <<r.session, r.asked>> \in Known(t, s) /\ <<r.session, r.asked>> \in s.sessions
    <2>1. SUFFICES ASSUME r.op \notin Opens
                   PROVE  <<r.session, r.asked>> \in Known(t, s) /\ <<r.session, r.asked>> \in s.sessions
      OBVIOUS
    <2>2. known[1] # NoSession
      BY <1>4, <1>5, <2>1
    <2>3. known \in s.sessions
      <3>1. <<NoSession, 0>>[1] = NoSession
        OBVIOUS
      <3> QED BY <2>2, <3>1
    <2>4. known \in Wire \X Nat
      BY <1>0, <2>3 DEF Service
    <2>5. known = <<known[1], known[2]>>
      BY <2>4
    <2> QED BY <1>4, <2>2, <2>3, <2>5, KnownFrom
  <1>8. n = s.asked + 1
    OBVIOUS
  <1>9. Becomes(IF known[1] \in s.invalid /\ Recoverable(r)
                THEN HandleFailure(x, r, "worker_crashed") ELSE Dispatch(x, r))
    BY DEF Ask
  <1>10. x = [World EXCEPT !.s = w]
    BY <1>0, <1>1 DEF Worlds, Service
  <1> HIDE DEF r, n
  <1>11. /\ w \in Service /\ w.requests = asking /\ w.sessions = s.sessions
         /\ w.aliases = s.aliases /\ w.least = s.least /\ w.closing = s.closing
         /\ w.asked = n /\ w.reopened = s.reopened /\ w.answers = s.answers
    <2>1. asking \in SUBSET Request
      BY <1>0, <1>4, RequestTyped
    <2> HIDE DEF asking
    <2> QED BY <1>0, <1>2, <2>1 DEF Service
  <1>12. x \in Worlds /\ x.t = t /\ x.s = w
    <2> HIDE DEF w, x
    <2> QED BY <1>1, <1>10, <1>11 DEF Worlds
  <1>13. w.requests \ {r} = s.requests \ {r} /\ r \in w.requests
    BY <1>11
  <1> HIDE DEF w, x, asking
  <1>14. New(s, w, r)
    <2>1. s.asked < r.id /\ r.id <= w.asked /\ s.asked <= w.asked /\ w.asked <= MaxRequests
      BY <1>0, <1>2, <1>4, <1>8, <1>11
    <2>2. s.reopened <= w.reopened
      BY <1>2, <1>11
    <2> QED BY <1>4, <1>5, <1>6, <1>11, <2>1, <2>2 DEF New
  <1>15. CASE ~ (known[1] \in s.invalid /\ Recoverable(r))
    <2> DEFINE y == Dispatch(x, r)
    <2>1. t' = y.t /\ s' = y.s /\ y = Dispatch(x, r)
      BY <1>9, <1>15 DEF Becomes
    <2> HIDE DEF y
    <2>2. /\ Inductive(t, s) /\ ~ s.closing /\ x \in Worlds /\ x.t = t /\ r \in Request
          /\ New(s, x.s, r) /\ x.s.requests \ {r} = s.requests \ {r}
          /\ y = Dispatch(x, r)
      BY <1>0, <1>4, <1>12, <1>13, <1>14, <2>1
    <2>4. r.op \notin Opens => <<r.session, r.asked>> \in Known(t, s)
      BY <1>7
    <2>3. Inductive(y.t, y.s) /\ Keeps(t, y.t) /\ y.s.answers = x.s.answers
      BY ONLY <2>2, <2>4, SentFirst
    <2> QED BY <1>11, <1>12, <2>1, <2>3, KeepsProceeds
  <1>16. CASE known[1] \in s.invalid /\ Recoverable(r)
    <2> DEFINE y == HandleFailure(x, r, "worker_crashed")
    <2>1. t' = y.t /\ s' = y.s
      BY <1>9, <1>16 DEF Becomes
    <2>2. Aftermath(x, r, y)
      BY <1>12, <1>13, FailureDoes
    <2> HIDE DEF y
    <2>3. Sane(y.t) /\ Serves(t, y.t)
      BY <1>0, <1>12, <2>2, AftermathServes
    <2>4. Sheds(t, y.t) /\ Tells(t, y.t) /\ Keeps(t, y.t) /\ y.t.least = t.least
          /\ (y.t.state = "stopping" => t.state = "stopping")
      BY <2>3 DEF Serves, Keeps
    <2>5. Inductive(y.t, s)
      BY <1>0, <2>3, <2>4, ClientAlone
    <2> DEFINE d == Delayed(r)
    <2>6. /\ d \in Request /\ d.phase = "backoff" /\ d.wire = NoWire
          /\ d.spent = TRUE /\ d.id = r.id /\ d.op = r.op /\ d.attempts = r.attempts
          /\ d.asked = r.asked /\ d.session = r.session /\ (Recoverable(d) <=> Recoverable(r))
      BY <1>4, DelayedDoes
    <2>7. /\ y.s \in Service /\ y.s.requests \subseteq s.requests \cup {d}
          /\ y.s.sessions = s.sessions /\ y.s.aliases = s.aliases /\ y.s.least = s.least
          /\ y.s.closing = s.closing /\ y.s.asked = w.asked /\ y.s.reopened = s.reopened
          /\ y.s.answers = s.answers
      BY <1>11, <1>12, <1>13, <2>2 DEF Aftermath, Rest
    <2> HIDE DEF d
    <2>8. New(s, y.s, d)
      BY <1>11, <1>14, <2>6, <2>7 DEF New
    <2>9. d.op \notin Opens => <<d.session, d.asked>> \in Known(y.t, s)
      <3>1. d.op \notin Opens => <<r.session, r.asked>> \in s.sessions /\ r.session # NoSession
        BY <1>5, <1>7, <2>6
      <3> QED BY <2>6, <3>1, KnownFrom
    <2>10. d.phase \notin Attended
      BY <2>6 DEF Attended
    <2>11. Inductive(y.t, y.s)
      <3>1. /\ ~ s.closing /\ d.spent /\ Recoverable(d) /\ d \in Request /\ d.wire = NoWire
            /\ y.s \in Service /\ y.s.reopened = s.reopened
            /\ y.s.requests \subseteq s.requests \cup {d}
        BY <1>0, <1>16, <2>6, <2>7
      <3> QED BY ONLY <2>5, <2>8, <2>9, <2>10, <3>1, AskedLater
    <2> QED BY <2>1, <2>4, <2>7, <2>11, KeepsProceeds
  <1> QED BY <1>15, <1>16

LEMMA InterfaceProceeds ==
  ASSUME IInv, Interface
  PROVE  Proceeds(transport, service, transport', service')
  <1>1. CASE \E op \in Operations, gen \in 1..MaxGeneration,
                known \in service.sessions \cup {<<NoSession, 0>>} : Ask(op, gen, known)
    <2>1. \A gen \in 1..MaxGeneration : gen \in Nat
      BY RequestBoundsAssumption
    <2> QED BY <1>1, <2>1, AskProceeds
  <1>2. CASE \E r \in service.requests : UserCancels(r)
    <2>1. PICK r \in service.requests : UserCancels(r)
      BY <1>2
    <2>2. {r} \in SUBSET service.requests
      OBVIOUS
    <2> QED BY <2>1, <2>2, CancellingProceeds DEF UserCancels
  <1>3. CASE \E least \in 2..MaxGeneration : Invalidate(least)
    <2>1. PICK least \in 2..MaxGeneration : Invalidate(least)
      BY <1>3
    <2>2. least \in Nat /\ transport.signals = {}
      BY RequestBoundsAssumption DEF Interface, AtRest, Started
    <2> QED BY <2>1, <2>2, InvalidateProceeds
  <1>4. CASE RequestShutdown
    BY <1>4, ShutdownProceeds
  <1> QED BY <1>1, <1>2, <1>3, <1>4 DEF Interface

-----------------------------------------------------------------------------
(* The steps of the process and what is read of it. *)

LEMMA SucceedsKeeps ==
  ASSUME NEW t, NEW s, Inductive(t, s), NEW u, Sane(u), Succeeds(t, u)
  PROVE  Inductive(u, s)
  <1>0. /\ t \in Transport /\ s \in Service /\ Numbered(s) /\ Wired(t, s) /\ Named(t, s)
        /\ Agreed(t, s) /\ Matching(t, s) /\ Timely(t, s) /\ Awaited(t, s)
        /\ t.queue \subseteq t.pending
    BY DEF Inductive, Sane, Numbered, Live
  <1>1. /\ Keeps(t, u) /\ u.queue = t.queue /\ u.worker.working = t.worker.working
        /\ Words(u) \subseteq Words(t) /\ u.worker.sessions = t.worker.sessions
    BY DEF Succeeds
  <1>2. PICK p \in t.pending, m \in Words(t) :
          /\ m.status = "result" /\ m.wire = p.wire /\ p.gen >= t.least
          /\ u.pending = t.pending \ {p}
          /\ u.signals = t.signals \cup {Result(p, m)}
    BY DEF Succeeds
  <1> DEFINE k == Result(p, m)
  <1>3. k.signal = "succeeded" /\ k.wire = p.wire /\ k.session = m.session /\ k.print = m.print
    BY DEF Result
  <1>4. u.signals = t.signals \cup {k}
    BY <1>2
  <1> HIDE DEF k
  <1>5. Wired(u, s)
    <2>1. Used(s, k.wire) /\ k.wire[1] > 0
      BY <1>0, <1>3 DEF Wired
    <2>2. \A q \in u.pending : q \in t.pending
      BY <1>2
    <2>3. \A n \in Words(u) \cup u.signals : Used(s, n.wire)
      BY <1>0, <1>1, <1>4, <2>1 DEF Wired
    <2>4. \A n \in u.signals : n.signal \in Endings => n.wire[1] > 0
      BY <1>0, <1>4, <2>1 DEF Wired
    <2> QED BY <1>0, <1>1, <2>2, <2>3, <2>4 DEF Wired
  <1>6. \A n \in Results(u) : n \in Results(t) \/ n = k
    BY <1>1, <1>4 DEF Results
  <1>7. m \in Results(t)
    BY <1>2 DEF Results
  <1>8. Known(u, s) \subseteq Known(t, s)
    <2> SUFFICES ASSUME NEW f \in Known(u, s) PROVE f \in Known(t, s)
      OBVIOUS
    <2>1. /\ f[1] # NoSession
          /\ \/ f \in u.worker.sessions
             \/ \E n \in Words(u) : n.status = "result" /\ f = <<n.session, n.print>>
             \/ \E n \in u.signals : n.signal = "succeeded" /\ f = <<n.session, n.print>>
             \/ f \in s.sessions
             \/ \E q \in s.requests : q.op \notin Opens /\ f = <<q.session, q.asked>>
      BY KnownFrom
    <2>2. CASE f = <<k.session, k.print>>
      <3>1. f = <<m.session, m.print>>
        BY <1>3, <2>2
      <3> QED BY <1>2, <2>1, <3>1, KnownFrom
    <2>3. CASE f # <<k.session, k.print>>
      <3>1. \/ f \in t.worker.sessions
            \/ \E n \in Words(t) : n.status = "result" /\ f = <<n.session, n.print>>
            \/ \E n \in t.signals : n.signal = "succeeded" /\ f = <<n.session, n.print>>
            \/ f \in s.sessions
            \/ \E q \in s.requests : q.op \notin Opens /\ f = <<q.session, q.asked>>
        BY <1>1, <1>4, <2>1, <2>3
      <3> QED BY <2>1, <3>1, KnownFrom
    <2> QED BY <2>2, <2>3
  <1>9. Named(u, s)
    <2>1. \A n \in Results(u) : n.session # NoSession \/ n.wire = NoWire
      BY <1>0, <1>2, <1>3, <1>6, <1>7 DEF Named
    <2> QED BY <1>0, <1>1, <1>8, <2>1 DEF Named
  <1>10. Agreed(u, s)
    BY <1>0, <1>8 DEF Agreed
  <1>11. ASSUME NEW r \in s.requests, k.wire = r.wire
         PROVE  r.gen >= s.least /\ (r.op \notin Opens => k.print = r.asked)
    <2>1. p.op = r.op /\ p.gen = r.gen /\ p.session = r.session
      BY <1>0, <1>3, <1>11 DEF Matching
    <2>2. r.gen >= s.least
      BY <1>0, <1>2, <2>1 DEF Timely
    <2>3. ASSUME r.op \notin Opens PROVE k.print = r.asked
      <3>1. m.session = r.session
        BY <1>0, <1>2, <2>1, <2>3 DEF Matching
      <3>2. r.session # NoSession
        BY <1>0, <2>3 DEF Numbered, Regular
      <3>3. <<r.session, r.asked>> \in Known(t, s)
        BY <2>3, <3>2, OwnKnown
      <3>4. <<m.session, m.print>> \in Known(t, s)
        BY <1>2, <3>1, <3>2, KnownFrom
      <3>5. m.print = r.asked
        BY <1>0, <3>1, <3>3, <3>4 DEF Agreed
      <3> QED BY <1>3, <3>5
    <2> QED BY <2>2, <2>3
  <1>12. Matching(u, s)
    <2>1. \A q \in u.pending : q \in t.pending
      BY <1>2
    <2>2. \A n \in u.signals, r \in s.requests :
            n.signal = "succeeded" /\ n.wire = r.wire /\ r.op \notin Opens => n.print = r.asked
      BY <1>0, <1>4, <1>11 DEF Matching
    <2> QED BY <1>0, <1>1, <2>1, <2>2 DEF Matching
  <1>13. Timely(u, s)
    <2>1. \A n \in u.signals, r \in s.requests :
            n.signal = "succeeded" /\ n.wire = r.wire => r.gen >= s.least
      BY <1>0, <1>4, <1>11 DEF Timely
    <2> QED BY <1>0, <1>1, <2>1 DEF Timely, Keeps
  <1>14. Awaited(u, s)
    <2> SUFFICES ASSUME NEW q \in s.requests, q.phase \in Attended
                 PROVE  \/ \E e \in u.pending : e.wire = q.wire /\ (q.phase = "stalling" => e \notin u.queue)
                        \/ \E n \in u.signals : n.wire = q.wire /\ n.signal \in Endings
      BY DEF Awaited
    <2>1. CASE \E e \in t.pending : e.wire = q.wire /\ (q.phase = "stalling" => e \notin t.queue)
      <3>1. PICK e \in t.pending : e.wire = q.wire /\ (q.phase = "stalling" => e \notin t.queue)
        BY <2>1
      <3>2. CASE e = p
        BY <1>3, <1>4, <3>1, <3>2 DEF Endings
      <3>3. CASE e # p
        BY <1>1, <1>2, <3>1, <3>3
      <3> QED BY <3>2, <3>3
    <2>2. CASE \E n \in t.signals : n.wire = q.wire /\ n.signal \in Endings
      BY <1>4, <2>2
    <2> QED BY <1>0, <2>1, <2>2 DEF Awaited
  <1> QED BY <1>0, <1>5, <1>9, <1>10, <1>12, <1>13, <1>14 DEF Inductive

LEMMA HandleMessageProceeds ==
  ASSUME IInv, HandleMessage
  PROVE  Proceeds(transport, service, transport', service')
  <1>1. /\ Inductive(transport, service) /\ Sane(transport) /\ Readable(transport)
        /\ transport' = ReadMessage(transport) /\ service' = service
        /\ \A m \in Words(transport), p \in transport.queue : m.wire # p.wire
    BY DEF IInv, Inductive, HandleMessage, ClientStep, Wired
  <1>2. Sane(transport') /\ (Serves(transport, transport') \/ Succeeds(transport, transport'))
    BY <1>1, ReadMessageSane
  <1>3. CASE Serves(transport, transport')
    BY <1>1, <1>2, <1>3, ClientServes
  <1>4. CASE Succeeds(transport, transport')
    <2>1. Inductive(transport', service)
      BY <1>1, <1>2, <1>4, SucceedsKeeps
    <2>2. Keeps(transport, transport')
      BY <1>4 DEF Succeeds
    <2> QED BY <1>1, <2>1, <2>2, KeepsProceeds
  <1> QED BY <1>2, <1>3, <1>4

(* The client goes on; whether a process that starts replaces one is seen at once. *)
LEMMA ClientProceeds ==
  ASSUME NEW t, NEW s, Inductive(t, s), NEW u, Sane(u), Sheds(t, u), Tells(t, u), u.least = t.least,
         u.state # "stopping", u.process # "starting"
  PROVE  Proceeds(t, s, u, s)
  <1>1. Inductive(u, s)
    BY ClientAlone
  <1> QED BY <1>1 DEF Proceeds, Steady, Fitting

LEMMA ProcessProceeds ==
  ASSUME IInv, ProcessStarts \/ NotStarted \/ StartTimeout \/ Exited \/ Finish
  PROVE  Proceeds(transport, service, transport', service')
  <1>0. Inductive(transport, service) /\ Sane(transport) /\ transport \in Transport
    BY DEF IInv, Inductive, Sane
  <1>1. CASE ProcessStarts
    <2>1. Starts(transport) /\ transport' = ProcessStarted(transport) /\ service' = service
      BY <1>1 DEF ProcessStarts, ClientStep
    <2>2. /\ Sane(transport') /\ Sheds(transport, transport') /\ Tells(transport, transport')
          /\ transport'.least = transport.least
          /\ transport'.state = "handshaking" /\ transport'.process = "running"
      BY <1>0, <2>1, ProcessStartedSane
    <2> QED BY <1>0, <2>1, <2>2, ClientProceeds
  <1>2. CASE NotStarted
    <2>1. transport' = StartFails(transport) /\ service' = service
      BY <1>2 DEF NotStarted, ClientStep
    <2>2. /\ Sane(transport') /\ Sheds(transport, transport') /\ Tells(transport, transport')
          /\ transport'.least = transport.least
          /\ transport'.state = "failed" /\ transport'.process = "exited"
      BY <1>0, <2>1, StartFailsSane
    <2> QED BY <1>0, <2>1, <2>2, ClientProceeds
  <1>3. CASE StartTimeout
    <2>1. transport' = ProtocolFailure(transport, "startup_timeout") /\ service' = service
      BY <1>3 DEF StartTimeout, ClientStep
    <2>2. Sane(transport') /\ Serves(transport, transport')
      <3>1. "startup_timeout" \in Failures /\ Ping \notin transport.pending
            /\ transport.queue \subseteq transport.pending
            /\ (transport.worker.alive => Running(transport))
        BY <1>0 DEF Failures, Sane, Greeting, Live
      <3> QED BY <1>0, <2>1, <3>1, ProtocolFailureSane
    <2> QED BY <1>0, <2>1, <2>2, ClientServes
  <1>4. CASE Exited
    <2>1. /\ transport' = ProcessFinished(transport) /\ service' = service
          /\ Running(transport) /\ ~ transport.worker.alive
      BY <1>4 DEF Exited, ClientStep
    <2>2. Sane(transport') /\ Serves(transport, transport')
      BY <1>0, <2>1, ProcessFinishedSane
    <2> QED BY <1>0, <2>1, <2>2, ClientServes
  <1>5. CASE Finish
    <2>1. /\ transport' = FinishProcess(transport) /\ service' = service
          /\ transport.process = "exited"
      BY <1>5 DEF Finish, ClientStep
    <2>2. Sane(transport') /\ Serves(transport, transport')
      BY <1>0, <2>1, ExitedIsOver, FinishSane
    <2> QED BY <1>0, <2>1, <2>2, ClientServes
  <1> QED BY <1>1, <1>2, <1>3, <1>4, <1>5

-----------------------------------------------------------------------------
(* The watchdog. *)

LEMMA WorldIs ==
  ASSUME IInv
  PROVE  /\ World \in Worlds /\ World.t = transport /\ World.s = service
         /\ Inductive(transport, service) /\ Sane(transport) /\ Numbered(service)
         /\ transport \in Transport /\ service \in Service
  BY WorldTyped DEF World, IInv, Inductive, Sane, Numbered

(* A request that waits to be sent again is changed, and still waits. *)
LEMMA PutOffKeeps ==
  ASSUME NEW t, NEW s, Inductive(t, s), NEW r \in s.requests, r.phase \notin Attended,
         NEW q \in Request, q.id = r.id, q.op = r.op, q.gen = r.gen, q.attempts = r.attempts,
         q.asked = r.asked, q.spent = r.spent, q.wire = r.wire, q.phase \notin Attended,
         q.session = NoSession <=> r.session = NoSession,
         q.session # NoSession /\ q.op \notin Opens => <<q.session, q.asked>> \in Known(t, s),
         NEW v \in Service, Rest(s, v), v.requests = (s.requests \ {r}) \cup {q}
  PROVE  Inductive(t, v)
  <1>0. Numbered(s) /\ Sane(t) /\ t \in Transport
    BY DEF Inductive, Sane
  <1>1. Sheds(t, t) /\ Tells(t, t)
    BY <1>0, ServesItself DEF Serves
  <1>2. Continues(r, q)
    <2>1. r.wire = NoWire /\ Recoverable(r) /\ r.spent /\ r.attempts <= 1
      BY <1>0 DEF Numbered, Regular
    <2> QED BY <2>1 DEF Continues, Recoverable
  <1>3. Follows(s, v)
    <2>1. \A o \in v.requests : \E p \in s.requests : Continues(p, o)
      <3>1. \A o \in s.requests : Continues(o, o)
        BY DEF Continues
      <3> QED BY <1>2, <3>1
    <2>2. \A o, p \in v.requests : o.id = p.id => o = p
      BY <1>0 DEF Numbered
    <2>3. v.asked = s.asked /\ v.reopened = s.reopened /\ ~ v.closing
      BY <1>0 DEF Rest, Numbered
    <2> QED BY <2>1, <2>2, <2>3 DEF Follows
  <1>4. ASSUME NEW o \in v.requests, o.op \notin Opens, o.session # NoSession
        PROVE  <<o.session, o.asked>> \in Known(t, s)
    <2>1. CASE o = q
      BY <1>4, <2>1
    <2>2. CASE o \in s.requests
      BY <1>4, <2>2, OwnKnown
    <2> QED BY <2>1, <2>2
  <1>5. \A o \in v.requests : o.phase \in Attended => o \in s.requests
    OBVIOUS
  <1>6. /\ v.sessions = s.sessions /\ v.aliases = s.aliases /\ v.least = s.least
        /\ v.closing = s.closing
    BY DEF Rest
  <1> QED BY <1>0, <1>1, <1>3, <1>4, <1>5, <1>6, ServingKeeps

(* A session that was reopened is taken for the one it replaces. *)
LEMMA RetriedKnown ==
  ASSUME NEW t, NEW s, Inductive(t, s), NEW r \in s.requests, NEW session,
         session = r.session \/ \E a \in s.aliases : a[1] = r.session /\ session = a[2]
  PROVE  /\ session \in Wire
         /\ session = NoSession <=> r.session = NoSession
         /\ session # NoSession /\ r.op \notin Opens => <<session, r.asked>> \in Known(t, s)
  <1>0. Numbered(s) /\ Named(t, s) /\ Agreed(t, s) /\ s \in Service
    BY DEF Inductive, Numbered
  <1>1. CASE session = r.session
    BY <1>0, <1>1, OwnKnown, RequestTyped
  <1>2. CASE \E a \in s.aliases : a[1] = r.session /\ session = a[2]
    <2>1. PICK a \in s.aliases : a[1] = r.session /\ session = a[2]
      BY <1>2
    <2>2. PICK known \in s.sessions : known[1] = session
      BY <1>0, <2>1 DEF Agreed
    <2>3. known \in Wire \X Nat /\ known[1] # NoSession /\ r.session # NoSession
      BY <1>0, <2>1 DEF Named, Service
    <2>4. known \in Known(t, s)
      BY <2>3, KnownFrom
    <2>5. ASSUME r.op \notin Opens PROVE <<session, r.asked>> \in Known(t, s)
      <3>1. <<r.session, r.asked>> \in Known(t, s)
        BY <2>3, <2>5, OwnKnown
      <3>2. r.asked = known[2]
        BY <1>0, <2>1, <2>2, <2>4, <3>1 DEF Agreed
      <3>3. known = <<known[1], known[2]>>
        BY <2>3
      <3> QED BY <2>2, <2>4, <3>2, <3>3
    <2> QED BY <2>2, <2>3, <2>5
  <1> QED BY <1>1, <1>2

LEMMA RetryProceeds ==
  ASSUME IInv, NEW r \in service.requests, Retry(r)
  PROVE  Proceeds(transport, service, transport', service')
  <1> DEFINE t == transport
             s == service
             news == {a[2] : a \in {b \in s.aliases : b[1] = r.session}}
             session == IF news = {} THEN r.session ELSE CHOOSE new \in news : TRUE
             q == [r EXCEPT !.session = session]
  <1>0. /\ World \in Worlds /\ World.t = t /\ World.s = s
        /\ Inductive(t, s) /\ Sane(t) /\ Numbered(s) /\ t \in Transport /\ s \in Service
    BY WorldIs
  <1>1. r \in Request /\ r.phase = "backoff"
    BY <1>0, RequestTyped DEF Retry
  <1>2. session = r.session \/ \E a \in s.aliases : a[1] = r.session /\ session = a[2]
    <2>1. news # {} => session \in news
      OBVIOUS
    <2> QED BY <2>1
  <1>3. IF session \in s.invalid
        THEN t' = t /\ s' = ReopenSessions([Change(s, r, [q EXCEPT !.phase = "recovering"]) EXCEPT
                                              !.waiting = @ \cup {session}])
        ELSE Becomes(Dispatch([World EXCEPT !.s = Change(@, r, q)], q))
    BY DEF Retry
  <1> HIDE DEF session
  <1>4. /\ session \in Wire
        /\ session = NoSession <=> r.session = NoSession
        /\ session # NoSession /\ r.op \notin Opens => <<session, r.asked>> \in Known(t, s)
    BY <1>0, <1>2, RetriedKnown
  <1>5. /\ q \in Request /\ q.id = r.id /\ q.op = r.op /\ q.gen = r.gen /\ q.attempts = r.attempts
        /\ q.asked = r.asked /\ q.spent = r.spent /\ q.wire = r.wire /\ q.phase = "backoff"
        /\ q.session = session
    BY <1>1, <1>4 DEF Request
  <1> HIDE DEF q
  <1>6. CASE session \in s.invalid
    <2> DEFINE d == [q EXCEPT !.phase = "recovering"]
               w == Change(s, r, d)
               waiting == w.waiting \cup {session}
               due == waiting \ {o.session : o \in w.opens}
               v == [w EXCEPT !.waiting = waiting, !.due = due]
    <2>1. /\ d \in Request /\ d.id = r.id /\ d.op = r.op /\ d.gen = r.gen /\ d.attempts = r.attempts
          /\ d.asked = r.asked /\ d.spent = r.spent /\ d.wire = r.wire /\ d.phase = "recovering"
          /\ d.session = session
      <3>1. "recovering" \in Phases
        BY DEF Phases
      <3> QED BY <1>5, <3>1 DEF Request
    <2>2. t' = t /\ s' = ReopenSessions([w EXCEPT !.waiting = @ \cup {session}])
      BY <1>3, <1>6
    <2> HIDE DEF d
    <2>3. w \in Service /\ Rest(s, w) /\ w.requests = (s.requests \ {r}) \cup {d}
      BY <1>0, <2>1, ChangeDoes
    <2> HIDE DEF w
    <2>4. s' = v
      BY <2>2, <2>3 DEF ReopenSessions, Service
    <2>5. waiting \in SUBSET Wire /\ due \in SUBSET Wire
      BY <1>4, <2>3 DEF Service
    <2> HIDE DEF waiting, due
    <2>6. v \in Service /\ Rest(s, v) /\ v.requests = (s.requests \ {r}) \cup {d}
      BY <2>3, <2>5 DEF Service, Rest
    <2> HIDE DEF v
    <2>7. Inductive(t, v)
      <3>1. r.phase \notin Attended /\ d.phase \notin Attended
        BY <1>1, <2>1 DEF Attended
      <3>2. d.session = NoSession <=> r.session = NoSession
        BY <1>4, <2>1
      <3>3. d.session # NoSession /\ d.op \notin Opens => <<d.session, d.asked>> \in Known(t, s)
        BY <1>4, <2>1
      <3> QED BY <1>0, <2>1, <2>6, <3>1, <3>2, <3>3, PutOffKeeps
    <2>8. Keeps(t, t)
      BY <1>0, ServesItself DEF Serves
    <2> QED BY <2>2, <2>4, <2>6, <2>7, <2>8, KeepsProceeds DEF Rest
  <1>7. CASE session \notin s.invalid
    <2> DEFINE w == Change(s, r, q)
               x == [World EXCEPT !.s = Change(@, r, q)]
               y == Dispatch(x, q)
    <2>1. w \in Service /\ Rest(s, w) /\ w.requests = (s.requests \ {r}) \cup {q}
      BY <1>0, <1>5, ChangeDoes
    <2>2. x = [World EXCEPT !.s = w]
      BY <1>0
    <2>3. t' = y.t /\ s' = y.s
      BY <1>3, <1>7 DEF Becomes
    <2>4. y = Dispatch(x, q)
      OBVIOUS
    <2> HIDE DEF w, x, y
    <2>5. x \in Worlds /\ x.t = t /\ x.s = w
      BY <1>0, <2>1, <2>2 DEF Worlds
    <2>6. r.phase \notin Attended /\ q.phase \notin Attended /\ q \in w.requests
      BY <1>1, <1>5, <2>1 DEF Attended
    <2>7. Inductive(t, w)
      <3>2. q.session = NoSession <=> r.session = NoSession
        BY <1>4, <1>5
      <3>3. q.session # NoSession /\ q.op \notin Opens => <<q.session, q.asked>> \in Known(t, s)
        BY <1>4, <1>5
      <3> QED BY <1>0, <1>5, <2>1, <2>6, <3>2, <3>3, PutOffKeeps
    <2>8. Inductive(y.t, y.s) /\ Keeps(t, y.t) /\ y.s.answers = w.answers
      BY <2>4, <2>5, <2>6, <2>7, SentAgain
    <2> QED BY <2>1, <2>3, <2>8, KeepsProceeds DEF Rest
  <1> QED BY <1>6, <1>7

LEMMA StallProceeds ==
  ASSUME IInv, NEW r \in service.requests, Stall(r)
  PROVE  Proceeds(transport, service, transport', service')
  <1> DEFINE t == transport
             s == service
             q == [r EXCEPT !.phase = "stalling"]
             u == Cancel(t, {r.wire})
             v == Change(s, r, q)
  <1>0. /\ World \in Worlds /\ World.t = t /\ World.s = s
        /\ Inductive(t, s) /\ Sane(t) /\ Numbered(s) /\ t \in Transport /\ s \in Service
    BY WorldIs
  <1>1. r \in Request /\ r.phase = "waiting" /\ r.wire \in Wire
    BY <1>0, RequestTyped DEF Stall, MayStall
  <1>2. Becomes([World EXCEPT !.s = v, !.t = u])
    BY <1>0 DEF Stall
  <1>3. /\ q \in Request /\ q.id = r.id /\ q.op = r.op /\ q.gen = r.gen /\ q.attempts = r.attempts
        /\ q.asked = r.asked /\ q.spent = r.spent /\ q.wire = r.wire /\ q.phase = "stalling"
        /\ q.session = r.session
    <2>1. "stalling" \in Phases
      BY DEF Phases
    <2> QED BY <1>1, <2>1 DEF Request
  <1> HIDE DEF q
  <1>4. v \in Service /\ Rest(s, v) /\ v.requests = (s.requests \ {r}) \cup {q}
    BY <1>0, <1>3, ChangeDoes
  <1>5. Sane(u) /\ Serves(t, u) /\ (\A p \in u.pending : p.wire \in {r.wire} => p \notin u.queue)
    <2>1. {r.wire} \in SUBSET Wire
      BY <1>1
    <2> QED BY <1>0, <2>1, CancelSane
  <1>6. t' = u /\ s' = v
    <2> HIDE DEF u, v
    <2> QED BY <1>0, <1>2 DEF Becomes, Worlds
  <1> HIDE DEF u, v
  <1>7. Continues(r, q)
    BY <1>1, <1>3 DEF Continues, Attended
  <1>8. Follows(s, v)
    <2>1. \A o \in v.requests : \E p \in s.requests : Continues(p, o)
      <3>1. \A o \in s.requests : Continues(o, o)
        BY DEF Continues
      <3> QED BY <1>4, <1>7, <3>1
    <2>2. \A o, p \in v.requests : o.id = p.id => o = p
      BY <1>0, <1>3, <1>4 DEF Numbered
    <2>3. v.asked = s.asked /\ v.reopened = s.reopened /\ ~ v.closing
      BY <1>0, <1>4 DEF Rest, Numbered
    <2> QED BY <1>4, <2>1, <2>2, <2>3 DEF Follows
  <1>9. ASSUME NEW o \in v.requests, o.op \notin Opens, o.session # NoSession
        PROVE  <<o.session, o.asked>> \in Known(t, s)
    <2>1. CASE o = q
      BY <1>3, <1>9, <2>1, OwnKnown
    <2>2. CASE o \in s.requests
      BY <1>9, <2>2, OwnKnown
    <2> QED BY <1>4, <2>1, <2>2
  <1>10. Sheds(t, u) /\ Tells(t, u) /\ Keeps(t, u) /\ u.least = t.least
         /\ (u.state = "stopping" => t.state = "stopping")
    BY <1>5 DEF Serves, Keeps
  <1>11. Numbered(v) /\ Joint(u, v)
    <2>1. t.queue \subseteq t.pending /\ Joint(t, s)
      BY <1>0 DEF Inductive, Joint, Sane, Live
    <2>2. /\ v.sessions = s.sessions /\ v.aliases = s.aliases /\ v.least = s.least
          /\ v.closing = s.closing
      BY <1>4 DEF Rest
    <2> QED BY <1>0, <1>8, <1>9, <1>10, <2>1, <2>2, JointOn
  <1>12. Awaited(u, v)
    <2>0. Awaited(t, s) /\ u.queue \subseteq t.queue
      BY <1>0, <1>10 DEF Inductive, Sheds
    <2> SUFFICES ASSUME NEW o \in v.requests, o.phase \in Attended
                 PROVE  \/ \E p \in u.pending : p.wire = o.wire /\ (o.phase = "stalling" => p \notin u.queue)
                        \/ \E n \in u.signals : n.wire = o.wire /\ n.signal \in Endings
      BY DEF Awaited
    <2>1. CASE o = q
      <3>1. \/ \E p \in t.pending : p.wire = r.wire
            \/ \E n \in t.signals : n.wire = r.wire /\ n.signal \in Endings
        BY <1>1, <2>0 DEF Awaited, Attended
      <3>2. CASE \E p \in t.pending : p.wire = r.wire
        <4>1. PICK p \in t.pending : p.wire = r.wire
          BY <3>2
        <4>2. CASE p \in u.pending
          BY <1>3, <1>5, <2>1, <4>1, <4>2
        <4>3. CASE p \notin u.pending
          BY <1>3, <1>10, <2>1, <4>1, <4>3 DEF Tells
        <4> QED BY <4>2, <4>3
      <3>3. CASE \E n \in t.signals : n.wire = r.wire /\ n.signal \in Endings
        BY <1>3, <1>10, <2>1, <3>3 DEF Tells
      <3> QED BY <3>1, <3>2, <3>3
    <2>2. CASE o # q
      <3>1. o \in s.requests
        BY <1>4, <2>2
      <3>2. CASE \E p \in t.pending : p.wire = o.wire /\ (o.phase = "stalling" => p \notin t.queue)
        BY <1>10, <2>0, <3>2 DEF Tells
      <3>3. CASE \E n \in t.signals : n.wire = o.wire /\ n.signal \in Endings
        BY <1>10, <3>3 DEF Tells
      <3> QED BY <2>0, <3>1, <3>2, <3>3 DEF Awaited
    <2> QED BY <2>1, <2>2
  <1>13. Inductive(u, v)
    BY <1>5, <1>11, <1>12 DEF Inductive, Joint
  <1> QED BY <1>4, <1>6, <1>10, <1>13, KeepsProceeds DEF Rest

(* The worker is put down with everybody's requests.  The request it did not   *)
(* answer was sent, so that the client was ready.                              *)
LEMMA StallDeadlineProceeds ==
  ASSUME IInv, transport.signals = {}, NEW r \in service.requests, StallDeadline(r)
  PROVE  Proceeds(transport, service, transport', service')
  <1> DEFINE t == transport
             s == service
             q == [r EXCEPT !.wire = NoWire]
             lost == s.invalid \cup {known[1] : known \in s.sessions}
             u == AbortUnresponsive(t)
             c == Change(s, r, q)
             w == [c EXCEPT !.invalid = lost]
             x == [t |-> u, s |-> w]
             y == HandleFailure(x, q, "request_stalled")
             z == [t |-> y.t, s |-> s]
  <1>0. /\ Inductive(t, s) /\ Sane(t) /\ Numbered(s) /\ t \in Transport /\ s \in Service
        /\ t.queue \subseteq t.pending /\ Ping \notin t.pending
    BY WorldIs DEF Sane, Live, Greeting
  <1>1. r \in Request /\ r.phase = "stalling"
    BY <1>0, RequestTyped DEF StallDeadline
  <1>2. t.state = "ready"
    <2>1. \E p \in t.pending : p \notin t.queue
      BY <1>0, <1>1 DEF Inductive, Awaited, Attended
    <2> QED BY <1>0, <2>1 DEF Sane, Live
  <1>3. Sane(u) /\ Serves(t, u) /\ u \in Transport
    BY <1>0, <1>2, AbortSane DEF Sane
  <1>4. /\ q \in Request /\ q.phase = "stalling" /\ q.op = r.op /\ q.spent = r.spent
        /\ Delayed(q) = Delayed(r)
    <2>1. NoWire \in Wire
      BY DEF NoWire, Wire
    <2> QED BY <1>1, <2>1 DEF Request, Delayed
  <1>5. t' = y.t /\ s' = y.s
    <2>1. lost = c.invalid \cup {known[1] : known \in s.sessions}
      BY <1>0, <1>4, ChangeDoes DEF Change, Service
    <2>2. Becomes(HandleFailure([t |-> AbortUnresponsive(transport),
                                 s |-> [c EXCEPT !.invalid = @ \cup {known[1] : known \in service.sessions}]],
                                q, "request_stalled"))
      BY DEF StallDeadline
    <2>3. w = [c EXCEPT !.invalid = @ \cup {known[1] : known \in service.sessions}]
      BY <2>1
    <2> QED BY <2>2, <2>3 DEF Becomes
  <1> HIDE DEF u, q
  <1>6. c \in Service /\ Rest(s, c) /\ c.requests = (s.requests \ {r}) \cup {q}
    BY <1>0, <1>4, ChangeDoes
  <1>7. lost \in SUBSET Wire
    <2>1. \A known \in s.sessions : known[1] \in Wire
      BY <1>0 DEF Service
    <2> QED BY <1>0, <2>1 DEF Service
  <1> HIDE DEF c, lost
  <1>8. w \in Service /\ Rest(s, w) /\ w.requests = (s.requests \ {r}) \cup {q}
    BY <1>6, <1>7 DEF Service, Rest
  <1> HIDE DEF w
  <1>9. x \in Worlds /\ x.t = u /\ x.s = w /\ q \in x.s.requests
    BY <1>3, <1>8, WorldTyped
  <1>10. z.s = s /\ z.t = y.t /\ y = HandleFailure(x, q, "request_stalled")
    OBVIOUS
  <1> HIDE DEF x, y, z
  <1>11. Aftermath(x, q, y)
    BY <1>9, <1>10, FailureDoes
  <1>12. Sane(y.t) /\ Serves(u, y.t)
    BY <1>3, <1>9, <1>11, AftermathServes
  <1>13. Aftermath(z, r, y)
    <2>1. Recoverable(q) <=> Recoverable(r)
      BY <1>4 DEF Recoverable
    <2>2. y.s \in Service /\ Rest(w, y.s)
      BY <1>9, <1>11 DEF Aftermath
    <2>3. Rest(s, y.s)
      BY <1>8, <2>2 DEF Rest
    <2>4. \A o \in y.s.requests : \/ o \in s.requests \ {r}
                                  \/ o = Delayed(r) /\ Recoverable(r) /\ r.spent = FALSE
      BY <1>4, <1>8, <1>9, <1>11, <2>1 DEF Aftermath
    <2> QED BY <1>10, <2>2, <2>3, <2>4 DEF Aftermath
  <1>14. /\ Follows(s, y.s) /\ Rest(s, y.s)
         /\ \A o \in y.s.requests : o.phase \in Attended => o \in s.requests
         /\ \A o \in y.s.requests : \E n \in s.requests :
              o.op = n.op /\ o.session = n.session /\ o.asked = n.asked
    <2>1. Numbered(z.s) /\ r \in z.s.requests
      BY <1>0, <1>10
    <2>2. /\ Follows(z.s, y.s)
          /\ \A o \in y.s.requests : o.phase \in Attended => o \in z.s.requests \ {r}
          /\ \A o \in y.s.requests : \E n \in z.s.requests :
               o.op = n.op /\ o.session = n.session /\ o.asked = n.asked
      BY <1>13, <2>1, AftermathFollows
    <2>3. Rest(s, y.s)
      BY <1>10, <1>13 DEF Aftermath
    <2> QED BY <1>10, <2>2, <2>3
  <1>15. \A o \in y.s.requests :
           o.op \notin Opens /\ o.session # NoSession => <<o.session, o.asked>> \in Known(t, s)
    BY <1>14, OwnKnown
  <1>16. Sheds(t, y.t) /\ Tells(t, y.t) /\ Keeps(t, y.t)
    <2>1. y.t \in Transport /\ Sheds(t, u) /\ Tells(t, u) /\ Keeps(t, u)
          /\ Sheds(u, y.t) /\ Tells(u, y.t) /\ Keeps(u, y.t)
      BY <1>3, <1>12 DEF Serves
    <2>2. Sheds(t, y.t)
      BY <1>0, <1>3, <2>1, ShedsTwice
    <2>3. Tells(t, y.t)
      BY <1>0, <1>3, <2>1, TellsTwice
    <2> QED BY <2>1, <2>2, <2>3, KeepsTwice
  <1>17. Inductive(y.t, y.s)
    <2>1. y.t.least = t.least /\ (y.t.state = "stopping" => t.state = "stopping")
      BY <1>16 DEF Keeps
    <2>2. /\ y.s.sessions = s.sessions /\ y.s.aliases = s.aliases /\ y.s.least = s.least
          /\ y.s.closing = s.closing
      BY <1>14 DEF Rest
    <2> QED BY <1>0, <1>12, <1>14, <1>15, <1>16, <2>1, <2>2, ServingKeeps
  <1> QED BY <1>5, <1>14, <1>16, <1>17, KeepsProceeds DEF Rest

LEMMA WatchdogProceeds ==
  ASSUME IInv, transport.signals = {}, NEW r \in service.requests, Watchdog(r)
  PROVE  Proceeds(transport, service, transport', service')
  <1>1. CASE r.gen < service.least
    <2>1. Becomes(CancelRequests(World, {r})) /\ {r} \in SUBSET service.requests
      BY <1>1 DEF Watchdog, DropSuperseded
    <2> QED BY <2>1, CancellingProceeds
  <1>2. CASE ~ (r.gen < service.least)
    <2>1. Retry(r) \/ Stall(r) \/ StallDeadline(r)
      BY <1>2 DEF Watchdog
    <2> QED BY <2>1, RetryProceeds, StallProceeds, StallDeadlineProceeds
  <1> QED BY <1>1, <1>2

LEMMA MainLoopProceeds ==
  ASSUME IInv, MainLoop
  PROVE  Proceeds(transport, service, transport', service')
  <1>1. CASE CallGoesOn
    BY <1>1, CallProceeds
  <1>2. CASE ProcessStarts \/ NotStarted \/ StartTimeout \/ Exited \/ Finish
    BY <1>2, ProcessProceeds
  <1>3. CASE HandleMessage
    BY <1>3, HandleMessageProceeds
  <1>4. CASE AtRest /\ \E r \in service.requests : Watchdog(r)
    <2>1. transport.signals = {}
      BY <1>4 DEF AtRest, Started
    <2> QED BY <1>4, <2>1, WatchdogProceeds
  <1> QED BY <1>1, <1>2, <1>3, <1>4 DEF MainLoop

-----------------------------------------------------------------------------
(* The worker. *)

(* What an answer to r says: a new session is named after the request that     *)
(* opened it, and any other answer is of a session the worker has.             *)
Says(t, r, m) ==
  m.status = "result" =>
    \/ r = Ping /\ m.session = NoSession
    \/ r # Ping /\ r.op \in Opens /\ m.session = r.wire
    \/ /\ r # Ping /\ r.op \notin Opens /\ m.session = r.session
       /\ <<m.session, m.print>> \in t.worker.sessions

LEMMA SayingKeeps ==
  ASSUME NEW t, NEW s, Inductive(t, s), NEW r \in t.worker.working, NEW m \in Message,
         m.wire = r.wire, Says(t, r, m), NEW F,
         \A f \in F : f = <<r.wire, m.print>> /\ r # Ping /\ r.op \in Opens
                      /\ m.status = "result" /\ m.session = r.wire,
         NEW u, Sane(u), Keeps(t, u), u.pending = t.pending, u.queue = t.queue,
         u.signals = t.signals, u.worker.working = t.worker.working \ {r},
         u.worker.sessions = t.worker.sessions \cup F, Words(u) \subseteq Words(t) \cup {m}
  PROVE  Inductive(u, s)
  <1>0. /\ Numbered(s) /\ Wired(t, s) /\ Named(t, s) /\ Agreed(t, s) /\ Matching(t, s)
        /\ Timely(t, s) /\ Awaited(t, s) /\ s \in Service /\ t.queue \subseteq t.pending
    BY DEF Inductive, Numbered, Sane, Live
  <1>1. /\ Used(s, r.wire)
        /\ r # Ping => r.wire[1] > 0 /\ r.wire # NoSession
        /\ \A p \in t.pending : p.wire = r.wire => p = r
        /\ \A p \in t.queue : p.wire # r.wire
        /\ \A p \in t.pending : p # Ping
    <2>1. Used(s, r.wire) /\ ((r.wire[1] > 0 /\ r.op # "ping") \/ r = Ping)
      BY <1>0 DEF Wired
    <2>2. \A p \in t.pending : p.wire = r.wire => p = r
      BY <1>0 DEF Wired
    <2>3. \A p \in t.queue : p # r
      BY <1>0 DEF Wired
    <2>4. ~ (NoSession[1] > 0)
      BY DEF NoSession
    <2>5. Ping.wire = NoSession
      BY DEF Ping, NoSession
    <2>6. \A p \in t.pending : p # Ping
      BY <1>0, <2>4, <2>5 DEF Wired
    <2> QED BY <1>0, <2>1, <2>2, <2>3, <2>4, <2>6
  <1>2. Wired(u, s)
    <2>1. \A n \in Words(u) \cup u.signals : Used(s, n.wire)
      BY <1>0, <1>1 DEF Wired
    <2>2. \A n \in Words(u), p \in u.queue : n.wire # p.wire
      BY <1>0, <1>1 DEF Wired
    <2>3. u.worker.working \subseteq t.worker.working
      OBVIOUS
    <2> QED BY <1>0, <2>1, <2>2, <2>3 DEF Wired
  <1>3. \A f \in Known(u, s) : f \in Known(t, s) \/ (f = <<r.wire, m.print>> /\ r # Ping /\ r.op \in Opens)
    <2> SUFFICES ASSUME NEW f \in Known(u, s), f \notin Known(t, s)
                 PROVE  f = <<r.wire, m.print>> /\ r # Ping /\ r.op \in Opens
      OBVIOUS
    <2>1. /\ f[1] # NoSession
          /\ \/ f \in u.worker.sessions
             \/ \E n \in Words(u) : n.status = "result" /\ f = <<n.session, n.print>>
             \/ \E n \in u.signals : n.signal = "succeeded" /\ f = <<n.session, n.print>>
             \/ f \in s.sessions
             \/ \E q \in s.requests : q.op \notin Opens /\ f = <<q.session, q.asked>>
      BY KnownFrom
    <2>2. ~ (\/ f \in t.worker.sessions
             \/ \E n \in Words(t) : n.status = "result" /\ f = <<n.session, n.print>>
             \/ \E n \in t.signals : n.signal = "succeeded" /\ f = <<n.session, n.print>>
             \/ f \in s.sessions
             \/ \E q \in s.requests : q.op \notin Opens /\ f = <<q.session, q.asked>>)
      BY <2>1, KnownFrom
    <2>3. CASE f \in F
      BY <2>3
    <2>4. CASE f \notin F
      <3>1. m.status = "result" /\ f = <<m.session, m.print>>
        BY <2>1, <2>2, <2>4
      <3>2. ~ (r = Ping /\ m.session = NoSession)
        BY <2>1, <3>1
      <3> QED BY <2>2, <3>1, <3>2 DEF Says
    <2> QED BY <2>3, <2>4
  <1>4. /\ \A f \in Known(t, s) : f[1] # r.wire
        /\ \A a \in s.aliases : a[1] # r.wire
    BY <1>0 DEF Named
  <1>5. \A f \in Known(u, s) : f \notin Known(t, s) => f[1] = r.wire
    BY <1>3
  <1>6. Named(u, s)
    <2>1. \A f \in Known(u, s) : Used(s, f[1])
      BY <1>0, <1>1, <1>3 DEF Named
    <2>2. \A known \in u.worker.sessions \cup s.sessions : known[1] # NoSession
      <3>1. \A f \in F : f[1] # NoSession
        BY <1>1
      <3> QED BY <1>0, <3>1 DEF Named
    <2>3. ASSUME NEW n \in Results(u) PROVE n.session # NoSession \/ n.wire = NoWire
      <3>1. n \in Results(t) \/ (n = m /\ m.status = "result")
        BY DEF Results
      <3>2. CASE n \in Results(t)
        BY <1>0, <3>2 DEF Named
      <3>3. CASE n = m /\ m.status = "result"
        <4>1. CASE r = Ping
          BY <3>3, <4>1 DEF Ping, NoWire
        <4>2. CASE r # Ping /\ r.op \in Opens
          BY <1>1, <3>3, <4>2 DEF Says
        <4>3. CASE r # Ping /\ r.op \notin Opens
          <5>1. <<m.session, m.print>> \in t.worker.sessions
            BY <3>3, <4>3 DEF Says
          <5>2. <<m.session, m.print>>[1] # NoSession
            BY <1>0, <5>1 DEF Named
          <5> QED BY <3>3, <5>2
        <4> QED BY <4>1, <4>2, <4>3
      <3> QED BY <3>1, <3>2, <3>3
    <2>4. ASSUME NEW e \in u.worker.working \cup u.queue
          PROVE  /\ \A f \in Known(u, s) : e.wire # f[1]
                 /\ \A a \in s.aliases : e.wire # a[1]
      <3>1. e \in t.worker.working \cup t.queue /\ e.wire # r.wire
        <4>1. CASE e \in t.worker.working /\ e # r
          BY <1>0, <4>1 DEF Wired
        <4>2. CASE e \in t.queue
          BY <1>1, <4>2
        <4> QED BY <4>1, <4>2
      <3>2. /\ \A f \in Known(t, s) : e.wire # f[1]
            /\ \A a \in s.aliases : e.wire # a[1]
        BY <1>0, <3>1 DEF Named
      <3> QED BY <1>5, <3>1, <3>2
    <2> QED BY <1>0, <2>1, <2>2, <2>3, <2>4 DEF Named
  <1>7. Agreed(u, s)
    <2>1. ASSUME NEW f \in Known(u, s), NEW g \in Known(u, s), f[1] = g[1]
          PROVE  f[2] = g[2]
      <3>1. CASE f \in Known(t, s)
        <4>1. g \in Known(t, s)
          BY <1>4, <1>5, <2>1, <3>1
        <4> QED BY <1>0, <2>1, <3>1, <4>1 DEF Agreed
      <3>2. CASE f \notin Known(t, s)
        <4>1. g \notin Known(t, s)
          BY <1>4, <1>5, <2>1, <3>2
        <4> QED BY <1>3, <3>2, <4>1
      <3> QED BY <3>1, <3>2
    <2>2. ASSUME NEW a \in s.aliases
          PROVE  /\ \E known \in s.sessions : known[1] = a[2]
                 /\ \A f, g \in Known(u, s) : f[1] = a[1] /\ g[1] = a[2] => f[2] = g[2]
      <3>1. PICK known \in s.sessions : known[1] = a[2]
        BY <1>0 DEF Agreed
      <3>2. known \in Known(t, s)
        BY <1>0, KnownFrom DEF Named
      <3>3. a[1] # r.wire /\ a[2] # r.wire
        BY <1>4, <3>1, <3>2
      <3>4. \A f \in Known(u, s) : f[1] = a[1] \/ f[1] = a[2] => f \in Known(t, s)
        BY <1>5, <3>3
      <3> QED BY <1>0, <3>1, <3>4 DEF Agreed
    <2> QED BY <2>1, <2>2 DEF Agreed
  <1>8. Matching(u, s)
    <2>1. ASSUME NEW p \in u.pending, NEW n \in Words(u),
                 p.wire = n.wire, p.op \notin Opens, n.status = "result"
          PROVE  n.session = p.session
      <3>1. CASE n \in Words(t)
        BY <1>0, <2>1, <3>1 DEF Matching
      <3>2. CASE n = m
        <4>1. p = r /\ r # Ping
          BY <1>1, <2>1, <3>2
        <4> QED BY <2>1, <3>2, <4>1 DEF Says
      <3> QED BY <3>1, <3>2
    <2> QED BY <1>0, <2>1 DEF Matching
  <1>9. Timely(u, s)
    BY <1>0 DEF Timely, Keeps
  <1>10. Awaited(u, s)
    BY <1>0 DEF Awaited
  <1> QED BY <1>0, <1>2, <1>6, <1>7, <1>8, <1>9, <1>10 DEF Inductive

LEMMA ReplyDoes ==
  ASSUME NEW r \in Envelope, NEW status \in {"result", "cancelled", "file_sharing", "worker_failure"},
         NEW session \in Wire, NEW print \in Nat, NEW m, m = Reply(r, status, session, print)
  PROVE  m \in Message /\ m.wire = r.wire /\ m.status = status /\ m.session = session /\ m.print = print
  <1>1. r.wire \in Wire
    BY DEF Envelope
  <1> QED BY <1>1 DEF Reply, Message

LEMMA SaidDoes ==
  ASSUME NEW w \in Process, NEW r, NEW m \in Message, NEW v, v = Said(w, r, m)
  PROVE  /\ v \in Process /\ v.stdout = Append(w.stdout, m) /\ v.working = w.working \ {r}
         /\ v.sessions = w.sessions /\ v.alive = w.alive /\ v.killed = w.killed
  <1>1. w.stdout \in Seq(Message)
    BY DEF Process
  <1>2. Append(w.stdout, m) \in Seq(Message)
    BY <1>1
  <1> DEFINE z == Append(w.stdout, m)
  <1>3. v = [w EXCEPT !.stdout = z, !.working = @ \ {r}, !.cancels = @ \ {r.wire}]
    BY DEF Said
  <1>4. z \in Seq(Message)
    BY <1>2
  <1> HIDE DEF z
  <1>5. /\ v \in Process /\ v.stdout = z /\ v.working = w.working \ {r}
        /\ v.sessions = w.sessions /\ v.alive = w.alive /\ v.killed = w.killed
    BY <1>3, <1>4 DEF Process
  <1> QED BY <1>5 DEF z

(* What a session that is opened along with an answer is. *)
Brings(r, m, F) ==
  \A f \in F : f = <<r.wire, m.print>> /\ r # Ping /\ r.op \in Opens
               /\ m.status = "result" /\ m.session = r.wire

(* The worker has said something. *)
LEMMA SpeakingProceeds ==
  ASSUME NEW t, NEW s, Inductive(t, s), NEW r \in t.worker.working, NEW m \in Message,
         m.wire = r.wire, Says(t, r, m), NEW F, Brings(r, m, F),
         NEW w, Adds(t, r, m, F, w), NEW u, u = [t EXCEPT !.worker = w]
  PROVE  Proceeds(t, s, u, s)
  <1>1. Sane(t) /\ Wired(t, s)
    BY DEF Inductive
  <1>2. r # Ping => r.wire # Ping.wire
    <2>1. r # Ping => r.wire[1] > 0
      BY <1>1 DEF Wired
    <2>2. ~ (Ping.wire[1] > 0)
      BY DEF Ping
    <2> QED BY <2>1, <2>2
  <1>3. Sane(u) /\ Keeps(t, u) /\ Spoken(t, r, m, F, u)
    BY <1>1, <1>2, SaidSane
  <1>4. Inductive(u, s)
    BY <1>3, SayingKeeps DEF Brings, Spoken
  <1> QED BY <1>3, <1>4, KeepsProceeds

(* It opened nothing. *)
LEMMA SaidProceeds ==
  ASSUME NEW t, NEW s, Inductive(t, s), NEW r \in t.worker.working, NEW m \in Message,
         m.wire = r.wire, Says(t, r, m), NEW u, u = [t EXCEPT !.worker = Said(t.worker, r, m)]
  PROVE  Proceeds(t, s, u, s)
  <1> DEFINE w == Said(t.worker, r, m)
  <1>0. t.worker \in Process
    BY PendingTyped DEF Inductive, Sane
  <1>1. w = Said(t.worker, r, m) /\ u = [t EXCEPT !.worker = w]
    OBVIOUS
  <1> HIDE DEF w
  <1>2. Adds(t, r, m, {}, w)
    BY <1>0, <1>1, SaidDoes DEF Adds
  <1>3. Brings(r, m, {})
    BY DEF Brings
  <1> QED BY <1>1, <1>2, <1>3, SpeakingProceeds

LEMMA WorkerAnswersProceeds ==
  ASSUME IInv, disk \in Nat, WorkerAnswers, UNCHANGED service
  PROVE  Proceeds(transport, service, transport', service') /\ disk' \in Nat
  <1> DEFINE t == transport
             s == service
             w == t.worker
  <1>0. /\ Inductive(t, s) /\ w \in Process /\ MaxEdits \in Nat /\ s' = s
        /\ Wired(t, s) /\ Named(t, s)
        /\ \A r \in w.working : r \in Envelope /\ r.wire \in Wire /\ r.session \in Wire
    <2>1. Inductive(t, s) /\ t \in Transport
      BY DEF IInv, Inductive, Sane
    <2> QED BY <2>1, PendingTyped, FaultBoundsAssumption DEF Inductive
  <1>1. PICK r \in w.working :
          \/ /\ r.op = "ping"
             /\ t' = [t EXCEPT !.worker = Said(w, r, Reply(r, "result", NoSession, 0))]
             /\ UNCHANGED <<disk, faults>>
          \/ /\ r.op \in {"open", "reopen"}
             /\ disk' \in disk..(MaxEdits + 1)
             /\ t' = [t EXCEPT !.worker = [Said(w, r, Reply(r, "result", r.wire, disk')) EXCEPT
                                             !.sessions = @ \cup {<<r.wire, disk'>>}]]
             /\ UNCHANGED faults
          \/ /\ r.op \in {"open", "reopen"} /\ faults < MaxFaults
             /\ t' = [t EXCEPT !.worker = Said(w, r, Reply(r, "file_sharing", NoSession, 0))]
             /\ faults' = faults + 1 /\ UNCHANGED disk
          \/ /\ r.op \in {"read", "export"}
             /\ LET held == {x \in w.sessions : x[1] = r.session}
                    replies == IF held = {} THEN {Reply(r, "worker_failure", r.session, 0)}
                               ELSE {Reply(r, "result", r.session, x[2]) : x \in held}
                IN \E m \in replies : t' = [t EXCEPT !.worker = Said(w, r, m)]
             /\ UNCHANGED <<disk, faults>>
          \/ /\ r.wire \in w.cancels
             /\ t' = [t EXCEPT !.worker = Said(w, r, Reply(r, "cancelled", r.session, 0))]
             /\ UNCHANGED <<disk, faults>>
    BY DEF WorkerAnswers
  <1>2. /\ r \in Envelope /\ r.wire \in Wire /\ r.session \in Wire
        /\ (r.op # "ping" /\ r # Ping) \/ (r = Ping /\ r.op = "ping")
        /\ NoSession \in Wire
    <2>1. Ping.op = "ping"
      BY DEF Ping
    <2>2. (r.wire[1] > 0 /\ r.op # "ping") \/ r = Ping
      BY <1>0 DEF Wired
    <2>3. NoSession \in Wire
      BY DEF NoSession, Wire
    <2> QED BY <1>0, <2>1, <2>2, <2>3
  <1>3. ASSUME NEW m \in Message, m.wire = r.wire, Says(t, r, m),
               t' = [t EXCEPT !.worker = Said(w, r, m)]
        PROVE  Proceeds(t, s, t', s')
    BY <1>0, <1>3, SaidProceeds
  <1>4. ASSUME NEW status \in {"cancelled", "file_sharing", "worker_failure"}, NEW session \in Wire,
               t' = [t EXCEPT !.worker = Said(w, r, Reply(r, status, session, 0))]
        PROVE  Proceeds(t, s, t', s')
    <2> DEFINE m == Reply(r, status, session, 0)
    <2>1. m \in Message /\ m.wire = r.wire /\ m.status = status
      BY <1>2, ReplyDoes
    <2>2. t' = [t EXCEPT !.worker = Said(w, r, m)]
      BY <1>4
    <2> HIDE DEF m
    <2>3. Says(t, r, m)
      BY <2>1 DEF Says
    <2> QED BY <1>3, <2>1, <2>2, <2>3
  <1>5. CASE r.op = "ping" /\ t' = [t EXCEPT !.worker = Said(w, r, Reply(r, "result", NoSession, 0))]
                           /\ UNCHANGED <<disk, faults>>
    <2> DEFINE m == Reply(r, "result", NoSession, 0)
    <2>1. m \in Message /\ m.wire = r.wire /\ m.status = "result" /\ m.session = NoSession
      BY <1>2, ReplyDoes
    <2>2. t' = [t EXCEPT !.worker = Said(w, r, m)]
      BY <1>5
    <2> HIDE DEF m
    <2>3. Says(t, r, m)
      BY <1>2, <1>5, <2>1 DEF Says
    <2> QED BY <1>3, <1>5, <2>1, <2>2, <2>3
  <1>6. CASE /\ r.op \in {"open", "reopen"} /\ disk' \in disk..(MaxEdits + 1)
             /\ t' = [t EXCEPT !.worker = [Said(w, r, Reply(r, "result", r.wire, disk')) EXCEPT
                                             !.sessions = @ \cup {<<r.wire, disk'>>}]]
    <2> DEFINE m == Reply(r, "result", r.wire, disk')
               g == Said(w, r, m)
               F == {<<r.wire, disk'>>}
               v == [g EXCEPT !.sessions = w.sessions \cup F]
    <2>1. disk' \in Nat
      BY <1>0, <1>6
    <2>2. m \in Message /\ m.wire = r.wire /\ m.status = "result" /\ m.session = r.wire /\ m.print = disk'
      BY <1>2, <2>1, ReplyDoes
    <2>3. g = Said(w, r, m) /\ t' = [t EXCEPT !.worker = [g EXCEPT !.sessions = @ \cup F]]
      BY <1>6
    <2> HIDE DEF m, g
    <2>4. /\ g \in Process /\ g.stdout = Append(w.stdout, m) /\ g.working = w.working \ {r}
          /\ g.sessions = w.sessions /\ g.alive = w.alive /\ g.killed = w.killed
      BY <1>0, <2>2, <2>3, SaidDoes
    <2>5. F \in SUBSET (Wire \X Nat) /\ w.sessions \cup F \in SUBSET (Wire \X Nat)
      BY <1>0, <1>2, <2>1 DEF Process
    <2>6. Brings(r, m, F)
      BY <1>2, <1>6, <2>2 DEF Opens, Brings
    <2> HIDE DEF F
    <2>7. Adds(t, r, m, F, v)
      BY <2>4, <2>5 DEF Process, Adds
    <2>8. t' = [t EXCEPT !.worker = v]
      BY <2>3, <2>4
    <2> HIDE DEF v
    <2>9. Says(t, r, m)
      BY <1>2, <1>6, <2>2 DEF Says, Opens
    <2>10. Proceeds(t, s, t', s)
      BY <1>0, <2>2, <2>5, <2>6, <2>7, <2>8, <2>9, SpeakingProceeds
    <2> QED BY <1>0, <2>1, <2>10
  <1>7. CASE /\ r.op \in {"open", "reopen"} /\ UNCHANGED disk
             /\ t' = [t EXCEPT !.worker = Said(w, r, Reply(r, "file_sharing", NoSession, 0))]
    BY <1>2, <1>4, <1>7
  <1>8. CASE /\ r.op \in {"read", "export"} /\ UNCHANGED <<disk, faults>>
             /\ LET held == {x \in w.sessions : x[1] = r.session}
                    replies == IF held = {} THEN {Reply(r, "worker_failure", r.session, 0)}
                               ELSE {Reply(r, "result", r.session, x[2]) : x \in held}
                IN \E m \in replies : t' = [t EXCEPT !.worker = Said(w, r, m)]
    <2> DEFINE held == {x \in w.sessions : x[1] = r.session}
    <2>1. CASE held = {}
      <3>1. t' = [t EXCEPT !.worker = Said(w, r, Reply(r, "worker_failure", r.session, 0))]
        BY <1>8, <2>1
      <3> QED BY <1>2, <1>4, <1>8, <3>1
    <2>2. CASE held # {}
      <3>1. PICK x \in held : t' = [t EXCEPT !.worker = Said(w, r, Reply(r, "result", r.session, x[2]))]
        BY <1>8, <2>2
      <3>2. x \in w.sessions /\ x[1] = r.session /\ x \in Wire \X Nat
        BY <1>0, <3>1 DEF Process
      <3>3. x[2] \in Nat /\ x = <<r.session, x[2]>>
        BY <3>2
      <3> DEFINE m == Reply(r, "result", r.session, x[2])
      <3>4. m \in Message /\ m.wire = r.wire /\ m.status = "result" /\ m.session = r.session /\ m.print = x[2]
        BY <1>2, <3>3, ReplyDoes
      <3>5. t' = [t EXCEPT !.worker = Said(w, r, m)]
        BY <3>1
      <3> HIDE DEF m
      <3>6. Says(t, r, m)
        BY <1>2, <1>8, <3>2, <3>3, <3>4 DEF Says, Opens
      <3> QED BY <1>3, <1>8, <3>4, <3>5, <3>6
    <2> QED BY <2>1, <2>2
  <1>9. CASE /\ t' = [t EXCEPT !.worker = Said(w, r, Reply(r, "cancelled", r.session, 0))]
             /\ UNCHANGED disk
    BY <1>2, <1>4, <1>9
  <1> QED BY <1>1, <1>5, <1>6, <1>7, <1>8, <1>9

LEMMA WorkerProceeds ==
  ASSUME IInv, disk \in Nat, Worker
  PROVE  Proceeds(transport, service, transport', service') /\ disk' \in Nat
  <1>0. /\ Inductive(transport, service) /\ Sane(transport) /\ service' = service
    BY DEF IInv, Inductive, Worker
  <1>1. CASE WorkerAnswers
    BY <1>1, WorkerAnswersProceeds DEF Worker
  <1>2. CASE WorkerDies
    <2>1. /\ transport.worker.alive
          /\ transport.worker.killed = "no" => transport.process = "running"
          /\ transport' = [transport EXCEPT !.worker.alive = FALSE, !.worker.working = {},
                                            !.worker.cancels = {}]
          /\ disk' = disk
      BY <1>2 DEF WorkerDies
    <2>2. /\ Sane(transport') /\ Sheds(transport, transport') /\ Tells(transport, transport')
          /\ transport'.least = transport.least /\ transport'.state = transport.state
          /\ transport'.process = transport.process
      BY <1>0, <2>1, DeadSane
    <2>3. Inductive(transport', service)
      BY <1>0, <2>2, ClientAlone
    <2> QED BY <1>0, <2>1, <2>2, <2>3 DEF Proceeds, Steady, Fitting
  <1>3. CASE GraceEnds
    <2>1. /\ transport.worker.killed = "asked"
          /\ transport' = [transport EXCEPT !.worker.killed = "forced"] /\ disk' = disk
      BY <1>3 DEF GraceEnds, environment
    <2>2. Sane(transport') /\ Serves(transport, transport')
      BY <1>0, <2>1, GraceSane
    <2> QED BY <1>0, <2>1, <2>2, ClientServes
  <1> QED BY <1>1, <1>2, <1>3 DEF Worker

-----------------------------------------------------------------------------
(* The invariant of the specification. *)

Counted == disk \in Nat /\ deaths \in Nat /\ faults \in Nat
Invariant == IInv /\ Counted

LEMMA StartHolds ==
  ASSUME NEW open, open = {} \/ open = {<<<<0, 1>>, 1>>}, ClientInit(open), ServiceInit(open)
  PROVE  Invariant
  <1> DEFINE t == transport
             s == service
             w == [NoWorker EXCEPT !.alive = (open # {}), !.sessions = open]
  <1>1. /\ open \in SUBSET (Wire \X Nat)
        /\ \A f \in open : f[1] # NoSession /\ f[1] \in Wire /\ f[1][1] = 0 /\ f[2] = 1
    <2>1. <<0, 1>> \in Wire /\ <<0, 1>> # NoSession
      BY DEF Wire, NoSession
    <2> QED BY <2>1
  <1>2. /\ w \in Process /\ w.working = {} /\ w.sessions = open /\ w.stdout = <<>>
        /\ w.killed = "no" /\ w.alive = (open # {}) /\ DOMAIN w.stdout = {}
    <2>1. /\ w \in Process /\ w.working = {} /\ w.sessions = open /\ w.stdout = <<>>
          /\ w.killed = "no" /\ w.alive = (open # {})
      BY <1>1, NoWorkerTyped DEF Process
    <2> HIDE DEF w
    <2>2. w.stdout \in Seq(Message)
      BY <2>1 DEF Process
    <2>3. DOMAIN w.stdout = {}
      BY ONLY <2>1, <2>2, SilenceIsEmpty
    <2> QED BY <2>1, <2>3
  <1>3. transport = [state |-> IF open = {} THEN "stopped" ELSE "ready",
                  process |-> IF open = {} THEN "none" ELSE "running",
                  expected |-> FALSE, restart |-> FALSE, turn |-> FALSE, reading |-> FALSE,
                  flush |-> FALSE, least |-> 0, prints |-> open, pending |-> {},
                  queue |-> {}, signals |-> {}, worker |-> w]
    BY DEF ClientInit
  <1> HIDE DEF w
  <1>4. /\ t.state = IF open = {} THEN "stopped" ELSE "ready"
        /\ t.process = IF open = {} THEN "none" ELSE "running"
        /\ t.expected = FALSE /\ t.restart = FALSE /\ t.turn = FALSE /\ t.reading = FALSE
        /\ t.least = 0 /\ t.pending = {} /\ t.queue = {} /\ t.signals = {} /\ t.worker = w
    BY <1>3
  <1>5. t \in Transport
    BY <1>1, <1>2, <1>3 DEF Transport
  <1>6. /\ s.requests = {} /\ s.sessions = open /\ s.aliases = {} /\ s.least = 0
        /\ s.closing = FALSE /\ s.asked = 0 /\ s.reopened = 0 /\ s \in Service
    BY <1>1 DEF ServiceInit, Service
  <1>7. Sane(t)
    <2>1. Live(t)
      BY <1>2, <1>4 DEF Live, Running
    <2>2. Greeting(t)
      BY <1>2, <1>4 DEF Greeting
    <2> QED BY <1>5, <2>1, <2>2 DEF Sane
  <1>8. Numbered(s)
    BY <1>6, BoundTyped DEF Numbered
  <1>9. Words(t) = {} /\ Results(t) = {}
    BY <1>2, <1>4 DEF Words, Results
  <1>10. Wired(t, s)
    BY <1>2, <1>4, <1>9 DEF Wired
  <1>11. \A f \in Known(t, s) : f \in open
    BY <1>2, <1>4, <1>6, <1>9 DEF Known
  <1>12. Named(t, s)
    <2>1. \A f \in open : Used(s, f[1])
      BY <1>1, <1>6 DEF Used
    <2> QED BY <1>1, <1>2, <1>4, <1>6, <1>9, <1>11, <2>1 DEF Named
  <1>13. Agreed(t, s)
    BY <1>1, <1>6, <1>11 DEF Agreed
  <1>14. Matching(t, s) /\ Timely(t, s) /\ Awaited(t, s)
    BY <1>4, <1>6, <1>9 DEF Matching, Timely, Awaited
  <1>15. Counted
    BY DEF ClientInit, Counted
  <1> QED BY <1>7, <1>8, <1>10, <1>12, <1>13, <1>14, <1>15 DEF Invariant, IInv, Inductive

LEMMA InitHolds == Init => Invariant
  <1>1. ASSUME ClientInit({}), ServiceInit({}) PROVE Invariant
    BY <1>1, StartHolds
  <1>2. ASSUME ClientInit({<<<<0, 1>>, 1>>}), ServiceInit({<<<<0, 1>>, 1>>}) PROVE Invariant
    BY <1>2, StartHolds
  <1> QED BY <1>1, <1>2 DEF Init

(* Nothing but a fault and a death counts one. *)
LEMMA NextCounts ==
  ASSUME Counted, disk' \in Nat, Next
  PROVE  Counted'
  <1>1. CASE UNCHANGED environment
    BY <1>1 DEF environment, Counted
  <1>2. CASE NotStarted
    BY <1>2 DEF NotStarted, Counted
  <1>3. CASE WorkerAnswers
    BY <1>3 DEF WorkerAnswers, Counted
  <1>4. CASE WorkerDies
    BY <1>4 DEF WorkerDies, Counted
  <1> QED BY <1>1, <1>2, <1>3, <1>4
       DEF Next, Interface, MainLoop, Worker, CallGoesOn, ProcessStarts, StartTimeout, Exited,
           HandleMessage, Finish, Watchdog, GraceEnds

LEMMA NextProceeds ==
  ASSUME Invariant, Next
  PROVE  Proceeds(transport, service, transport', service') /\ Counted'
  <1>0. IInv /\ disk \in Nat
    BY DEF Invariant, Counted
  <1>1. CASE Interface
    <2>1. disk' \in Nat
      BY <1>0, <1>1 DEF Interface, environment
    <2> QED BY <1>0, <1>1, <2>1, InterfaceProceeds, NextCounts DEF Invariant
  <1>2. CASE MainLoop
    <2>1. disk' \in Nat
      BY <1>0, <1>2 DEF MainLoop, CallGoesOn, ProcessStarts, NotStarted, StartTimeout, Exited,
                        HandleMessage, Finish, Watchdog, environment
    <2> QED BY <1>0, <1>2, <2>1, MainLoopProceeds, NextCounts DEF Invariant
  <1>3. CASE Worker
    BY <1>0, <1>3, WorkerProceeds, NextCounts DEF Invariant
  <1> QED BY <1>1, <1>2, <1>3 DEF Next

LEMMA NextKeeps == Invariant /\ [Next]_vars => Invariant'
  <1> SUFFICES ASSUME Invariant, [Next]_vars PROVE Invariant'
    OBVIOUS
  <1>1. CASE Next
    BY <1>1, NextProceeds DEF Proceeds, Invariant, IInv
  <1>2. CASE UNCHANGED vars
    <2>1. transport' = transport /\ service' = service /\ disk' = disk /\ deaths' = deaths
          /\ faults' = faults
      BY <1>2 DEF vars, environment
    <2>2. IInv'
      BY <2>1 DEF Invariant, IInv
    <2> QED BY <2>1, <2>2 DEF Invariant, Counted
  <1> QED BY <1>1, <1>2

LEMMA AlwaysInvariant == Spec => []Invariant
  BY InitHolds, NextKeeps, PTL DEF Spec

-----------------------------------------------------------------------------
(* What follows. *)

(* The state keeps its type: whatever the worker, the user and the main loop   *)
(* do in turn, client and service only hold what their declarations say.       *)
THEOREM Typing == Spec => []TypeOK
  <1>1. Invariant => TypeOK
    BY DEF Invariant, Counted, IInv, Inductive, Sane, Numbered, TypeOK
  <1> QED BY <1>1, AlwaysInvariant, PTL

(* Nobody is forgotten: no path of the client (submit, cancel, invalidate,     *)
(* flush, protocol failure, abort, end of the process) loses a request that    *)
(* the service waits for, and what is pending has a process it will hear of.   *)
THEOREM Told == Spec => []NobodyForgotten
  <1>1. Invariant => NobodyForgotten
    <2> SUFFICES ASSUME Invariant PROVE NobodyForgotten
      OBVIOUS
    <2>1. Awaited(transport, service) /\ Live(transport) /\ transport \in Transport
      BY DEF Invariant, IInv, Inductive, Sane
    <2>2. \A r \in service.requests :
            r.phase \in {"waiting", "stalling"} =>
              \/ \E p \in transport.pending : p.wire = r.wire
              \/ \E m \in transport.signals :
                   m.wire = r.wire /\ m.signal \in {"failed", "cancelled", "succeeded"}
      BY <2>1 DEF Awaited, Attended, Endings
    <2>3. transport.pending # {} =>
            \/ /\ transport.process \in {"starting", "running"}
               /\ transport.state = "failed" => transport.restart
            \/ transport.process = "exited" /\ (transport.turn \/ transport.reading)
      <3>1. transport.state \in {"stopped", "starting", "handshaking", "ready", "failed", "stopping"}
        BY <2>1 DEF Transport
      <3> QED BY <2>1, <3>1 DEF Live, Running
    <2> QED BY <2>2, <2>3 DEF NobodyForgotten
  <1> QED BY <1>1, AlwaysInvariant, PTL

(* Nothing is replayed: one automatic attempt follows the first, and none      *)
(* follows that of an export, whatever crashes, stalls and reopenings meet.    *)
THEOREM SentOnce == Spec => []NeverReplayed
  <1>1. Invariant => NeverReplayed
    BY DEF Invariant, IInv, Inductive, Matching, NeverReplayed
  <1> QED BY <1>1, AlwaysInvariant, PTL

(* Answers fit: what the interface is told was still wanted, and is of the     *)
(* archives it asked, also when the session was lost and opened again.         *)
THEOREM RightAnswers == Spec => AnswersFit
  <1>1. Invariant /\ [Next]_vars =>
          [\A a \in service'.answers \ service.answers :
             \E r \in service.requests :
               /\ r.id = a.id /\ r.gen >= service.least
               /\ r.op # "open" => a.print = r.asked]_vars
    BY NextProceeds DEF Proceeds, Fitting
  <1> QED BY <1>1, AlwaysInvariant, PTL DEF Spec, AnswersFit

(* One worker: ensure_ready and the end of a process never start a worker      *)
(* while another one runs on the same cache.                                   *)
THEOREM Alone == Spec => OneWorker
  <1>1. Invariant /\ [Next]_vars =>
          [transport'.process = "starting" /\ transport.process # "starting" =>
             ~ transport.worker.alive]_vars
    BY NextProceeds DEF Proceeds, Steady
  <1> QED BY <1>1, AlwaysInvariant, PTL DEF Spec, OneWorker
================================================================================
