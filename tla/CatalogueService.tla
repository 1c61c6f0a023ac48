--------------------------- MODULE CatalogueService ---------------------------
(* The archive catalogue service: what the user interface asks of the helper   *)
(* process, through the client of BackendClient.                               *)
(*                                                                             *)
(* services/archive_catalogue_service.py gives every operation a logical       *)
(* request that outlives its transport: a request the client loses is sent     *)
(* once more if that is safe, a session the worker took with it is opened      *)
(* again first and only trusted if the archives are still the same, what the   *)
(* interface superseded is never answered, and what stops making progress is   *)
(* cancelled and the worker put down.                                          *)
(*                                                                             *)
(* A call of the service ends when all that it calls has ended: the signals of *)
(* the client are heard, then the sessions that are due are opened again or    *)
(* the requests that have theirs again are sent, then the client goes on.      *)
(* Until then (AtRest) nothing else happens on the main loop.                  *)
EXTENDS BackendClient, FiniteSets

CONSTANTS
  Operations,    \* what the interface asks for, among "open", "read" and "export"
  MaxSessions,   \* bound: archives the interface has open or opens at a time
  MaxRequests,   \* bound: operations the interface asks for
  MaxGeneration  \* bound: generations of the interface

ASSUME RequestBoundsAssumption ==
  /\ {MaxSessions, MaxRequests, MaxGeneration} \subseteq Nat
  /\ Operations \subseteq {"open", "read", "export"}

VARIABLES service

vars == <<transport, service, environment>>

NoWire == <<0, 0>>

(* requests: the logical requests; sessions: the sessions the interface knows, *)
(* each with its fingerprint; invalid: those whose worker is gone; aliases:    *)
(* what a session was reopened as; opens: the requests that reopen a session;  *)
(* waiting: the sessions to reopen; due: those the running call has still to   *)
(* start with; answers: what the interface was told, and of which archives.    *)
ServiceInit(open) ==
  service = [requests |-> {}, sessions |-> open, invalid |-> {}, aliases |-> {},
             opens |-> {}, waiting |-> {}, due |-> {}, least |-> 0, closing |-> FALSE,
             asked |-> 0, reopened |-> 0, answers |-> {}]

(* Nothing was asked for yet, or an archive has been opened. *)
Init ==
  \/ ClientInit({}) /\ ServiceInit({})
  \/ ClientInit({<<<<0, 1>>, 1>>}) /\ ServiceInit({<<<<0, 1>>, 1>>})

(* A request waits for its reply, for the reply to its cancellation, for its   *)
(* second attempt, for its session to be reopened, or is about to go on.       *)
Recovering(s, session) ==
  {r \in s.requests : r.phase = "recovering" /\ r.session = session}
Resuming(s) == {r \in s.requests : r.phase = "resuming"}

Change(s, r, new) == [s EXCEPT !.requests = (@ \ {r}) \cup {new}]
Leaves(s, r) == [s EXCEPT !.requests = @ \ {r}]

(* A plausible slip: whatever failed in passing is sent again. *)
EverythingRecoverable(r) == r.op # "ping"

(* _is_recoverable: exports and other effects are never sent twice. *)
Recoverable(r) == r.op \in {"open", "reopen", "read"}
Transient == {"file_sharing", "worker_crashed", "startup_timeout", "request_stalled"}

-----------------------------------------------------------------------------
(* The endings of a request.  x is a transport and a service. *)

World == [t |-> transport, s |-> service]
Becomes(x) == transport' = x.t /\ service' = x.s

(* cancel, for several requests: the last one that waits for a session takes   *)
(* its reopening along.                                                        *)
CancelRequests(x, cancelled) ==
  LET kept == x.s.requests \ cancelled
      lost == {r.session : r \in cancelled}
                \ ({NoSession} \cup {r.session : r \in {k \in kept : k.phase = "recovering"}})
      orphans == {o \in x.s.opens : o.session \in lost}
      gone == cancelled \cup {r \in kept : \E o \in orphans : o.id = r.id}
  IN [t |-> Cancel(x.t, {r.wire : r \in gone}),
      s |-> [x.s EXCEPT !.requests = @ \ gone, !.opens = @ \ orphans, !.waiting = @ \ lost]]

(* A plausible slip: the session is given up, and nobody is told. *)
ForgetRecoverySession(s, session) ==
  LET over == {o \in s.opens : o.session = session}
  IN [s EXCEPT !.waiting = @ \ {session}, !.opens = @ \ over,
               !.requests = {r \in @ : \A o \in over : o.id # r.id}]

(* _fail_recovery_session: everything that waits for the session fails with it. *)
FailRecoverySession(s, session) ==
  LET over == {o \in s.opens : o.session = session}
  IN [s EXCEPT !.waiting = @ \ {session}, !.opens = @ \ over,
               !.requests = {r \in @ \ Recovering(s, session) : \A o \in over : o.id # r.id}]

(* Sent again in a second, if that is safe; otherwise its requester is told,   *)
(* and that of a reopening is whatever waits for the session.                  *)
HandleFailure(x, r, said) ==
  LET code == IF r.phase = "stalling" THEN "request_stalled" ELSE said
  IN IF r.gen < x.s.least \/ code \in {"stale_generation", "client_shutdown"}
     THEN CancelRequests(x, {r})
     ELSE IF Recoverable(r) /\ ~ r.spent /\ code \in Transient
          THEN [x EXCEPT !.s = Change(@, r, [r EXCEPT !.spent = TRUE, !.phase = "backoff",
                                                      !.wire = NoWire])]
     ELSE IF r.op = "reopen"
          THEN [x EXCEPT !.s = FailRecoverySession(Leaves(@, r), r.reopens)]
     ELSE [x EXCEPT !.s = Leaves(@, r)]

HandleCancelled(x, r) ==
  IF r.phase = "stalling" THEN HandleFailure(x, r, "request_stalled")
  ELSE CancelRequests(x, {r})

-----------------------------------------------------------------------------
(* Sending requests and reopening sessions. *)

(* r is new, or one of the requests. *)
Dispatch(x, r) ==
  LET wire == <<r.id, r.attempts + 1>>
      envelope == [wire |-> wire, op |-> r.op, gen |-> r.gen, session |-> r.session,
                   print |-> r.print]
  IN [x EXCEPT !.s = Change(@, r, [r EXCEPT !.attempts = @ + 1, !.wire = wire,
                                            !.phase = "waiting"]),
               !.t = Submit(@, envelope)]

(* _handle_worker_ready *)
ReopenSessions(s) == [s EXCEPT !.due = s.waiting \ {o.session : o \in s.opens}]

(* A reopening takes the newest generation of the requests it is for, and      *)
(* their retry: its own failure is theirs.  It is a request without a session. *)
StartReopen(session) ==
  LET targets == Recovering(service, session)
      id == MaxRequests + 1 + service.reopened
      reopen(gen) == [id |-> id, op |-> "reopen", gen |-> gen, session |-> NoSession,
                      print |-> 0, asked |-> 0, reopens |-> session, spent |-> TRUE,
                      phase |-> "waiting", attempts |-> 0, wire |-> NoWire]
      x == [World EXCEPT !.s.due = @ \ {session}]
  IN \/ targets = {} /\ Becomes([x EXCEPT !.s.waiting = @ \ {session}])
     \/ /\ targets # {} /\ \A known \in service.sessions : known[1] # session
        /\ Becomes([x EXCEPT !.s = FailRecoverySession(@, session)])
     \/ /\ \E known \in service.sessions : known[1] = session
        /\ \E newest \in targets :
             /\ \A r \in targets : r.gen <= newest.gen
             /\ Becomes(Dispatch([x EXCEPT !.s.opens = @ \cup {[id |-> id, session |-> session]},
                                           !.s.reopened = @ + 1], reopen(newest.gen)))

Resume(r) == Becomes(Dispatch(World, r))

(* A plausible slip: the reopened session is taken as it is. *)
SessionKnown(s, old, print) == \E known \in s.sessions : known[1] = old

SameArchives(s, old, print) == <<old, print>> \in s.sessions

(* _complete_recovery_open: the requests go on with the session only if it is  *)
(* of the same archives.                                                       *)
CompleteReopen(s, r, session, print) ==
  LET old == r.reopens
      u == [Leaves(s, r) EXCEPT !.opens = {o \in @ : o.id # r.id}, !.waiting = @ \ {old}]
      goes(q) == [q EXCEPT !.session = session, !.print = print, !.phase = "resuming"]
  IN IF ~ SameArchives(s, old, print) THEN FailRecoverySession(u, old)
     ELSE [u EXCEPT
            !.sessions = {known \in @ : known[1] # old} \cup {<<session, print>>},
            !.aliases = {<<a[1], IF a[2] = old THEN session ELSE a[2]>> : a \in @}
                          \cup {<<old, session>>},
            !.invalid = @ \ {old},
            !.requests = (@ \ Recovering(u, old)) \cup {goes(q) : q \in Recovering(u, old)}]

(* A request that is answered: an archive that was opened is known from now on. *)
Settled(s, r, session, print) ==
  [Leaves(s, r) EXCEPT !.sessions = IF r.op = "open" THEN @ \cup {<<session, print>>} ELSE @,
                       !.answers = @ \cup {[id |-> r.id, print |-> print]}]

HandleResult(x, r, session, print) ==
  IF r.phase = "stalling" THEN HandleFailure(x, r, "request_stalled")
  ELSE IF r.op = "reopen" THEN [x EXCEPT !.s = CompleteReopen(@, r, session, print)]
  ELSE [x EXCEPT !.s = Settled(@, r, session, print)]

-----------------------------------------------------------------------------
(* What the service hears of the client.  The endings of attempts it has       *)
(* detached from are ignored, and so is everything once it closes.             *)

Hears(m) == [World EXCEPT !.t.signals = @ \ {m}]
Addressees(m) == IF service.closing THEN {} ELSE {r \in service.requests : r.wire = m.wire}

Handled(m, r) ==
  CASE m.signal = "failed"    -> HandleFailure(Hears(m), r, m.code)
    [] m.signal = "cancelled" -> HandleCancelled(Hears(m), r)
    [] m.signal = "succeeded" -> HandleResult(Hears(m), r, m.session, m.print)

HearEnding(m) ==
  /\ m.signal \in {"failed", "cancelled", "succeeded"}
  /\ \/ Addressees(m) = {} /\ Becomes(Hears(m))
     \/ \E r \in Addressees(m) : Becomes(Handled(m, r))
HearCrashed(m) ==
  /\ m.signal = "crashed"
  /\ Becomes([Hears(m) EXCEPT !.s.invalid = @ \cup {known[1] : known \in service.sessions}])
HearReady(m) ==
  m.signal = "ready" /\ Becomes([Hears(m) EXCEPT !.s = ReopenSessions(@)])

Hear == \E m \in transport.signals : HearEnding(m) \/ HearCrashed(m) \/ HearReady(m)

Started == transport.signals = {} /\ service.due = {} /\ Resuming(service) = {}

(* The rest of the call that runs. *)
CallGoesOn ==
  /\ \/ Hear
     \/ transport.signals = {} /\ \E session \in service.due : StartReopen(session)
     \/ transport.signals = {} /\ \E r \in Resuming(service) : Resume(r)
     \/ Started /\ transport.flush /\ transport' = FlushNow(transport) /\ UNCHANGED service
     \/ /\ Started /\ ~ transport.flush /\ transport.reading
        /\ transport' = ReadOn(transport) /\ UNCHANGED service
  /\ UNCHANGED environment

AtRest == Started /\ ~ transport.flush /\ ~ transport.reading

-----------------------------------------------------------------------------
(* The calls of the interface. *)

(* _submit.  A session the interface knows may be one whose worker is gone. *)
Opening == {r \in service.requests : r.op = "open"}

Ask(op, gen, known) ==
  LET r == [id |-> service.asked + 1, op |-> op, gen |-> gen, session |-> known[1],
            print |-> known[2], asked |-> known[2], reopens |-> NoSession, spent |-> FALSE,
            phase |-> "waiting", attempts |-> 0, wire |-> NoWire]
      x == [World EXCEPT !.s.asked = @ + 1, !.s.requests = @ \cup {r}]
  IN /\ service.asked < MaxRequests /\ ~ service.closing
     /\ op = "open" <=> known[1] = NoSession
     /\ op = "open" => Cardinality(service.sessions) + Cardinality(Opening) < MaxSessions
     /\ Becomes(IF known[1] \in service.invalid /\ Recoverable(r)
                THEN HandleFailure(x, r, "worker_crashed") ELSE Dispatch(x, r))

UserCancels(r) == Becomes(CancelRequests(World, {r}))

Invalidate(least) ==
  LET x == CancelRequests([World EXCEPT !.s.least = least],
                          {r \in service.requests : r.gen < least})
  IN /\ least > service.least /\ ~ service.closing
     /\ Becomes([x EXCEPT !.t = InvalidateBefore(@, least)])

RequestShutdown ==
  LET x == CancelRequests([World EXCEPT !.s.closing = TRUE], service.requests)
  IN ~ service.closing /\ Becomes([x EXCEPT !.t = Shutdown(@)])

Interface ==
  /\ AtRest
  /\ \/ \E op \in Operations, gen \in 1..MaxGeneration,
           known \in service.sessions \cup {<<NoSession, 0>>} : Ask(op, gen, known)
     \/ \E r \in service.requests : r.op # "reopen" /\ UserCancels(r)
     \/ \E least \in 2..MaxGeneration : Invalidate(least)
     \/ RequestShutdown
  /\ UNCHANGED environment

-----------------------------------------------------------------------------
(* What the main loop learns of the process. *)

ClientStep(t) == transport' = t /\ UNCHANGED service

ProcessStarts ==
  Starts(transport) /\ ClientStep(ProcessStarted(transport)) /\ UNCHANGED environment

NotStarted ==
  /\ Starts(transport) /\ faults < MaxFaults
  /\ ClientStep(StartFails(transport))
  /\ faults' = faults + 1 /\ UNCHANGED <<disk, deaths>>

MayTimeOut ==
  transport.state \in {"starting", "handshaking"} /\ transport.worker.stdout = <<>>

StartTimeout ==
  /\ MayTimeOut
  /\ ClientStep(ProtocolFailure(transport, "startup_timeout")) /\ UNCHANGED environment

Exited ==
  /\ Running(transport) /\ ~ transport.worker.alive
  /\ ClientStep(ProcessFinished(transport)) /\ UNCHANGED environment

HandleMessage ==
  /\ Readable(transport)
  /\ ClientStep(ReadMessage(transport)) /\ UNCHANGED environment

Finish ==
  /\ transport.process = "exited" /\ transport.turn /\ Finishes(transport)
  /\ ClientStep(FinishProcess(transport)) /\ UNCHANGED environment

-----------------------------------------------------------------------------
(* _check_operations, for one request.  A request stalls after five minutes    *)
(* without progress: no start and no reading of a message takes so long.       *)

Retry(r) ==
  LET news == {a[2] : a \in {b \in service.aliases : b[1] = r.session}}
      session == IF news = {} THEN r.session ELSE CHOOSE new \in news : TRUE
      q == [r EXCEPT !.session = session]
  IN /\ r.phase = "backoff"
     /\ IF session \in service.invalid
        THEN transport' = transport
             /\ service' = ReopenSessions(
                  [Change(service, r, [q EXCEPT !.phase = "recovering"]) EXCEPT
                    !.waiting = @ \cup {session}])
        ELSE Becomes(Dispatch([World EXCEPT !.s = Change(@, r, q)], q))

DropSuperseded(r) == r.gen < service.least /\ Becomes(CancelRequests(World, {r}))

Quietly == transport.worker.stdout = <<>> /\ ~ transport.turn
MayStall(r) ==
  r.phase = "waiting" /\ transport.state \notin {"starting", "handshaking"} /\ Quietly

Stall(r) ==
  /\ MayStall(r)
  /\ Becomes([World EXCEPT !.s = Change(@, r, [r EXCEPT !.phase = "stalling"]),
                           !.t = Cancel(@, {r.wire})])

(* The request is detached before the worker is put down with everybody's. *)
StallDeadline(r) ==
  LET q == [r EXCEPT !.wire = NoWire]
      s == [Change(service, r, q) EXCEPT
             !.invalid = @ \cup {known[1] : known \in service.sessions}]
  IN /\ r.phase = "stalling"
     /\ Becomes(HandleFailure([t |-> AbortUnresponsive(transport), s |-> s], q, "request_stalled"))

Watchdog(r) ==
  /\ ~ service.closing
  /\ IF r.gen < service.least THEN DropSuperseded(r)
     ELSE Retry(r) \/ Stall(r) \/ StallDeadline(r)
  /\ UNCHANGED environment

MainLoop ==
  \/ CallGoesOn
  \/ /\ AtRest
     /\ \/ ProcessStarts \/ NotStarted \/ StartTimeout \/ Exited \/ HandleMessage \/ Finish
        \/ \E r \in service.requests : Watchdog(r)

Worker == AtRest /\ (WorkerAnswers \/ WorkerDies \/ GraceEnds) /\ UNCHANGED service

Next == Interface \/ MainLoop \/ Worker

(* The main loop goes on as long as it has something to do, and what is put    *)
(* down ends.  The first is WF_vars(MainLoop) with its ENABLED written out.    *)
(* Nothing is assumed of a worker that is left alone, or of the user.          *)
Due(r) ==
  ~ service.closing
    /\ (r.gen < service.least \/ r.phase \in {"backoff", "stalling"} \/ MayStall(r))

Busy ==
  \/ ~ AtRest
  \/ Starts(transport) \/ MayTimeOut \/ Readable(transport)
  \/ Running(transport) /\ ~ transport.worker.alive
  \/ transport.process = "exited" /\ transport.turn /\ Finishes(transport)
  \/ \E r \in service.requests : Due(r)

PutDown ==
  AtRest /\ (GraceEnds \/ (WorkerDies /\ transport.worker.killed = "forced")) /\ UNCHANGED service

Fairness == ([]<>~ Busy \/ []<><<MainLoop>>_vars) /\ WF_vars(PutDown)

Spec == Init /\ [][Next]_vars /\ Fairness

-----------------------------------------------------------------------------
(* Properties. *)

Phases == {"waiting", "stalling", "backoff", "recovering", "resuming"}
Request == [id : Nat, op : {"open", "reopen", "read", "export"}, gen : Nat, session : Wire,
            print : Nat, asked : Nat, reopens : Wire, spent : BOOLEAN, phase : Phases,
            attempts : Nat, wire : Wire]
Service == [requests : SUBSET Request, sessions : SUBSET (Wire \X Nat),
            invalid : SUBSET Wire, aliases : SUBSET (Wire \X Wire),
            opens : SUBSET [id : Nat, session : Wire], waiting : SUBSET Wire,
            due : SUBSET Wire, least : Nat, closing : BOOLEAN, asked : Nat, reopened : Nat,
            answers : SUBSET [id : Nat, print : Nat]]

(* The type of the state. *)
TypeOK ==
  /\ transport \in Transport /\ service \in Service
  /\ disk \in Nat /\ deaths \in Nat /\ faults \in Nat

(* Nobody waits in vain.  What the service waits for is what the client has    *)
(* pending or has just said the end of: no path of the client loses a request, *)
(* queued or sent, without the service being told.  And what is pending has a  *)
(* process that will answer it or be found dead: it is never left to the five  *)
(* minutes of the watchdog.                                                    *)
NobodyForgotten ==
  /\ \A r \in service.requests :
       r.phase \in {"waiting", "stalling"} =>
         \/ \E p \in transport.pending : p.wire = r.wire
         \/ \E m \in transport.signals :
              m.wire = r.wire /\ m.signal \in {"failed", "cancelled", "succeeded"}
  /\ transport.pending # {} =>
       \/ /\ transport.process \in {"starting", "running"}
          /\ transport.state = "failed" => transport.restart
       \/ transport.process = "exited" /\ (transport.turn \/ transport.reading)

(* What may be repeated is sent at most twice, an export once, whatever        *)
(* combination of failures its attempts meet.                                  *)
NeverReplayed ==
  \A r \in transport.pending : r.wire[2] <= (IF r.op = "export" THEN 1 ELSE 2)

(* What is answered was still wanted, and a read that was recovered is         *)
(* answered from the archives it was asked of, although its session is         *)
(* another one.                                                                *)
AnswersFit ==
  [][\A a \in service'.answers \ service.answers :
       \E r \in service.requests :
         /\ r.id = a.id /\ r.gen >= service.least
         /\ r.op # "open" => a.print = r.asked]_vars

(* There are never two workers on the same cache. *)
OneWorker ==
  [][transport'.process = "starting" /\ transport.process # "starting" =>
       ~ transport.worker.alive]_vars

(* A recovering request whose reopening was superseded on its own. *)
Abandoned(r) ==
  /\ r.phase = "recovering"
  /\ \E o \in service.opens : o.session = r.session /\ \A q \in service.requests : q.id # o.id

(* Once the interface stops asking everything is settled; the requests that    *)
(* RecoveryAnswered is about excepted.                                         *)
Settles == <>[](\A r \in service.requests : Abandoned(r))

(* After the shutdown no worker is left, and none is started again. *)
ShutsDown == <>[](service.closing => ~ transport.worker.alive)

(* A request that waits for its session to be reopened waits for a request     *)
(* that is still on its way.                                                   *)
RecoveryAnswered == \A r \in service.requests : ~ Abandoned(r)
=============================================================================
