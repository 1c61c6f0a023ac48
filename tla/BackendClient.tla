----------------------------- MODULE BackendClient -----------------------------
(* The archive helper process and the client that owns it.                     *)
(*                                                                             *)
(* ui/shell/archive_backend_client.py starts one worker process, shakes hands, *)
(* sends it numbered requests and hands its replies on as signals, until the   *)
(* process ends: by itself, on request, or because it was killed.  The worker  *)
(* (tools/dotnet_archive_backend) runs any number of operations side by side   *)
(* and answers each of them once.                                              *)
(*                                                                             *)
(* Both live in one record: the client's methods run to completion on the main *)
(* loop and some are called from inside others, so each is an operator from    *)
(* transport to transport that adds the signals it emits.  They are heard one  *)
(* after the other before anything else happens on the main loop.              *)
EXTENDS Naturals, Sequences

CONSTANTS
  MaxDeaths,  \* bound: workers that end although nobody asked them to
  MaxFaults,  \* bound: programs that do not start and files in use
  MaxEdits    \* bound: changes of the archives on disk

ASSUME FaultBoundsAssumption == {MaxDeaths, MaxFaults, MaxEdits} \subseteq Nat

VARIABLES
  transport,  \* the client and the worker behind it
  disk,       \* the version of the archives: what a session's fingerprint is of
  deaths, faults

environment == <<disk, deaths, faults>>

NoSession == <<0, 0>>
Ping == [wire |-> <<0, 0>>, op |-> "ping", gen |-> 0, session |-> NoSession, print |-> 0]

(* The signals of the client; a session and its fingerprint come with results. *)
Signal(name, wire, code) ==
  [signal |-> name, wire |-> wire, code |-> code, session |-> NoSession, print |-> 0]

NoWorker == [alive |-> FALSE, killed |-> "no", working |-> {}, cancels |-> {},
             sessions |-> {}, stdout |-> <<>>]

(* state is the client's; process that of its QProcess, which still says       *)
(* "running" until the end of the process is noticed; turn: another turn of    *)
(* reading stdout is on its way; reading: a message is being handled, and      *)
(* stdout is returned to; flush: the queue goes out once its signals were      *)
(* heard.  A pending request that is not queued was sent.  The order of the    *)
(* queue is left out: all of it is written, or all of it fails.                *)
(* open: the sessions the worker has opened, if it runs.                       *)
ClientInit(open) ==
  /\ transport = [state |-> IF open = {} THEN "stopped" ELSE "ready",
                  process |-> IF open = {} THEN "none" ELSE "running",
                  expected |-> FALSE, restart |-> FALSE, turn |-> FALSE, reading |-> FALSE,
                  flush |-> FALSE, least |-> 0, prints |-> open, pending |-> {},
                  queue |-> {}, signals |-> {},
                  worker |-> [NoWorker EXCEPT !.alive = (open # {}), !.sessions = open]]
  /\ disk = 1 /\ deaths = 0 /\ faults = 0

(* Nothing a worker that is being put down does is read or acknowledged.       *)
Forsaken(w) == [w EXCEPT !.working = {}, !.cancels = {}, !.sessions = {}, !.stdout = <<>>]
Running(t) == t.process \in {"starting", "running"}

-----------------------------------------------------------------------------
(* Failing and starting. *)

(* A plausible slip: what was only queued is dropped without a word. *)
FailSentOnly(t, requests, code) ==
  [t EXCEPT !.pending = @ \ requests, !.queue = @ \ requests,
            !.signals = @ \cup {Signal("failed", r.wire, code) : r \in requests \ t.queue}]

(* _fail_request, for several of them *)
Fail(t, requests, code) ==
  [t EXCEPT !.pending = @ \ requests, !.queue = @ \ requests,
            !.signals = @ \cup {Signal("failed", r.wire, code) : r \in requests}]

FailAll(t, code) == Fail(t, t.pending, code)

(* The process is killed; what it still says is not read. *)
ProtocolFailure(t, code) ==
  LET u == FailAll([t EXCEPT !.turn = FALSE, !.expected = TRUE, !.state = "failed",
                             !.worker = Forsaken(@)], code)
  IN IF Running(t) THEN [u EXCEPT !.worker.killed = "forced"] ELSE u

EnsureStarted(t) ==
  IF t.state \notin {"stopped", "failed"} THEN t
  ELSE [t EXCEPT !.state = "starting", !.process = "starting", !.expected = FALSE,
                 !.turn = FALSE, !.worker = [NoWorker EXCEPT !.alive = TRUE]]

(* A plausible slip: the new process does not wait for the old one. *)
EnsureReadyAtOnce(t) == EnsureStarted(t)

(* A process that is on its way out is awaited first. *)
EnsureReady(t) ==
  IF Running(t) /\ t.state = "failed" THEN [t EXCEPT !.restart = TRUE] ELSE EnsureStarted(t)

(* Everything queued is written, unless it was superseded meanwhile.  A write  *)
(* to a process that is known to be gone is taken for a protocol failure; one  *)
(* to a process that has just died is lost without notice.                     *)
Flush(t) ==
  LET u == Fail(t, {r \in t.queue : r.gen < t.least}, "stale_generation")
  IN IF t.state # "ready" THEN t
     ELSE IF u.queue = {} THEN u
     ELSE IF Running(u)
          THEN [u EXCEPT !.queue = {},
                         !.worker.working = IF u.worker.alive THEN @ \cup u.queue ELSE @]
          ELSE ProtocolFailure(u, "protocol_failure")

Submit(t, r) ==
  Flush(EnsureReady([t EXCEPT !.pending = @ \cup {r}, !.queue = @ \cup {r}]))

(* What was not sent is dropped at once; the worker is asked to drop the rest. *)
Cancel(t, wires) ==
  LET found == {r \in t.pending : r.wire \in wires}
      unsent == found \cap t.queue
  IN [t EXCEPT !.pending = @ \ unsent, !.queue = @ \ unsent,
               !.signals = @ \cup {Signal("cancelled", r.wire, "") : r \in unsent},
               !.worker.cancels = IF t.state = "ready" /\ Running(t)
                                  THEN @ \cup {r.wire : r \in found \ unsent} ELSE @]

InvalidateBefore(t, least) ==
  LET u == [t EXCEPT !.least = IF least > @ THEN least ELSE @]
      stale == {r \in u.pending : r.gen < u.least}
      told == {r.wire : r \in stale \ u.queue}
  IN Fail([u EXCEPT !.worker.cancels = IF u.state = "ready" /\ Running(u)
                                       THEN @ \cup told ELSE @],
          stale, "stale_generation")

(* _terminate_after_shutdown_grace *)
Terminate(t) ==
  IF Running(t)
  THEN [t EXCEPT !.worker.killed = IF @ = "forced" THEN @ ELSE "asked"]
  ELSE [t EXCEPT !.state = "stopped"]

AbortUnresponsive(t) ==
  LET w == IF Running(t) THEN Forsaken(t.worker) ELSE t.worker
      u == FailAll([t EXCEPT !.expected = TRUE, !.state = "failed", !.worker = w],
                   "worker_crashed")
  IN Terminate([u EXCEPT !.signals = @ \cup {Signal("crashed", <<0, 0>>, "")}])

(* A plausible slip: a restart that was on order is not called off. *)
ShutdownAlone(t) ==
  IF t.state \in {"stopped", "stopping"} THEN t
  ELSE Terminate(FailAll([t EXCEPT !.expected = TRUE, !.state = "stopping",
                                   !.worker = Forsaken(@)], "client_shutdown"))

Shutdown(t) ==
  IF t.state \in {"stopped", "stopping"} THEN t
  ELSE Terminate(FailAll([t EXCEPT !.restart = FALSE, !.expected = TRUE, !.state = "stopping",
                                   !.worker = Forsaken(@)], "client_shutdown"))

(* _finish_process: everything the process said has been read. *)
FinishProcess(t) ==
  LET u == [t EXCEPT !.turn = FALSE, !.process = "none", !.prints = {}, !.restart = FALSE,
                     !.worker = NoWorker]
      crashed == FailAll([u EXCEPT !.state = "failed",
                                   !.signals = @ \cup {Signal("crashed", <<0, 0>>, "")}],
                         "worker_crashed")
      ended == IF t.expected \/ t.state = "stopping"
               THEN [u EXCEPT !.expected = FALSE, !.state = "stopped"]
               ELSE [crashed EXCEPT !.queue = {}]
  IN IF t.restart THEN EnsureStarted(ended) ELSE ended

-----------------------------------------------------------------------------
(* Reading one message of the worker. *)

(* A session's answers count only while its fingerprint is known. *)
Correlates(t, r) ==
  /\ r.gen >= t.least
  /\ r.session # NoSession => <<r.session, r.print>> \in t.prints

(* The handshake is over: the queue goes out once the service has heard of it. *)
HandshakeDone(t) ==
  [t EXCEPT !.state = "ready", !.flush = TRUE,
            !.signals = @ \cup {Signal("ready", <<0, 0>>, "")}]

Answered(t, r, m) ==
  LET u == [t EXCEPT !.pending = @ \ {r}]
      signal == [signal |-> "succeeded", wire |-> r.wire, code |-> "",
                 session |-> m.session, print |-> m.print]
  IN IF ~ Correlates(t, r) THEN Fail(t, {r}, "stale_response")
     ELSE CASE m.status = "result" ->
                 [u EXCEPT !.signals = @ \cup {signal},
                           !.prints = IF r.op \in {"open", "reopen"}
                                      THEN @ \cup {<<m.session, m.print>>} ELSE @]
            [] m.status = "cancelled" ->
                 [u EXCEPT !.signals = @ \cup {Signal("cancelled", r.wire, "")}]
            [] OTHER -> Fail(t, {r}, m.status)

(* An answer to a request that is not pending any more is dropped. *)
ReadMessage(t) ==
  LET m == Head(t.worker.stdout)
      u == [t EXCEPT !.worker.stdout = Tail(@), !.reading = TRUE]
      asked == {r \in t.pending : r.wire = m.wire}
  IN IF m.wire = Ping.wire THEN HandshakeDone(u)
     ELSE IF asked = {} THEN u
     ELSE Answered(u, CHOOSE r \in asked : TRUE, m)

(* The rest of what HandshakeDone and ReadMessage have to do, after what was    *)
(* heard meanwhile; another process may have been started.                     *)
FlushNow(t) == Flush([t EXCEPT !.flush = FALSE])
ReadOn(t) == [t EXCEPT !.reading = FALSE, !.turn = (t.process = "exited")]

Readable(t) ==
  /\ t.worker.stdout # <<>> /\ t.state # "failed"
  /\ t.process = "running" \/ (t.process = "exited" /\ t.turn)

-----------------------------------------------------------------------------
(* The process, seen from the main loop. *)

(* A process that is put down while it starts never gets to run. *)
Starts(t) == t.process = "starting" /\ t.worker.alive /\ t.worker.killed = "no"

(* The handshake is the first thing a worker hears. *)
ProcessStarted(t) ==
  [t EXCEPT !.process = "running", !.state = "handshaking", !.worker.working = {Ping}]

(* A program that does not start is not reported as finished either. *)
StartFails(t) ==
  FailAll([t EXCEPT !.process = "exited", !.worker = NoWorker, !.state = "failed"],
          "process_start_failed")

(* What a dead worker said is read to its end before it is finished.           *)
Finishes(t) == t.worker.stdout = <<>> \/ t.state = "failed"

ProcessFinished(t) ==
  LET u == [t EXCEPT !.process = "exited", !.turn = TRUE]
  IN IF Finishes(t) THEN FinishProcess(u) ELSE u

-----------------------------------------------------------------------------
(* The worker, on its own. *)

Reply(r, status, session, print) ==
  [wire |-> r.wire, status |-> status, session |-> session, print |-> print]

Said(w, r, m) == [w EXCEPT !.stdout = Append(@, m), !.working = @ \ {r},
                           !.cancels = @ \ {r.wire}]

(* RunOperationAsync: an operation ends with its result, cancelled or with an  *)
(* error.  A session is new with every open, and known by the request that     *)
(* opened it; its fingerprint is that of the archives on disk.                 *)
WorkerAnswers ==
  LET w == transport.worker
  IN \E r \in w.working :
       /\ \/ /\ r.op = "ping"
             /\ transport' = [transport EXCEPT !.worker = Said(w, r, Reply(r, "result", NoSession, 0))]
             /\ UNCHANGED <<disk, faults>>
          \/ /\ r.op \in {"open", "reopen"}
             /\ disk' \in disk..(MaxEdits + 1)
             /\ transport' = [transport EXCEPT
                               !.worker = [Said(w, r, Reply(r, "result", r.wire, disk')) EXCEPT
                                             !.sessions = @ \cup {<<r.wire, disk'>>}]]
             /\ UNCHANGED faults
          \/ /\ r.op \in {"open", "reopen"} /\ faults < MaxFaults
             /\ transport' = [transport EXCEPT
                               !.worker = Said(w, r, Reply(r, "file_sharing", NoSession, 0))]
             /\ faults' = faults + 1 /\ UNCHANGED disk
          \/ /\ r.op \in {"read", "export"}
             /\ LET held == {x \in w.sessions : x[1] = r.session}
                    replies == IF held = {} THEN {Reply(r, "worker_failure", r.session, 0)}
                               ELSE {Reply(r, "result", r.session, x[2]) : x \in held}
                IN \E m \in replies : transport' = [transport EXCEPT !.worker = Said(w, r, m)]
             /\ UNCHANGED <<disk, faults>>
          \/ /\ r.wire \in w.cancels
             /\ transport' = [transport EXCEPT
                               !.worker = Said(w, r, Reply(r, "cancelled", r.session, 0))]
             /\ UNCHANGED <<disk, faults>>
       /\ UNCHANGED deaths

(* The process ends: killed, as it was asked to, or for no known reason.  What *)
(* it said before can still be read.                                           *)
WorkerDies ==
  /\ transport.worker.alive
  /\ IF transport.worker.killed = "no"
     THEN transport.process = "running" /\ deaths < MaxDeaths /\ deaths' = deaths + 1
     ELSE UNCHANGED deaths
  /\ transport' = [transport EXCEPT !.worker.alive = FALSE, !.worker.working = {},
                                    !.worker.cancels = {}]
  /\ UNCHANGED <<disk, faults>>

(* Two seconds after it was asked to end, the process is killed. *)
GraceEnds ==
  /\ transport.worker.alive /\ transport.worker.killed = "asked"
  /\ transport' = [transport EXCEPT !.worker.killed = "forced"]
  /\ UNCHANGED environment

-----------------------------------------------------------------------------
(* The type of the transport. *)

Wire == Nat \X Nat
Operation == {"open", "reopen", "read", "export", "ping"}
Envelope == [wire : Wire, op : Operation, gen : Nat, session : Wire, print : Nat]
Failures == {"stale_generation", "protocol_failure", "startup_timeout", "worker_crashed",
             "client_shutdown", "process_start_failed", "stale_response", "file_sharing",
             "worker_failure"}
Signals == [signal : {"failed", "cancelled", "succeeded", "crashed", "ready"}, wire : Wire,
            code : Failures \cup {""}, session : Wire, print : Nat]
Message == [wire : Wire, status : {"result", "cancelled", "file_sharing", "worker_failure"},
            session : Wire, print : Nat]
Process == [alive : BOOLEAN, killed : {"no", "asked", "forced"}, working : SUBSET Envelope,
            cancels : SUBSET Wire, sessions : SUBSET (Wire \X Nat), stdout : Seq(Message)]
Transport == [state : {"stopped", "starting", "handshaking", "ready", "failed", "stopping"},
              process : {"none", "starting", "running", "exited"}, expected : BOOLEAN,
              restart : BOOLEAN, turn : BOOLEAN, reading : BOOLEAN, flush : BOOLEAN,
              least : Nat, prints : SUBSET (Wire \X Nat), pending : SUBSET Envelope,
              queue : SUBSET Envelope, signals : SUBSET Signals, worker : Process]
=============================================================================
