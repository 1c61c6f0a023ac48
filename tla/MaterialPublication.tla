-------------------------- MODULE MaterialPublication --------------------------
(* How the Mesh Editor gets materials onto its two panes.                      *)
(*                                                                             *)
(* The coordinator of services/mesh_material_publication.py decides which      *)
(* publication compiles, which waits and which is waiting for the renderer;    *)
(* the tab (ui/mesh_editor/tab_dotnet_*.py) owns the counters that say what    *)
(* each pane wants and has, one compiler thread at a time, and the main loop   *)
(* that runs their callbacks.  The renderer is another process: it is modelled *)
(* from the messages the tab sends and the events it accepts.                  *)
EXTENDS Naturals, Sequences

CONSTANTS
  Kinds,          \* what a resolver may ask for: "paired", "imported", "reference"
  MaxPublish,     \* bound: nothing outside the editor asks once so many were numbered
  MaxRevision,    \* bound: geometry edits of the session
  MaxTextures,    \* bound: texture bindings that change the imported materials
  MaxRenewals,    \* bound: renderer processes and packages after the first ones
  MaxFaults       \* bound: failed compiles and updates, and processes that end

Editable == "editable_imported"
Original == "original_reference"
Roles == {Editable, Original}

ASSUME KindsAssumption == Kinds \subseteq {"paired", "imported", "reference"}
ASSUME BoundsAssumption ==
  /\ {MaxPublish, MaxRevision, MaxRenewals, MaxFaults} \subseteq Nat
  /\ MaxTextures \in Nat \ {0}

(* The panes a request of each kind publishes, and the order in which a flush *)
(* goes through the requests that were put off.                               *)
RolesOf(kind) == CASE kind = "paired" -> Roles
                   [] kind = "reference" -> {Original}
                   [] OTHER -> {Editable}
FlushOrder == <<"paired", "imported", "reference">>
PrimaryOf(kind) == IF kind = "reference" THEN Original ELSE Editable

VARIABLES
  tab,        \* the tab's counters: what was numbered, what each pane wants and has
  wanted,     \* kinds put off until the current publication is answered
  cancelled,  \* standalone_dotnet_material_update_cancelled
  session,    \* [revision, textures]: of the edited mesh
  pub,        \* the coordinator: [active, queued, awaiting]
  compiler,   \* the compiler thread: [request, stopped, phase]
  posted,     \* callbacks waiting in the main loop, first in first out
  host,       \* [process, package, token, running]: the renderer as the tab knows it
  renderer,   \* [loaded, holds, resident]: its own package, if loaded, and materials
  pipe,       \* material messages the renderer has yet to read
  replies,    \* renderer events the tab has yet to read
  faults

vars == <<tab, wanted, cancelled, session, pub, compiler, posted, host, renderer,
          pipe, replies, faults>>

NoRequest == [id |-> 0, roles |-> {}, signature |-> 0, revision |-> 0, process |-> 0,
              package |-> 0]
Idle == [request |-> NoRequest, stopped |-> FALSE, phase |-> "none"]
Nothing == [role \in Roles |-> 0]

(* The first package has been loaded: its boundary took the first number. *)
Init ==
  /\ tab = [generation |-> 1, completed |-> 1, desired |-> Nothing,
            completedOf |-> Nothing, applied |-> Nothing, signatureOf |-> Nothing]
  /\ wanted = {} /\ cancelled = FALSE
  /\ session = [revision |-> 0, textures |-> 1]
  /\ pub = [active |-> NoRequest, queued |-> {}, awaiting |-> {}]
  /\ compiler = Idle /\ posted = <<>>
  /\ host = [process |-> 1, package |-> 1, token |-> <<1, 1>>, running |-> TRUE]
  /\ renderer = [loaded |-> 1, holds |-> TRUE, resident |-> Nothing]
  /\ pipe = <<>> /\ replies = <<>> /\ faults = 0

-----------------------------------------------------------------------------
(* The coordinator.  Each operator is one of its methods on [active, queued,   *)
(* awaiting].  The caller always leaves the priority at its default, so the    *)
(* queue is sorted by publish id whenever something is added at its end; work  *)
(* that is coalesced takes the place of its twin until then.                   *)

Entry(place, request) == [place |-> place, request |-> request]
First(queue) == CHOOSE e \in queue : \A f \in queue : e.place <= f.place
Requests(queue) == {e.request : e \in queue}

Coalesces(old, new) ==
  /\ old.roles = new.roles /\ old.signature = new.signature
  /\ old.process = new.process /\ old.package = new.package

(* Identical queued work takes the newcomer's identity in place; otherwise the *)
(* newcomer supersedes queued work for panes it covers and goes to the end.    *)
Enqueue(p, request) ==
  LET twins == {e \in p.queued : Coalesces(e.request, request)}
      twin == First(twins)
      kept == {r \in Requests(p.queued) : ~ (r.roles \subseteq request.roles)}
  IN IF twins # {}
     THEN [p EXCEPT !.queued = (@ \ {twin}) \cup {Entry(twin.place, request)}]
     ELSE [p EXCEPT !.queued = {Entry(r.id, r) : r \in kept \cup {request}}]

CanBegin(p) == p.active = NoRequest /\ p.queued # {}
BeginNext(p) ==
  IF CanBegin(p)
  THEN [p EXCEPT !.active = First(p.queued).request, !.queued = @ \ {First(p.queued)}]
  ELSE p

CancelActive(p) == [p EXCEPT !.active = NoRequest]

(* An answer that names another publication than the active one is ignored. *)
CompleteActive(p, id) == IF p.active.id = id THEN [p EXCEPT !.active = NoRequest] ELSE p
PublishActive(p, id) ==
  IF p.active.id = id
  THEN [p EXCEPT !.active = NoRequest, !.awaiting = @ \cup {p.active}]
  ELSE p

(* The renderer answered; anything the coordinator does not wait for is ignored. *)
Acknowledge(p, id) == [p EXCEPT !.awaiting = {r \in @ : r.id # id}]

CancelAll(p) == [active |-> NoRequest, queued |-> {}, awaiting |-> {}]

(* A new renderer process retires everything meant for another one. *)
Invalidate(p, process) ==
  LET fits(r) == r.process = process
  IN [active |-> IF fits(p.active) THEN p.active ELSE NoRequest,
      queued |-> {e \in p.queued : fits(e.request)},
      awaiting |-> {r \in p.awaiting : fits(r)}]

Outstanding(p) ==
  (({p.active} \cup p.awaiting) \ {NoRequest}) \cup Requests(p.queued)

-----------------------------------------------------------------------------
(* Sending: number the publication, remember what its panes want, queue it. *)

Running(request) == [request |-> request, stopped |-> FALSE, phase |-> "running"]
CompilerBusy == compiler.phase # "none"

(* _start_next_dotnet_material_compile, from coordinator state p *)
StartNext(p) ==
  /\ pub' = BeginNext(p)
  /\ compiler' = IF CanBegin(p) THEN Running(First(p.queued).request) ELSE Idle

(* A plausible slip: the busy compiler's publication is cancelled, its thread is not stopped. *)
QueueUnstopped(request) ==
  /\ cancelled' = FALSE
  /\ LET p == Enqueue(pub, request)
     IN IF CompilerBusy THEN pub' = CancelActive(p) /\ UNCHANGED compiler ELSE StartNext(p)

(* A busy compiler is stopped and its publication cancelled; what was queued *)
(* starts when the thread has been cleaned up.                               *)
Queue(request) ==
  /\ cancelled' = FALSE
  /\ LET p == Enqueue(pub, request)
     IN IF CompilerBusy
        THEN /\ pub' = CancelActive(p)
             /\ compiler' = [compiler EXCEPT !.stopped = TRUE]
        ELSE StartNext(p)

(* The pane already shows exactly these materials and waits for nothing. *)
Deduplicated(role, signature) ==
  /\ signature = tab.signatureOf[role]
  /\ tab.applied[role] > 0
  /\ tab.desired[role] <= tab.completedOf[role]

Publish(roles, signature) ==
  LET id == tab.generation + 1
      request == [id |-> id, roles |-> roles, signature |-> signature,
                  revision |-> session.revision, process |-> host.process,
                  package |-> host.package]
  IN /\ tab' = [tab EXCEPT !.generation = id,
                  !.desired = [r \in Roles |-> IF r \in roles THEN id ELSE @[r]]]
     /\ Queue(request)

(* A snapshot of the working mesh always has the same materials: textures bound *)
(* in the Builder travel in a snapshot of their own.                            *)
WorkingSignature == 1

Send(kind) ==
  IF Deduplicated(PrimaryOf(kind), WorkingSignature)
  THEN UNCHANGED <<tab, cancelled, pub, compiler>>
  ELSE Publish(RolesOf(kind), WorkingSignature)

(* While a publication is unanswered, those that resolvers ask for are put off. *)
Gated == tab.generation > tab.completed

PendingRole(role) == \E r \in Outstanding(pub) : role \in r.roles

(* A resolver finished, or the imported model joined the session; the latter   *)
(* declines when its pane has been published or is about to be.                *)
Ask(kind) ==
  /\ tab.generation < MaxPublish
  /\ kind = "imported" => ~ PendingRole(Editable) /\ tab.applied[Editable] = 0
  /\ IF Gated
     THEN wanted' = wanted \cup {kind} /\ UNCHANGED <<tab, cancelled, pub, compiler>>
     ELSE /\ wanted' = IF kind = "imported" THEN wanted \ {kind} ELSE wanted
          /\ Send(kind)
  /\ UNCHANGED <<session, posted, host, renderer, pipe, replies, faults>>

(* The Builder binds other textures to the imported mesh. *)
BindTextures ==
  /\ tab.generation < MaxPublish
  /\ session.textures < MaxTextures
  /\ session' = [session EXCEPT !.textures = @ + 1]
  /\ Publish({Editable}, session.textures + 1)
  /\ UNCHANGED <<wanted, posted, host, renderer, pipe, replies, faults>>

EditGeometry ==
  /\ session.revision < MaxRevision
  /\ session' = [session EXCEPT !.revision = @ + 1]
  /\ UNCHANGED <<tab, wanted, cancelled, pub, compiler, posted, host, renderer, pipe,
                 replies, faults>>

-----------------------------------------------------------------------------
(* The compiler thread: it answers unless it was stopped first, then ends. *)

CompileEnds ==
  /\ compiler.phase = "running"
  /\ \/ compiler.stopped /\ compiler' = [compiler EXCEPT !.phase = "ended"]
        /\ UNCHANGED faults
     \/ ~ compiler.stopped /\ compiler' = [compiler EXCEPT !.phase = "completed"]
        /\ UNCHANGED faults
     \/ ~ compiler.stopped /\ faults < MaxFaults
        /\ compiler' = [compiler EXCEPT !.phase = "failed"] /\ faults' = faults + 1
  /\ UNCHANGED <<tab, wanted, cancelled, session, pub, posted, host, renderer, pipe,
                 replies>>

Call(what) == [call |-> what, token |-> <<0, 0>>]

(* A plausible slip: nothing is connected to the end of the thread. *)
ThreadExitsUnseen ==
  /\ compiler.phase = "ended"
  /\ compiler' = [compiler EXCEPT !.phase = "exited"]
  /\ UNCHANGED <<tab, wanted, cancelled, session, pub, posted, host, renderer, pipe,
                 replies, faults>>

(* The thread can end only after the main loop handled its answer, so whatever *)
(* that handler posted is ahead of the clean-up.                               *)
ThreadExits ==
  /\ compiler.phase = "ended"
  /\ compiler' = [compiler EXCEPT !.phase = "exited"]
  /\ posted' = Append(posted, Call("cleanup"))
  /\ UNCHANGED <<tab, wanted, cancelled, session, pub, host, renderer, pipe, replies,
                 faults>>

-----------------------------------------------------------------------------
(* The main loop handles what the compiler answered. *)

IsCurrent(request) ==
  /\ ~ cancelled
  /\ request.id = tab.generation
  /\ request.process = host.process
  /\ request.revision = session.revision

Later(a, b) == IF a < b THEN b ELSE a
(* Publication id is over for the panes: nothing more is expected for it. *)
Complete(t, id, roles) ==
  [t EXCEPT !.completed = Later(@, id),
            !.completedOf = [r \in Roles |-> IF r \in roles THEN Later(@[r], id) ELSE @[r]]]

(* A plausible slip: what is no longer current is counted and never sent anew. *)
HandleCompletedUnsent ==
  LET r == compiler.request
  IN /\ compiler.phase = "completed"
     /\ compiler' = [compiler EXCEPT !.phase = "ended"]
     /\ IF IsCurrent(r) /\ host.running
        THEN /\ pub' = PublishActive(pub, r.id)
             /\ pipe' = Append(pipe, [id |-> r.id, roles |-> r.roles,
                                      signature |-> r.signature, package |-> host.package])
             /\ UNCHANGED tab
        ELSE IF IsCurrent(r)
        THEN /\ pub' = CompleteActive(pub, r.id)
             /\ tab' = Complete(tab, r.id, r.roles)
             /\ UNCHANGED pipe
        ELSE UNCHANGED <<tab, pub, pipe>>
     /\ UNCHANGED <<posted, wanted, cancelled, session, host, renderer, replies, faults>>

(* Current: sent to the renderer, or failed when it cannot be.  No longer      *)
(* current: counted, and the working mesh is sent anew if no newer publication *)
(* took its place.                                                             *)
HandleCompleted ==
  LET r == compiler.request
  IN /\ compiler.phase = "completed"
     /\ compiler' = [compiler EXCEPT !.phase = "ended"]
     /\ \/ /\ IsCurrent(r) /\ host.running
           /\ pub' = PublishActive(pub, r.id)
           /\ pipe' = Append(pipe, [id |-> r.id, roles |-> r.roles,
                                    signature |-> r.signature, package |-> host.package])
           /\ UNCHANGED <<tab, posted>>
        \/ /\ IsCurrent(r) /\ ~ host.running
           /\ pub' = CompleteActive(pub, r.id)
           /\ tab' = Complete(tab, r.id, r.roles)
           /\ UNCHANGED <<pipe, posted>>
        \/ /\ ~ IsCurrent(r)
           /\ posted' = IF r.id = tab.generation
                        THEN Append(posted, Call("resend")) ELSE posted
           /\ UNCHANGED <<tab, pub, pipe>>
     /\ UNCHANGED <<wanted, cancelled, session, host, renderer, replies, faults>>

HandleError ==
  LET r == compiler.request
  IN /\ compiler.phase = "failed"
     /\ compiler' = [compiler EXCEPT !.phase = "ended"]
     /\ IF r.id = tab.generation
        THEN /\ pub' = CompleteActive(pub, r.id)
             /\ tab' = Complete(tab, r.id, r.roles)
             /\ posted' = Append(posted, Call("flush"))
        ELSE UNCHANGED <<pub, tab, posted>>
     /\ UNCHANGED <<wanted, cancelled, session, host, renderer, pipe, replies, faults>>

(* Requests that were put off, in order: those already resident are forgotten, *)
(* the first other one is published and closes the gate for the rest.          *)
Flush ==
  LET fresh == {i \in DOMAIN FlushOrder :
                  /\ FlushOrder[i] \in wanted
                  /\ ~ Deduplicated(PrimaryOf(FlushOrder[i]), WorkingSignature)}
      first == CHOOSE i \in fresh : \A j \in fresh : i <= j
  IN IF Gated THEN UNCHANGED <<wanted, tab, cancelled, pub, compiler>>
     ELSE IF fresh = {} THEN wanted' = {} /\ UNCHANGED <<tab, cancelled, pub, compiler>>
     ELSE /\ wanted' = {FlushOrder[j] : j \in (first + 1) .. Len(FlushOrder)} \cap wanted
          /\ Send(FlushOrder[first])

RunPosted ==
  /\ posted # <<>>
  /\ posted' = Tail(posted)
  /\ LET next == Head(posted)
     IN \/ /\ next.call = "cleanup"
           /\ StartNext(pub)
           /\ UNCHANGED <<tab, wanted, cancelled>>
        \/ next.call = "resend" /\ Send("imported") /\ UNCHANGED wanted
        \/ next.call = "flush" /\ Flush
        \/ /\ next.call = "resume"
           /\ IF next.token = host.token
              THEN Flush ELSE UNCHANGED <<tab, wanted, cancelled, pub, compiler>>
  /\ UNCHANGED <<session, host, renderer, pipe, replies, faults>>

-----------------------------------------------------------------------------
(* The renderer: it reads messages and writes events in order. *)

CanRenew == host.process + renderer.loaded < 2 + MaxRenewals

Event(name, id, roles, signature, package) ==
  [event |-> name, id |-> id, roles |-> roles, signature |-> signature,
   process |-> host.process, package |-> package]

RendererUpdates ==
  /\ host.running /\ pipe # <<>>
  /\ pipe' = Tail(pipe)
  /\ LET m == Head(pipe)
     IN \/ /\ renderer' = [renderer EXCEPT
                !.resident = [r \in Roles |-> IF r \in m.roles THEN m.id ELSE @[r]]]
           /\ replies' = Append(replies, Event("applied", m.id, m.roles, m.signature, m.package))
           /\ UNCHANGED faults
        \/ /\ faults < MaxFaults /\ faults' = faults + 1
           /\ replies' = Append(replies, Event("failed", m.id, m.roles, m.signature, m.package))
           /\ UNCHANGED renderer
  /\ UNCHANGED <<tab, wanted, cancelled, session, pub, compiler, posted, host>>

(* A package takes the materials with it; a new process first loads the one the *)
(* last process had.                                                            *)
RendererLoads ==
  /\ host.running
  /\ renderer.holds => CanRenew
  /\ LET package == IF renderer.holds THEN renderer.loaded + 1 ELSE renderer.loaded
     IN /\ renderer' = [loaded |-> package, holds |-> TRUE, resident |-> Nothing]
        /\ replies' = Append(replies, Event("package", 0, {}, 0, package))
  /\ UNCHANGED <<tab, wanted, cancelled, session, pub, compiler, posted, host, pipe, faults>>

RendererWantsSync ==
  /\ host.running /\ renderer.holds
  /\ tab.generation < MaxPublish
  /\ \A i \in DOMAIN replies : replies[i].event # "sync"
  /\ replies' = Append(replies, Event("sync", 0, {}, 0, renderer.loaded))
  /\ UNCHANGED <<tab, wanted, cancelled, session, pub, compiler, posted, host, renderer,
                 pipe, faults>>

RendererDies ==
  /\ host.running
  /\ faults < MaxFaults /\ faults' = faults + 1
  /\ host' = [host EXCEPT !.running = FALSE]
  /\ pipe' = <<>>
  /\ UNCHANGED <<tab, wanted, cancelled, session, pub, compiler, posted, renderer, replies>>

-----------------------------------------------------------------------------
(* The tab handles renderer events and processes. *)

Stopped == IF CompilerBusy THEN [compiler EXCEPT !.stopped = TRUE] ELSE compiler

(* _cancel_dotnet_material_compile *)
CancelCompile ==
  /\ cancelled' = TRUE
  /\ pub' = CancelAll(pub)
  /\ compiler' = Stopped

(* The tab stops the renderer itself. *)
StopEditor ==
  /\ host.running
  /\ faults < MaxFaults /\ faults' = faults + 1
  /\ host' = [host EXCEPT !.running = FALSE]
  /\ pipe' = <<>>
  /\ CancelCompile
  /\ UNCHANGED <<tab, wanted, session, posted, renderer, replies>>

(* A new process: whatever was meant for the old one is retired. *)
RendererStarts ==
  /\ ~ host.running /\ CanRenew
  /\ host' = [host EXCEPT !.running = TRUE, !.process = @ + 1]
  /\ renderer' = [renderer EXCEPT !.holds = FALSE, !.resident = Nothing]
  /\ pub' = Invalidate(pub, host.process + 1)
  /\ UNCHANGED <<tab, wanted, cancelled, session, compiler, posted, pipe, replies, faults>>

(* A plausible slip: the numbers move on and what the panes have is kept. *)
PackageAppliedOver(e) ==
  LET token == <<host.process, e.package>>
      boundary == Later(tab.generation, tab.completed) + 1
  IN /\ host' = [host EXCEPT !.package = e.package, !.token = token]
     /\ IF token = host.token
        THEN UNCHANGED <<tab, cancelled, pub, compiler, posted>>
        ELSE /\ CancelCompile
             /\ tab' = [tab EXCEPT !.generation = boundary, !.completed = boundary]
             /\ posted' = Append(posted, [call |-> "resume", token |-> token])

(* Everything known of the panes belonged to the package that is gone: work is *)
(* cancelled and a number is used up, so that no late answer fits.             *)
PackageApplied(e) ==
  LET token == <<host.process, e.package>>
      boundary == Later(tab.generation, tab.completed) + 1
  IN /\ host' = [host EXCEPT !.package = e.package, !.token = token]
     /\ IF token = host.token
        THEN UNCHANGED <<tab, cancelled, pub, compiler, posted>>
        ELSE /\ CancelCompile
             /\ tab' = [generation |-> boundary, completed |-> boundary,
                        desired |-> Nothing, completedOf |-> Nothing,
                        applied |-> Nothing, signatureOf |-> Nothing]
             /\ posted' = Append(posted, [call |-> "resume", token |-> token])

(* An acknowledgement counts when it is for this package and the newest number. *)
Acknowledges(e) ==
  /\ e.package = host.package
  /\ e.id > tab.completed
  /\ e.id = tab.generation

MaterialAnswered(e) ==
  IF ~ Acknowledges(e) THEN UNCHANGED <<tab, pub, posted>>
  ELSE /\ pub' = Acknowledge(pub, e.id)
       /\ posted' = Append(posted, Call("flush"))
       /\ LET t == Complete(tab, e.id, e.roles)
              put(f, x) == [r \in Roles |-> IF r \in e.roles THEN x ELSE f[r]]
          IN tab' = IF e.event = "failed" THEN t
                    ELSE [t EXCEPT !.applied = put(@, e.id),
                                   !.signatureOf = put(@, e.signature)]

HandleReply ==
  /\ replies # <<>>
  /\ replies' = Tail(replies)
  /\ LET e == Head(replies)
     IN \/ /\ e.process # host.process
           /\ UNCHANGED <<tab, cancelled, pub, compiler, posted, host>>
        \/ e.process = host.process /\ e.event = "package" /\ PackageApplied(e)
        \/ /\ e.process = host.process /\ e.event = "sync"
           /\ Publish({Editable}, WorkingSignature)
           /\ UNCHANGED <<posted, host>>
        \/ /\ e.process = host.process /\ e.event \in {"applied", "failed"}
           /\ MaterialAnswered(e)
           /\ UNCHANGED <<cancelled, compiler, host>>
  /\ UNCHANGED <<wanted, session, renderer, pipe, faults>>

-----------------------------------------------------------------------------
Next ==
  \/ \E kind \in Kinds : Ask(kind)
  \/ BindTextures \/ EditGeometry
  \/ CompileEnds \/ ThreadExits \/ HandleCompleted \/ HandleError \/ RunPosted
  \/ RendererUpdates \/ RendererLoads \/ RendererWantsSync \/ RendererDies
  \/ StopEditor \/ RendererStarts \/ HandleReply

Spec == Init /\ [][Next]_vars

(* The compiler thread and the main loop keep running; the renderer owes nothing. *)
FairSpec ==
  /\ Spec
  /\ WF_vars(CompileEnds) /\ WF_vars(ThreadExits)
  /\ WF_vars(HandleCompleted \/ HandleError) /\ WF_vars(RunPosted)

-----------------------------------------------------------------------------
Packages == 0 .. (1 + MaxRenewals)
Signatures == 0 .. MaxTextures

Tab == [generation : Nat, completed : Nat, desired : [Roles -> Nat],
        completedOf : [Roles -> Nat], applied : [Roles -> Nat],
        signatureOf : [Roles -> Signatures]]
Request == [id : Nat, roles : SUBSET Roles, signature : Signatures,
            revision : 0 .. MaxRevision, process : Packages, package : Packages]
Coordinator == [active : Request, queued : SUBSET [place : Nat, request : Request],
                awaiting : SUBSET Request]
Phases == {"none", "running", "completed", "failed", "ended", "exited"}
Callback == [call : {"cleanup", "resend", "flush", "resume"}, token : Packages \X Packages]
Message == [id : Nat, roles : SUBSET Roles, signature : Signatures, package : Packages]
Reply == [event : {"applied", "failed", "package", "sync"}, id : Nat, roles : SUBSET Roles,
          signature : Signatures, process : Packages, package : Packages]

(* Every variable holds a value of the kind its comment names. *)
TypeOK ==
  /\ tab \in Tab
  /\ wanted \subseteq Kinds /\ cancelled \in BOOLEAN
  /\ session \in [revision : 0 .. MaxRevision, textures : 1 .. MaxTextures]
  /\ pub \in Coordinator
  /\ compiler \in [request : Request, stopped : BOOLEAN, phase : Phases]
  /\ posted \in Seq(Callback)
  /\ host \in [process : Packages \ {0}, package : Packages \ {0},
               token : Packages \X Packages, running : BOOLEAN]
  /\ renderer \in [loaded : Packages \ {0}, holds : BOOLEAN, resident : [Roles -> Nat]]
  /\ pipe \in Seq(Message)
  /\ replies \in Seq(Reply)
  /\ faults \in 0 .. MaxFaults

(* A pane counts as textured when what it last asked for was applied. *)
Ready(role) ==
  /\ tab.applied[role] > 0
  /\ tab.applied[role] >= tab.desired[role]
  /\ tab.completedOf[role] >= tab.desired[role]

InStep == host.running /\ host.token = <<host.process, renderer.loaded>>

(* The pane the tab calls textured is textured: while the renderer holds the    *)
(* package the tab knows of, it shows the very publication the pane last asked  *)
(* for, whatever late, foreign or repeated answers arrived.                     *)
ReadyMeansResident ==
  InStep => \A role \in Roles : Ready(role) => renderer.resident[role] = tab.desired[role]

(* A compile that nobody stopped is the coordinator's active publication, or    *)
(* belongs to a renderer process that is gone: no result can come from work the *)
(* coordinator has forgotten.                                                   *)
NoOrphanCompile ==
  compiler.phase = "running" /\ ~ compiler.stopped
    => \/ pub.active = compiler.request
       \/ compiler.request.process # host.process

(* The gate that puts resolvers off always has a key: while publications wait  *)
(* for the newest number to be answered, the coordinator holds the request of  *)
(* that number and, if it is the active one, a compiler thread that has yet to *)
(* leave.  So a compile that ends out of date is sent anew before its thread   *)
(* is cleaned up.  A request for the original's pane alone may not be: what is *)
(* sent anew is the imported mesh, which may already be resident.              *)
GateHasKey ==
  Gated /\ host.running /\ host.token[1] = host.process
    => \E r \in Outstanding(pub) :
         /\ r.id = tab.generation
         /\ r = pub.active => CompilerBusy \/ Editable \notin r.roles

(* The active publication has no compiler thread: nothing will ever settle it. *)
SlotLost == pub.active # NoRequest /\ ~ CompilerBusy

(* What waits in the queue is compiled, superseded or cancelled in the end,     *)
(* unless the slot was lost.                                                    *)
QueueDrains == pub.queued # {} ~> (pub.queued = {} \/ SlotLost)
=============================================================================
