--------------------- MODULE MaterialPublicationProofs ---------------------
(***************************************************************************)
(* What the publication of materials promises, for any number of edits,    *)
(* textures, compiles, package changes, restarts and faults: a forgotten   *)
(* compile is asked to stop, a closed gate has a key, and a pane called    *)
(* textured is textured.                                                   *)
(*                                                                         *)
(* Publish ids carry the argument.  An id is given to one request only     *)
(* (Numbered), the newest one is queued, compiled, on its way or answered  *)
(* but never two of these (SentOnce), and what carries it names only panes *)
(* that asked for just that (Wanted); so an answer that is applied with    *)
(* the newest id is of what the renderer holds (Resident).  Loaded says    *)
(* why answers of an earlier process or package cannot interfere: the tab  *)
(* learns of a package only after the renderer has loaded it.              *)
(*                                                                         *)
(* A step is classified by what it may do to the ids, not by its action    *)
(* (Moves): it settles a compile, orders one, cleans up, sends, announces, *)
(* renews, or is of the renderer.  Each kind keeps the invariant.          *)
(***************************************************************************)
EXTENDS MaterialPublication, WellFoundedInduction, TLAPS

(* A compile whose answer the main loop has yet to handle. *)
Compiling == compiler.phase \in {"running", "completed", "failed"}
Queued == Requests(pub.queued)
Distinct(queue) == \A e, f \in queue : e.request.id = f.request.id => e = f

(* The answers to material messages of the process that runs. *)
Answers == {i \in DOMAIN replies : /\ replies[i].process = host.process
                                   /\ replies[i].event \in {"applied", "failed"}}

Bounded ==
  /\ host.process + renderer.loaded <= 2 + MaxRenewals
  /\ \A i \in DOMAIN replies : replies[i].event = "package" => replies[i].package # 0

(* What a pane has was asked for, was answered, and has a number. *)
Counted ==
  /\ 0 < tab.generation /\ tab.completed <= tab.generation
  /\ \A role \in Roles :
       /\ tab.applied[role] <= tab.desired[role] /\ tab.desired[role] <= tab.generation
       /\ tab.applied[role] <= tab.completedOf[role]
       /\ tab.completedOf[role] <= tab.completed

(* Nothing has a number that was not given, or is of a process to come. *)
Numbered ==
  /\ \A r \in Queued : 0 < r.id /\ r.id <= tab.generation /\ r.process <= host.process
  /\ pub.active.process <= host.process
  /\ compiler.request.id <= tab.generation /\ compiler.request.process <= host.process
  /\ Compiling => 0 < compiler.request.id
  /\ \A j \in DOMAIN pipe : 0 < pipe[j].id /\ pipe[j].id <= tab.generation
  /\ \A i \in DOMAIN replies :
       replies[i].id <= tab.generation /\ replies[i].process <= host.process

(* A number is compiled once and sent once, in the order of the numbers. *)
SentOnce ==
  /\ Distinct(pub.queued)
  /\ Compiling => \A r \in Queued : r.id # compiler.request.id
  /\ (Compiling /\ compiler.request.id = tab.generation)
       \/ (\E r \in Queued : r.id = tab.generation)
     => /\ tab.completed < tab.generation
        /\ \A j \in DOMAIN pipe : pipe[j].id # tab.generation
        /\ \A i \in Answers : replies[i].id # tab.generation
  /\ \A j, k \in DOMAIN pipe : j < k => pipe[j].id < pipe[k].id
  /\ \A i \in Answers, j \in DOMAIN pipe : replies[i].id < pipe[j].id
  /\ ~ host.running => pipe = <<>>

(* Whatever has the newest number is for panes that asked for just that. *)
Wanted ==
  tab.completed < tab.generation =>
    \A role \in Roles :
      \/ tab.desired[role] = tab.generation
      \/ /\ \A r \in Queued : r.id = tab.generation => role \notin r.roles
         /\ Compiling /\ compiler.request.id = tab.generation
              => role \notin compiler.request.roles
         /\ \A j \in DOMAIN pipe : pipe[j].id = tab.generation => role \notin pipe[j].roles
         /\ \A i \in Answers : replies[i].id = tab.generation => role \notin replies[i].roles

(* The token of the package is never ahead of the renderer. *)
Loaded ==
  /\ host.token[1] <= host.process
  /\ host.token[1] = host.process => host.token[2] <= renderer.loaded /\ renderer.holds
  /\ \A i \in DOMAIN replies :
       replies[i].process = host.process /\ replies[i].event = "package" =>
         replies[i].package <= renderer.loaded /\ renderer.holds

(* Between a message and its answer. *)
Resident ==
  InStep =>
    \A role \in Roles :
      /\ tab.applied[role] > 0 /\ tab.applied[role] = tab.desired[role] =>
           renderer.resident[role] = tab.desired[role]
      /\ tab.applied[role] > 0 =>
           \A j \in DOMAIN pipe : role \in pipe[j].roles =>
             tab.applied[role] < pipe[j].id /\ pipe[j].id <= tab.desired[role]
      /\ \A i \in Answers :
           replies[i].event = "applied" /\ role \in replies[i].roles
             /\ replies[i].id = tab.generation /\ tab.completed < tab.generation
             => renderer.resident[role] = tab.generation

(* The newest number is in the coordinator's hands until it is answered. *)
KeyHeld ==
  Gated /\ host.running /\ host.token[1] = host.process
    => \E r \in Outstanding(pub) : r.id = tab.generation

Invariant == Bounded /\ Counted /\ Numbered /\ SentOnce /\ Wanted /\ Loaded /\ Resident
               /\ NoOrphanCompile /\ KeyHeld

-----------------------------------------------------------------------------
(* The coordinator's queue. *)

Entries == [place : Nat, request : Request]

LEMMA LeastNumber ==
  ASSUME NEW S, S \subseteq Nat, S # {}
  PROVE  \E n \in S : \A m \in S : n <= m
  <1> DEFINE R == OpToRel(<, Nat)
  <1>1. \A m, n \in Nat : <<m, n>> \in R <=> m < n
    BY DEF OpToRel
  <1>2. IsWellFoundedOn(R, Nat)
    BY NatLessThanWellFounded
  <1> HIDE DEF R
  <1>3. PICK n \in S : \A m \in S : ~ (<<m, n>> \in R)
    BY <1>2, WFMin
  <1>4. ASSUME NEW m \in S PROVE n <= m
    <2>1. m \in Nat /\ n \in Nat /\ ~ (<<m, n>> \in R)
      BY <1>3
    <2>2. ~ (m < n)
      BY <1>1, <2>1
    <2> HIDE <1>1
    <2> QED BY <2>1, <2>2
  <1> QED BY <1>4

LEMMA FirstIn ==
  ASSUME NEW Q, Q \subseteq Entries, Q # {}
  PROVE  First(Q) \in Q
  <1> DEFINE S == {e.place : e \in Q}
  <1>1. S \subseteq Nat /\ S # {}
    BY DEF Entries
  <1>2. PICK n \in S : \A m \in S : n <= m
    BY <1>1, LeastNumber
  <1>3. PICK e \in Q : e.place = n
    OBVIOUS
  <1>4. \A f \in Q : e.place <= f.place
    BY <1>2, <1>3
  <1> QED BY <1>4 DEF First

(* Enqueue adds the newcomer and invents nothing else. *)
LEMMA Enqueues ==
  ASSUME NEW p \in Coordinator,
         NEW request \in Request
  PROVE  /\ Enqueue(p, request) \in [active : {p.active}, queued : SUBSET Entries,
                                    awaiting : {p.awaiting}]
         /\ request \in Requests(Enqueue(p, request).queued)
         /\ Requests(Enqueue(p, request).queued) \subseteq Requests(p.queued) \cup {request}
         /\ /\ Distinct(p.queued)
            /\ \A r \in Requests(p.queued) : r.id # request.id
            => Distinct(Enqueue(p, request).queued)
  <1> DEFINE twins == {e \in p.queued : Coalesces(e.request, request)}
             twin == First(twins)
             kept == {r \in Requests(p.queued) : ~ (r.roles \subseteq request.roles)}
             replaced == (p.queued \ {twin}) \cup {Entry(twin.place, request)}
             sorted == {Entry(r.id, r) : r \in kept \cup {request}}
             q == Enqueue(p, request)
  <1> USE DEF Coordinator, Entries
  <1>1. p.queued \subseteq Entries
    OBVIOUS
  <1>2. CASE twins # {}
    <2>1. twin \in p.queued /\ twin \in Entries
      BY <1>1, <1>2, FirstIn
    <2>2. Entry(twin.place, request) \in Entries
      BY <2>1 DEF Entries, Entry
    <2> HIDE DEF twin
    <2>3. q = [p EXCEPT !.queued = replaced]
      BY <1>2 DEF Enqueue, twin
    <2>4. replaced \subseteq Entries
      BY <1>1, <2>2
    <2>5. Entry(twin.place, request).request = request
      BY DEF Entry
    <2> HIDE DEF replaced
    <2>6. /\ q \in [active : {p.active}, queued : SUBSET Entries, awaiting : {p.awaiting}]
          /\ q.queued = replaced
      BY <2>3, <2>4
    <2> QED BY <2>1, <2>5, <2>6 DEF Requests, Distinct, replaced
  <1>3. CASE twins = {}
    <2>1. q = [p EXCEPT !.queued = sorted]
      BY <1>3 DEF Enqueue
    <2>2. \A r \in Request : Entry(r.id, r) \in Entries /\ Entry(r.id, r).request = r
      BY DEF Entries, Entry, Request
    <2>3. kept \subseteq Request /\ kept \subseteq Requests(p.queued)
      BY <1>1 DEF Requests, Entries
    <2>4. sorted \subseteq Entries
      BY <2>2, <2>3
    <2> HIDE DEF sorted, kept
    <2>5. /\ q \in [active : {p.active}, queued : SUBSET Entries, awaiting : {p.awaiting}]
          /\ q.queued = sorted
      BY <2>1, <2>4
    <2>6. Requests(sorted) = kept \cup {request}
      BY <2>2, <2>3 DEF Requests, sorted
    <2>7. ASSUME Distinct(p.queued), \A r \in Requests(p.queued) : r.id # request.id
          PROVE  Distinct(sorted)
      <3>1. \A r, t \in kept \cup {request} : r.id = t.id => r = t
        BY <2>3, <2>7 DEF Distinct, Requests
      <3>2. \A e \in sorted : \E r \in kept \cup {request} : e = Entry(r.id, r) /\ e.request = r
        BY <2>2, <2>3 DEF sorted
      <3> QED BY <3>1, <3>2 DEF Distinct
    <2> QED BY <2>3, <2>5, <2>6, <2>7
  <1> QED BY <1>2, <1>3

(* BeginNext takes one request off the queue, and no other of its number stays. *)
LEMMA Begins ==
  ASSUME NEW p \in Coordinator,
         CanBegin(p)
  PROVE  /\ First(p.queued).request \in Requests(p.queued)
         /\ First(p.queued).request \in Request
         /\ BeginNext(p) \in [active : {First(p.queued).request}, queued : SUBSET Entries,
                             awaiting : {p.awaiting}]
         /\ Requests(p.queued) = Requests(BeginNext(p).queued) \cup {First(p.queued).request}
         /\ Distinct(p.queued) =>
              /\ Distinct(BeginNext(p).queued)
              /\ \A r \in Requests(BeginNext(p).queued) : r.id # First(p.queued).request.id
  <1> DEFINE e == First(p.queued)
             rest == p.queued \ {e}
  <1> USE DEF Coordinator, Entries
  <1>1. p.queued \subseteq Entries /\ p.queued # {}
    BY DEF CanBegin
  <1>2. e \in p.queued
    BY <1>1, FirstIn
  <1>3. e.request \in Requests(p.queued) /\ e.request \in Request
    BY <1>1, <1>2 DEF Requests, Entries
  <1> HIDE DEF e
  <1>4. BeginNext(p) = [p EXCEPT !.active = e.request, !.queued = rest]
    BY DEF BeginNext, e
  <1>5. /\ BeginNext(p) \in [active : {e.request}, queued : SUBSET Entries,
                            awaiting : {p.awaiting}]
        /\ BeginNext(p).queued = rest
    BY <1>1, <1>3, <1>4
  <1>6. Requests(p.queued) = Requests(rest) \cup {e.request}
    BY <1>2 DEF Requests
  <1>7. Distinct(p.queued) => Distinct(rest) /\ \A r \in Requests(rest) : r.id # e.request.id
    BY <1>2 DEF Distinct, Requests
  <1> QED BY <1>3, <1>5, <1>6, <1>7 DEF e

LEMMA NoRequestTyped == NoRequest \in Request /\ Idle.request = NoRequest
BY BoundsAssumption DEF NoRequest, Request, Packages, Signatures, Idle

LEMMA QueuedTyped == TypeOK => Queued \subseteq Request
BY DEF TypeOK, Coordinator, Queued, Requests


-----------------------------------------------------------------------------
(* Sending: what the operators on the coordinator and the compiler come to. *)

LEMMA Restarts ==
  ASSUME NEW p \in Coordinator, StartNext(p)
  PROVE  /\ pub' \in Coordinator /\ pub'.awaiting = p.awaiting
         /\ compiler' \in [request : Request, stopped : BOOLEAN, phase : Phases]
         /\ Distinct(p.queued) => Distinct(pub'.queued)
         /\ \/ /\ CanBegin(p)
               /\ compiler'.request = pub'.active /\ ~ compiler'.stopped
               /\ compiler'.phase = "running"
               /\ Requests(p.queued) = Requests(pub'.queued) \cup {pub'.active}
               /\ Distinct(p.queued) =>
                    \A r \in Requests(pub'.queued) : r.id # pub'.active.id
            \/ ~ CanBegin(p) /\ compiler' = Idle /\ pub' = p
  <1>1. CASE CanBegin(p)
    <2> DEFINE r == First(p.queued).request
    <2>1. pub' = BeginNext(p) /\ compiler' = Running(r)
      BY <1>1 DEF StartNext
    <2>2. /\ r \in Request
          /\ pub' \in [active : {r}, queued : SUBSET Entries, awaiting : {p.awaiting}]
          /\ Requests(p.queued) = Requests(pub'.queued) \cup {r}
          /\ Distinct(p.queued) =>
               Distinct(pub'.queued) /\ \A t \in Requests(pub'.queued) : t.id # r.id
      BY <1>1, <2>1, Begins
    <2> HIDE DEF r
    <2>3. compiler' \in [request : {r}, stopped : {FALSE}, phase : {"running"}]
      BY <2>1 DEF Running
    <2> QED BY <1>1, <2>2, <2>3 DEF Coordinator, Entries, Phases
  <1>2. CASE ~ CanBegin(p)
    BY <1>2, NoRequestTyped DEF StartNext, BeginNext, Idle, Phases
  <1> QED BY <1>1, <1>2

(* A request numbered next, on its way to the panes that now wait for it. *)
Sends(request) ==
  /\ request \in Request /\ request.id = tab.generation + 1 /\ request.process = host.process
  /\ tab' \in Tab /\ tab'.generation = request.id
  /\ UNCHANGED <<tab.completed, tab.completedOf, tab.applied>>
  /\ \A role \in Roles :
       tab'.desired[role] = IF role \in request.roles THEN request.id ELSE tab.desired[role]
  /\ cancelled' = FALSE
  /\ pub' \in Coordinator
  /\ compiler' \in [request : Request, stopped : BOOLEAN, phase : Phases]
  /\ Requests(pub'.queued) \subseteq Queued \cup {request}
  /\ Distinct(pub.queued) /\ (\A r \in Queued : r.id <= tab.generation)
       => Distinct(pub'.queued)
  /\ \/ /\ pub'.active = NoRequest /\ request \in Requests(pub'.queued)
        /\ compiler'.stopped /\ compiler'.request = compiler.request
        /\ compiler'.phase = compiler.phase /\ compiler.phase # "none"
     \/ /\ compiler' = Idle /\ compiler.phase = "none"
        /\ request \in Requests(pub'.queued) /\ pub'.active = pub.active
     \/ /\ compiler'.request = pub'.active /\ ~ compiler'.stopped
        /\ compiler'.phase = "running" /\ compiler.phase = "none"
        /\ request \in Requests(pub'.queued) \cup {pub'.active}
        /\ pub'.active \in Queued \cup {request}
        /\ Distinct(pub.queued) /\ (\A r \in Queued : r.id <= tab.generation)
             => \A r \in Requests(pub'.queued) : r.id # pub'.active.id

LEMMA Publishes ==
  ASSUME TypeOK, NEW roles \in SUBSET Roles, NEW signature \in Signatures,
         Publish(roles, signature)
  PROVE  \E request \in Request : request.roles = roles /\ Sends(request)
  <1> DEFINE id == tab.generation + 1
             request == [id |-> id, roles |-> roles, signature |-> signature,
                         revision |-> session.revision, process |-> host.process,
                         package |-> host.package]
             p == Enqueue(pub, request)
  <1>1. /\ tab \in Tab /\ pub \in Coordinator /\ id \in Nat
        /\ compiler \in [request : Request, stopped : BOOLEAN, phase : Phases]
    BY DEF TypeOK, Tab
  <1>2. request \in Request /\ request.id = id /\ request.roles = roles
        /\ request.process = host.process
    BY <1>1 DEF TypeOK, Request
  <1>3. /\ tab' = [tab EXCEPT !.generation = id,
                     !.desired = [r \in Roles |-> IF r \in roles THEN id ELSE @[r]]]
        /\ Queue(request)
    BY DEF Publish
  <1> HIDE DEF request, id
  <1>4. /\ tab' \in Tab /\ tab'.generation = id
        /\ UNCHANGED <<tab.completed, tab.completedOf, tab.applied>>
        /\ \A role \in Roles :
             tab'.desired[role] = IF role \in roles THEN id ELSE tab.desired[role]
    BY <1>1, <1>3 DEF Tab
  <1>5. /\ p \in [active : {pub.active}, queued : SUBSET Entries, awaiting : {pub.awaiting}]
        /\ request \in Requests(p.queued)
        /\ Requests(p.queued) \subseteq Queued \cup {request}
        /\ Distinct(pub.queued) /\ (\A r \in Queued : r.id # id) => Distinct(p.queued)
    BY <1>1, <1>2, Enqueues DEF Queued
  <1> HIDE DEF p
  <1>6. p \in Coordinator /\ p.active = pub.active
    BY <1>1, <1>5 DEF Coordinator, Entries
  <1>7. (\A r \in Queued : r.id <= tab.generation) => \A r \in Queued : r.id # id
    <2>1. tab.generation \in Nat /\ \A r \in Queued : r.id \in Nat
      BY <1>1, QueuedTyped DEF Tab, Request
    <2> QED BY <2>1 DEF id
  <1>8. CASE CompilerBusy
    <2>1. /\ pub' = [p EXCEPT !.active = NoRequest]
          /\ compiler' = [compiler EXCEPT !.stopped = TRUE]
          /\ cancelled' = FALSE
      BY <1>3, <1>8 DEF Queue, CancelActive, p
    <2>2. pub' \in [active : {NoRequest}, queued : {p.queued}, awaiting : {p.awaiting}]
          /\ pub' \in Coordinator
      BY <1>6, <2>1, NoRequestTyped DEF Coordinator
    <2>3. /\ compiler' \in [request : Request, stopped : BOOLEAN, phase : Phases]
          /\ compiler'.stopped /\ compiler'.request = compiler.request
          /\ compiler'.phase = compiler.phase /\ compiler.phase # "none"
      BY <1>1, <1>8, <2>1 DEF CompilerBusy
    <2> QED BY <1>2, <1>4, <1>5, <1>7, <2>1, <2>2, <2>3 DEF Sends, id
  <1>9. CASE ~ CompilerBusy
    <2>1. StartNext(p) /\ cancelled' = FALSE /\ compiler.phase = "none"
      BY <1>3, <1>9 DEF Queue, CompilerBusy, p
    <2>2. /\ pub' \in Coordinator
          /\ compiler' \in [request : Request, stopped : BOOLEAN, phase : Phases]
          /\ Distinct(p.queued) => Distinct(pub'.queued)
          /\ \/ /\ compiler'.request = pub'.active /\ ~ compiler'.stopped
                /\ compiler'.phase = "running"
                /\ Requests(p.queued) = Requests(pub'.queued) \cup {pub'.active}
                /\ Distinct(p.queued) =>
                     \A r \in Requests(pub'.queued) : r.id # pub'.active.id
             \/ ~ CanBegin(p) /\ compiler' = Idle /\ pub' = p
      BY <1>6, <2>1, Restarts
    <2> QED BY <1>2, <1>4, <1>5, <1>6, <1>7, <2>1, <2>2 DEF Sends, id
  <1> QED BY <1>8, <1>9


-----------------------------------------------------------------------------
(* Types. *)

LEMMA SendDoes ==
  ASSUME TypeOK, NEW kind, Send(kind)
  PROVE  \/ UNCHANGED <<tab, cancelled, pub, compiler>>
         \/ \E request \in Request : Sends(request)
  <1>1. RolesOf(kind) \in SUBSET Roles /\ WorkingSignature \in Signatures
    BY BoundsAssumption DEF RolesOf, Roles, WorkingSignature, Signatures
  <1> QED BY <1>1, Publishes DEF Send

LEMMA FlushDoes ==
  ASSUME TypeOK, Flush
  PROVE  /\ \/ UNCHANGED <<tab, cancelled, pub, compiler>>
            \/ \E request \in Request : Sends(request)
         /\ wanted' \subseteq Kinds
  <1>1. wanted \subseteq Kinds
    BY DEF TypeOK
  <1> QED BY <1>1, SendDoes DEF Flush

Sending == \E request \in Request : Sends(request)

LEMMA SendTyped ==
  ASSUME Sending
  PROVE  /\ tab' \in Tab /\ cancelled' \in BOOLEAN /\ pub' \in Coordinator
         /\ compiler' \in [request : Request, stopped : BOOLEAN, phase : Phases]
BY DEF Sending, Sends

LEMMA CallTyped ==
  \A what \in {"cleanup", "resend", "flush"} : Call(what) \in Callback
BY BoundsAssumption DEF Call, Callback, Packages

LEMMA Completes ==
  ASSUME TypeOK, NEW id \in Nat, NEW roles \in SUBSET Roles
  PROVE  /\ Complete(tab, id, roles) \in Tab
         /\ Complete(tab, id, roles) \in
              [generation : {tab.generation}, completed : {Later(tab.completed, id)},
               desired : {tab.desired},
               completedOf : {[r \in Roles |-> IF r \in roles THEN Later(tab.completedOf[r], id)
                                              ELSE tab.completedOf[r]]},
               applied : {tab.applied}, signatureOf : {tab.signatureOf}]
  <1>1. tab \in Tab
    BY DEF TypeOK
  <1>2. Later(tab.completed, id) \in Nat
    BY <1>1 DEF Tab, Later
  <1>3. \A r \in Roles : Later(tab.completedOf[r], id) \in Nat
    BY <1>1 DEF Tab, Later
  <1> HIDE DEF Later
  <1> QED BY <1>1, <1>2, <1>3 DEF Complete, Tab

(* The other methods of the coordinator. *)
LEMMA Settles ==
  ASSUME NEW p \in Coordinator, NEW id \in Nat
  PROVE  /\ CompleteActive(p, id) \in
              [active : {IF p.active.id = id THEN NoRequest ELSE p.active},
               queued : {p.queued}, awaiting : {p.awaiting}]
         /\ PublishActive(p, id) \in
              [active : {IF p.active.id = id THEN NoRequest ELSE p.active},
               queued : {p.queued},
               awaiting : {IF p.active.id = id THEN p.awaiting \cup {p.active}
                                               ELSE p.awaiting}]
         /\ Acknowledge(p, id) \in
              [active : {p.active}, queued : {p.queued},
               awaiting : {{r \in p.awaiting : r.id # id}}]
         /\ Invalidate(p, id) \in
              [active : {IF p.active.process = id THEN p.active ELSE NoRequest},
               queued : {{e \in p.queued : e.request.process = id}},
               awaiting : {{r \in p.awaiting : r.process = id}}]
         /\ CancelAll(p) \in [active : {NoRequest}, queued : {{}}, awaiting : {{}}]
  <1> USE DEF Coordinator
  <1> HIDE DEF NoRequest
  <1>1. CompleteActive(p, id) \in
              [active : {IF p.active.id = id THEN NoRequest ELSE p.active},
               queued : {p.queued}, awaiting : {p.awaiting}]
    BY DEF CompleteActive
  <1>2. PublishActive(p, id) \in
              [active : {IF p.active.id = id THEN NoRequest ELSE p.active},
               queued : {p.queued},
               awaiting : {IF p.active.id = id THEN p.awaiting \cup {p.active}
                                               ELSE p.awaiting}]
    BY DEF PublishActive
  <1>3. Acknowledge(p, id) \in
              [active : {p.active}, queued : {p.queued},
               awaiting : {{r \in p.awaiting : r.id # id}}]
    BY DEF Acknowledge
  <1>4. Invalidate(p, id) \in
              [active : {IF p.active.process = id THEN p.active ELSE NoRequest},
               queued : {{e \in p.queued : e.request.process = id}},
               awaiting : {{r \in p.awaiting : r.process = id}}]
    BY DEF Invalidate
  <1>5. CancelAll(p) \in [active : {NoRequest}, queued : {{}}, awaiting : {{}}]
    BY DEF CancelAll
  <1> QED BY <1>1, <1>2, <1>3, <1>4, <1>5

LEMMA SettlesTyped ==
  ASSUME NEW p \in Coordinator, NEW id \in Nat
  PROVE  /\ CompleteActive(p, id) \in Coordinator /\ PublishActive(p, id) \in Coordinator
         /\ Acknowledge(p, id) \in Coordinator /\ Invalidate(p, id) \in Coordinator
         /\ CancelAll(p) \in Coordinator
BY NoRequestTyped DEF Coordinator, CompleteActive, PublishActive, Acknowledge, Invalidate, CancelAll


Boundary == Later(tab.generation, tab.completed) + 1

(* A package answer that is news: work is cancelled and a number used up. *)
LEMMA PackageDoes ==
  ASSUME TypeOK, NEW e \in Reply, e.package # 0, PackageApplied(e)
  PROVE  /\ host' \in [process : {host.process}, package : {e.package},
                       token : {<<host.process, e.package>>}, running : {host.running}]
         /\ \/ /\ host.token = <<host.process, e.package>>
               /\ UNCHANGED <<tab, cancelled, pub, compiler, posted>>
            \/ /\ host.token # <<host.process, e.package>>
               /\ cancelled' = TRUE /\ pub' = CancelAll(pub) /\ compiler' = Stopped
               /\ posted' = Append(posted,
                              [call |-> "resume", token |-> <<host.process, e.package>>])
               /\ tab' \in [generation : {Boundary}, completed : {Boundary},
                            desired : {Nothing}, completedOf : {Nothing},
                            applied : {Nothing}, signatureOf : {Nothing}]
  <1> DEFINE token == <<host.process, e.package>>
  <1>1. host' = [host EXCEPT !.package = e.package, !.token = token]
    BY DEF PackageApplied
  <1>2. host \in [process : Packages \ {0}, package : Packages \ {0},
                  token : Packages \X Packages, running : BOOLEAN]
    BY DEF TypeOK
  <1> HIDE DEF token
  <1>3. host' \in [process : {host.process}, package : {e.package}, token : {token},
                   running : {host.running}]
    BY <1>1, <1>2
  <1>4. CASE host.token = token
    BY <1>3, <1>4 DEF PackageApplied, token
  <1>5. CASE host.token # token
    <2>1. /\ cancelled' = TRUE /\ pub' = CancelAll(pub) /\ compiler' = Stopped
          /\ posted' = Append(posted, [call |-> "resume", token |-> token])
          /\ tab' = [generation |-> Boundary, completed |-> Boundary,
                     desired |-> Nothing, completedOf |-> Nothing,
                     applied |-> Nothing, signatureOf |-> Nothing]
      BY <1>5 DEF PackageApplied, CancelCompile, token, Boundary
    <2> HIDE DEF Nothing, Boundary
    <2> QED BY <1>3, <1>5, <2>1 DEF token
  <1> QED BY <1>4, <1>5

(* What an answer to a material message comes to. *)
LEMMA AnswerDoes ==
  ASSUME TypeOK, NEW e \in Reply, MaterialAnswered(e)
  PROVE  \/ UNCHANGED <<tab, pub, posted>>
         \/ /\ Acknowledges(e)
            /\ pub' = Acknowledge(pub, e.id) /\ posted' = Append(posted, Call("flush"))
            /\ tab' \in Tab /\ UNCHANGED <<tab.generation, tab.desired>>
            /\ tab'.completed = Later(tab.completed, e.id)
            /\ \A role \in Roles :
                 /\ tab'.completedOf[role] = IF role \in e.roles
                                             THEN Later(tab.completedOf[role], e.id)
                                             ELSE tab.completedOf[role]
                 /\ tab'.applied[role] = IF role \in e.roles /\ e.event # "failed"
                                         THEN e.id ELSE tab.applied[role]
  <1> DEFINE t == Complete(tab, e.id, e.roles)
             put(f, x) == [r \in Roles |-> IF r \in e.roles THEN x ELSE f[r]]
  <1> USE DEF Reply
  <1>1. CASE ~ Acknowledges(e)
    BY <1>1 DEF MaterialAnswered
  <1>2. CASE Acknowledges(e)
    <2>1. /\ pub' = Acknowledge(pub, e.id) /\ posted' = Append(posted, Call("flush"))
          /\ tab' = IF e.event = "failed" THEN t
                    ELSE [t EXCEPT !.applied = put(@, e.id), !.signatureOf = put(@, e.signature)]
      BY <1>2 DEF MaterialAnswered
    <2>2. /\ t \in Tab
          /\ t \in [generation : {tab.generation}, completed : {Later(tab.completed, e.id)},
                    desired : {tab.desired},
                    completedOf : {[r \in Roles |-> IF r \in e.roles
                                                    THEN Later(tab.completedOf[r], e.id)
                                                    ELSE tab.completedOf[r]]},
                    applied : {tab.applied}, signatureOf : {tab.signatureOf}]
      BY Completes
    <2> HIDE DEF t
    <2>3. CASE e.event = "failed"
      BY <1>2, <2>1, <2>2, <2>3
    <2>4. CASE e.event # "failed"
      <3>1. tab' = [t EXCEPT !.applied = put(@, e.id), !.signatureOf = put(@, e.signature)]
        BY <2>1, <2>4
      <3>2. tab' = [t EXCEPT !.applied = put(t.applied, e.id),
                             !.signatureOf = put(t.signatureOf, e.signature)]
        BY <3>1
      <3>3. /\ tab' \in Tab /\ tab'.generation = t.generation /\ tab'.completed = t.completed
            /\ tab'.desired = t.desired /\ tab'.completedOf = t.completedOf
            /\ tab'.applied = put(t.applied, e.id)
        BY <2>2, <3>2 DEF Tab
      <3> QED BY <1>2, <2>1, <2>2, <2>4, <3>3
    <2> QED BY <2>3, <2>4
  <1> QED BY <1>1, <1>2

LEMMA StoppedTyped ==
  ASSUME TypeOK
  PROVE  /\ Stopped \in [request : {compiler.request}, stopped : BOOLEAN,
                         phase : {compiler.phase}]
         /\ Stopped \in [request : Request, stopped : BOOLEAN, phase : Phases]
         /\ compiler.phase # "none" => Stopped.stopped
         /\ compiler.phase = "none" => Stopped = compiler
  <1>1. compiler \in [request : Request, stopped : BOOLEAN, phase : Phases]
    BY DEF TypeOK
  <1> QED BY <1>1 DEF Stopped, CompilerBusy


LEMMA PipesTyped ==
  ASSUME TypeOK
  PROVE  /\ replies # <<>> => Head(replies) \in Reply /\ Tail(replies) \in Seq(Reply)
         /\ pipe # <<>> => Head(pipe) \in Message /\ Tail(pipe) \in Seq(Message)
         /\ posted # <<>> => Head(posted) \in Callback /\ Tail(posted) \in Seq(Callback)
         /\ \A e \in Reply : Append(replies, e) \in Seq(Reply)
         /\ \A m \in Message : Append(pipe, m) \in Seq(Message)
         /\ \A c \in Callback : Append(posted, c) \in Seq(Callback)
         /\ <<>> \in Seq(Message)
BY DEF TypeOK

LEMMA NothingTyped ==
  /\ Nothing \in [Roles -> Nat] /\ Nothing \in [Roles -> Signatures]
  /\ \A role \in Roles : Nothing[role] = 0
BY BoundsAssumption DEF Nothing, Signatures

LEMMA EventTyped ==
  ASSUME TypeOK, NEW name \in {"applied", "failed", "package", "sync"}, NEW id \in Nat,
         NEW roles \in SUBSET Roles, NEW signature \in Signatures, NEW package \in Packages
  PROVE  /\ Event(name, id, roles, signature, package) \in Reply
         /\ Event(name, id, roles, signature, package) \in
              [event : {name}, id : {id}, roles : {roles}, signature : {signature},
               process : {host.process}, package : {package}]
  <1>1. host.process \in Packages
    BY DEF TypeOK
  <1> QED BY <1>1 DEF Event, Reply

LEMMA InitTyped == Init => TypeOK /\ Bounded
  <1> SUFFICES ASSUME Init PROVE TypeOK /\ Bounded
    OBVIOUS
  <1>1. 0 \in Nat /\ 1 \in Packages /\ 0 \in Packages /\ 0 \in 0 .. MaxRevision
        /\ 1 \in 1 .. MaxTextures /\ 0 \in 0 .. MaxFaults
    BY BoundsAssumption DEF Packages
  <1>2. tab \in Tab
    BY NothingTyped DEF Init, Tab
  <1>3. pub \in Coordinator
    BY NoRequestTyped DEF Init, Coordinator
  <1>4. compiler \in [request : Request, stopped : BOOLEAN, phase : Phases]
    BY NoRequestTyped DEF Init, Idle, Phases
  <1>5. renderer \in [loaded : Packages \ {0}, holds : BOOLEAN, resident : [Roles -> Nat]]
    BY <1>1, NothingTyped DEF Init
  <1>6. host.process + renderer.loaded <= 2 + MaxRenewals
    BY BoundsAssumption DEF Init
  <1>7. host \in [process : Packages \ {0}, package : Packages \ {0},
                  token : Packages \X Packages, running : BOOLEAN]
    BY <1>1 DEF Init
  <1>8. session \in [revision : 0 .. MaxRevision, textures : 1 .. MaxTextures]
    BY <1>1 DEF Init
  <1>9. posted \in Seq(Callback) /\ pipe \in Seq(Message) /\ replies \in Seq(Reply)
    BY DEF Init
  <1>10. wanted \subseteq Kinds /\ cancelled \in BOOLEAN /\ faults \in 0 .. MaxFaults
    BY <1>1 DEF Init
  <1>11. DOMAIN replies = {}
    BY DEF Init
  <1> QED BY <1>2, <1>3, <1>4, <1>5, <1>6, <1>7, <1>8, <1>9, <1>10, <1>11 DEF TypeOK, Bounded

LEMMA HandleCompletedDoes ==
  ASSUME TypeOK, HandleCompleted
  PROVE  /\ compiler.phase = "completed"
         /\ compiler' \in [request : {compiler.request}, stopped : {compiler.stopped},
                           phase : {"ended"}]
         /\ UNCHANGED <<host, renderer, replies>>
         /\ \/ /\ IsCurrent(compiler.request) /\ host.running
               /\ pub' = PublishActive(pub, compiler.request.id) /\ tab' = tab
               /\ \E m \in Message :
                    /\ m.id = compiler.request.id /\ m.roles = compiler.request.roles
                    /\ pipe' = Append(pipe, m)
            \/ /\ IsCurrent(compiler.request) /\ ~ host.running
               /\ pub' = CompleteActive(pub, compiler.request.id)
               /\ tab' = Complete(tab, compiler.request.id, compiler.request.roles)
               /\ pipe' = pipe
            \/ ~ IsCurrent(compiler.request) /\ UNCHANGED <<pub, tab, pipe>>
  <1> DEFINE r == compiler.request
             m == [id |-> r.id, roles |-> r.roles, signature |-> r.signature,
                   package |-> host.package]
  <1>1. compiler \in [request : Request, stopped : BOOLEAN, phase : Phases]
        /\ host.package \in Packages
    BY DEF TypeOK
  <1>2. compiler' = [compiler EXCEPT !.phase = "ended"] /\ compiler.phase = "completed"
    BY DEF HandleCompleted
  <1>3. compiler' \in [request : {compiler.request}, stopped : {compiler.stopped},
                       phase : {"ended"}]
    BY <1>1, <1>2
  <1>4. m \in Message /\ m.id = r.id /\ m.roles = r.roles
    BY <1>1 DEF Message, Request
  <1> HIDE DEF m
  <1>5. \/ /\ IsCurrent(r) /\ host.running
           /\ pub' = PublishActive(pub, r.id) /\ tab' = tab /\ pipe' = Append(pipe, m)
        \/ /\ IsCurrent(r) /\ ~ host.running
           /\ pub' = CompleteActive(pub, r.id) /\ tab' = Complete(tab, r.id, r.roles)
           /\ pipe' = pipe
        \/ ~ IsCurrent(r) /\ UNCHANGED <<pub, tab, pipe>>
    BY DEF HandleCompleted, m
  <1>6. UNCHANGED <<host, renderer, replies>>
    BY DEF HandleCompleted
  <1> QED BY <1>2, <1>3, <1>4, <1>5, <1>6

LEMMA UpdateDoes ==
  ASSUME TypeOK, RendererUpdates
  PROVE  /\ host.running /\ pipe # <<>> /\ pipe' = Tail(pipe) /\ Head(pipe) \in Message
         /\ UNCHANGED <<tab, pub, compiler, host>>
         /\ \E e \in Reply :
              /\ e.id = Head(pipe).id /\ e.roles = Head(pipe).roles
              /\ e.process = host.process /\ replies' = Append(replies, e)
              /\ \/ /\ e.event = "applied"
                    /\ renderer' \in [loaded : {renderer.loaded}, holds : {renderer.holds},
                         resident : {[r \in Roles |-> IF r \in Head(pipe).roles THEN Head(pipe).id
                                                      ELSE renderer.resident[r]]}]
                 \/ e.event = "failed" /\ renderer' = renderer
  <1> DEFINE m == Head(pipe)
  <1>1. m \in Message /\ pipe # <<>>
    BY PipesTyped DEF RendererUpdates
  <1> HIDE DEF m
  <1>2. m.id \in Nat /\ m.roles \in SUBSET Roles /\ m.signature \in Signatures
        /\ m.package \in Packages
    BY <1>1 DEF Message
  <1>3. \A name \in {"applied", "failed"} :
          LET e == Event(name, m.id, m.roles, m.signature, m.package)
          IN  /\ e \in Reply /\ e.id = m.id /\ e.roles = m.roles /\ e.process = host.process
              /\ e.event = name
    BY <1>2, EventTyped
  <1>4. renderer \in [loaded : Packages \ {0}, holds : BOOLEAN, resident : [Roles -> Nat]]
    BY DEF TypeOK
  <1>5. \/ /\ renderer' = [renderer EXCEPT
                !.resident = [r \in Roles |-> IF r \in m.roles THEN m.id ELSE @[r]]]
           /\ replies' = Append(replies, Event("applied", m.id, m.roles, m.signature, m.package))
        \/ /\ replies' = Append(replies, Event("failed", m.id, m.roles, m.signature, m.package))
           /\ renderer' = renderer
    BY DEF RendererUpdates, m
  <1>6. CASE renderer' = renderer
             /\ replies' = Append(replies, Event("failed", m.id, m.roles, m.signature, m.package))
    BY <1>1, <1>3, <1>6 DEF RendererUpdates, m
  <1>7. CASE /\ renderer' = [renderer EXCEPT
                  !.resident = [r \in Roles |-> IF r \in m.roles THEN m.id ELSE @[r]]]
             /\ replies' = Append(replies, Event("applied", m.id, m.roles, m.signature, m.package))
    <2> DEFINE shown == [r \in Roles |-> IF r \in m.roles THEN m.id ELSE renderer.resident[r]]
    <2>1. renderer' = [renderer EXCEPT !.resident = shown]
      BY <1>7
    <2> HIDE DEF shown
    <2>2. renderer' \in [loaded : {renderer.loaded}, holds : {renderer.holds},
                         resident : {shown}]
      BY <1>4, <2>1
    <2> QED BY <1>1, <1>3, <1>7, <2>2 DEF RendererUpdates, m, shown
  <1> QED BY <1>5, <1>6, <1>7


LEMMA Bounds ==
  /\ MaxRevision \in Nat /\ MaxTextures \in Nat \ {0} /\ MaxRenewals \in Nat /\ MaxFaults \in Nat
  /\ 0 \in Packages /\ 0 \in Signatures /\ 1 \in Signatures
BY BoundsAssumption DEF Packages, Signatures

LEMMA Typed ==
  ASSUME TypeOK
  PROVE  /\ tab \in Tab /\ pub \in Coordinator
         /\ session \in [revision : 0 .. MaxRevision, textures : 1 .. MaxTextures]
         /\ compiler \in [request : Request, stopped : BOOLEAN, phase : Phases]
         /\ host \in [process : Packages \ {0}, package : Packages \ {0},
                      token : Packages \X Packages, running : BOOLEAN]
         /\ renderer \in [loaded : Packages \ {0}, holds : BOOLEAN, resident : [Roles -> Nat]]
         /\ posted \in Seq(Callback) /\ pipe \in Seq(Message) /\ replies \in Seq(Reply)
         /\ faults \in 0 .. MaxFaults
BY DEF TypeOK

LEMMA TypedParts ==
  ASSUME TypeOK
  PROVE  /\ compiler.request \in Request /\ compiler.request.id \in Nat
         /\ compiler.request.roles \in SUBSET Roles
         /\ host.process \in Packages \ {0} /\ host.process \in Nat /\ host.package \in Packages
         /\ renderer.loaded \in Packages \ {0} /\ renderer.loaded \in Nat
BY Typed DEF Request, Packages

(* What is left of a type once the variables an action writes are typed. *)
LEMMA TypeStep == TypeOK /\ Bounded /\ [Next]_vars => TypeOK'
  <1> SUFFICES ASSUME TypeOK, Bounded, [Next]_vars PROVE TypeOK'
    OBVIOUS
  <1>1. ASSUME NEW kind \in Kinds, Ask(kind) PROVE TypeOK'
    <2>1. wanted' \subseteq Kinds
      BY <1>1 DEF Ask, TypeOK
    <2> QED BY <1>1, <2>1, SendDoes, SendTyped DEF Ask, Sending, TypeOK
  <1>2. CASE BindTextures
    <2>1. {Editable} \in SUBSET Roles /\ session.textures + 1 \in Signatures
      BY <1>2, Typed, Bounds DEF BindTextures, Roles, Signatures
    <2>2. session' \in [revision : 0 .. MaxRevision, textures : 1 .. MaxTextures]
      <3>1. session' = [session EXCEPT !.textures = session.textures + 1]
        BY <1>2 DEF BindTextures
      <3>2. session.textures + 1 \in 1 .. MaxTextures
        BY <1>2, Typed, Bounds DEF BindTextures
      <3> HIDE DEF BindTextures
      <3> QED BY <3>1, <3>2, Typed
    <2>3. Sending
      BY <1>2, <2>1, Publishes DEF BindTextures, Sending
    <2> QED BY <1>2, <2>2, <2>3, SendTyped DEF BindTextures, TypeOK
  <1>3. CASE EditGeometry
    <2>1. session' \in [revision : 0 .. MaxRevision, textures : 1 .. MaxTextures]
      <3>1. session' = [session EXCEPT !.revision = session.revision + 1]
        BY <1>3 DEF EditGeometry
      <3>2. session.revision + 1 \in 0 .. MaxRevision
        BY <1>3, Typed, Bounds DEF EditGeometry
      <3> QED BY <3>1, <3>2, Typed
    <2> QED BY <1>3, <2>1 DEF EditGeometry, TypeOK
  <1>4. CASE CompileEnds
    <2>1. compiler' \in [request : Request, stopped : BOOLEAN, phase : Phases]
      BY <1>4, Typed DEF CompileEnds, Phases
    <2>2. faults' \in 0 .. MaxFaults
      BY <1>4, Typed, Bounds DEF CompileEnds
    <2> QED BY <1>4, <2>1, <2>2 DEF CompileEnds, TypeOK
  <1>5. CASE ThreadExits
    <2>1. compiler' \in [request : Request, stopped : BOOLEAN, phase : Phases]
      BY <1>5, Typed DEF ThreadExits, Phases
    <2>2. posted' \in Seq(Callback)
      BY <1>5, PipesTyped, CallTyped DEF ThreadExits
    <2> QED BY <1>5, <2>1, <2>2 DEF ThreadExits, TypeOK
  <1>6. CASE HandleCompleted
    <2>1. compiler' \in [request : Request, stopped : BOOLEAN, phase : Phases]
      BY <1>6, HandleCompletedDoes DEF TypeOK, Phases
    <2>2. compiler.request.id \in Nat /\ compiler.request.roles \in SUBSET Roles
      BY TypedParts
    <2>3. pub \in Coordinator /\ tab \in Tab /\ pipe \in Seq(Message)
      BY DEF TypeOK
    <2>4. pub' \in Coordinator
      BY <1>6, <2>2, <2>3, HandleCompletedDoes, SettlesTyped
    <2>5. tab' \in Tab
      BY <1>6, <2>2, <2>3, HandleCompletedDoes, Completes
    <2>6. pipe' \in Seq(Message)
      BY <1>6, <2>3, HandleCompletedDoes, PipesTyped
    <2>7. posted' \in Seq(Callback)
      BY <1>6, PipesTyped, CallTyped, Typed DEF HandleCompleted
    <2> QED BY <1>6, <2>1, <2>4, <2>5, <2>6, <2>7 DEF HandleCompleted, TypeOK
  <1>7. CASE HandleError
    <2>1. compiler' \in [request : Request, stopped : BOOLEAN, phase : Phases]
      BY <1>7, Typed DEF HandleError, Phases
    <2>2. compiler.request.id \in Nat /\ compiler.request.roles \in SUBSET Roles
      BY TypedParts
    <2>3. pub \in Coordinator /\ tab \in Tab
      BY DEF TypeOK
    <2>4. pub' \in Coordinator
      BY <1>7, <2>2, <2>3, SettlesTyped DEF HandleError
    <2>5. tab' \in Tab
      BY <1>7, <2>2, <2>3, Completes DEF HandleError
    <2>6. posted' \in Seq(Callback)
      BY <1>7, PipesTyped, CallTyped, Typed DEF HandleError
    <2> QED BY <1>7, <2>1, <2>4, <2>5, <2>6 DEF HandleError, TypeOK
  <1>8. CASE RunPosted
    <2>1. posted' \in Seq(Callback)
      BY <1>8, PipesTyped DEF RunPosted
    <2>2. CASE StartNext(pub) /\ UNCHANGED <<tab, wanted, cancelled>>
      <3>1. pub' \in Coordinator
            /\ compiler' \in [request : Request, stopped : BOOLEAN, phase : Phases]
        BY <2>2, Restarts DEF TypeOK
      <3> QED BY <1>8, <2>1, <2>2, <3>1 DEF RunPosted, TypeOK
    <2>3. CASE Send("imported") /\ UNCHANGED wanted
      BY <1>8, <2>1, <2>3, SendDoes, SendTyped DEF RunPosted, Sending, TypeOK
    <2>4. CASE Flush
      BY <1>8, <2>1, <2>4, FlushDoes, SendTyped DEF RunPosted, Sending, TypeOK
    <2>5. CASE UNCHANGED <<tab, wanted, cancelled, pub, compiler>>
      BY <1>8, <2>1, <2>5 DEF RunPosted, TypeOK
    <2> QED BY <1>8, <2>2, <2>3, <2>4, <2>5 DEF RunPosted
  <1>9. CASE RendererUpdates
    <2>1. /\ pipe' \in Seq(Message) /\ replies' \in Seq(Reply)
          /\ UNCHANGED <<tab, pub, compiler, host>>
      BY <1>9, UpdateDoes, PipesTyped
    <2>2. renderer' \in [loaded : Packages \ {0}, holds : BOOLEAN, resident : [Roles -> Nat]]
      <3>1. renderer \in [loaded : Packages \ {0}, holds : BOOLEAN, resident : [Roles -> Nat]]
        BY DEF TypeOK
      <3>2. Head(pipe).id \in Nat
        BY <1>9, UpdateDoes DEF Message
      <3> QED BY <1>9, <3>1, <3>2, UpdateDoes
    <2>3. faults' \in 0 .. MaxFaults
      BY <1>9, Typed, Bounds DEF RendererUpdates
    <2> QED BY <1>9, <2>1, <2>2, <2>3 DEF RendererUpdates, TypeOK
  <1>10. CASE RendererLoads
    <2> DEFINE package == IF renderer.holds THEN renderer.loaded + 1 ELSE renderer.loaded
    <2>1. package \in Packages \ {0}
      BY <1>10, TypedParts, Bounds DEF RendererLoads, CanRenew, Packages
    <2>2. renderer' = [loaded |-> package, holds |-> TRUE, resident |-> Nothing]
          /\ replies' = Append(replies, Event("package", 0, {}, 0, package))
      BY <1>10 DEF RendererLoads
    <2> HIDE DEF package
    <2>3. renderer' \in [loaded : Packages \ {0}, holds : BOOLEAN, resident : [Roles -> Nat]]
      BY <2>1, <2>2, NothingTyped
    <2>4. Event("package", 0, {}, 0, package) \in Reply
      BY <2>1, EventTyped, Bounds
    <2>5. replies' \in Seq(Reply)
      BY <2>2, <2>4, PipesTyped
    <2> QED BY <1>10, <2>3, <2>5 DEF RendererLoads, TypeOK
  <1>11. CASE RendererWantsSync
    <2>1. Event("sync", 0, {}, 0, renderer.loaded) \in Reply
      BY EventTyped, TypedParts, Bounds
    <2>2. replies' \in Seq(Reply)
      BY <1>11, <2>1, PipesTyped DEF RendererWantsSync
    <2> QED BY <1>11, <2>2 DEF RendererWantsSync, TypeOK
  <1>12. CASE RendererDies
    <2>1. host' \in [process : Packages \ {0}, package : Packages \ {0},
                     token : Packages \X Packages, running : BOOLEAN]
      BY <1>12, Typed DEF RendererDies
    <2>2. pipe' \in Seq(Message)
      BY <1>12, PipesTyped DEF RendererDies
    <2>3. faults' \in 0 .. MaxFaults
      BY <1>12, Typed, Bounds DEF RendererDies
    <2> QED BY <1>12, <2>1, <2>2, <2>3 DEF RendererDies, TypeOK
  <1>13. CASE StopEditor
    <2>1. host' \in [process : Packages \ {0}, package : Packages \ {0},
                     token : Packages \X Packages, running : BOOLEAN]
      BY <1>13, Typed DEF StopEditor
    <2>2. pub' \in Coordinator /\ cancelled' = TRUE
          /\ compiler' \in [request : Request, stopped : BOOLEAN, phase : Phases]
      BY <1>13, StoppedTyped, NoRequestTyped
         DEF StopEditor, CancelCompile, CancelAll, Coordinator
    <2>3. pipe' \in Seq(Message)
      BY <1>13, PipesTyped DEF StopEditor
    <2>4. faults' \in 0 .. MaxFaults
      BY <1>13, Typed, Bounds DEF StopEditor
    <2> QED BY <1>13, <2>1, <2>2, <2>3, <2>4 DEF StopEditor, TypeOK
  <1>14. CASE RendererStarts
    <2>1. host.process + 1 \in Packages \ {0}
      BY <1>14, TypedParts, Bounds DEF RendererStarts, CanRenew, Packages
    <2>2. host' \in [process : Packages \ {0}, package : Packages \ {0},
                     token : Packages \X Packages, running : BOOLEAN]
      BY <1>14, <2>1, Typed DEF RendererStarts
    <2>3. renderer' \in [loaded : Packages \ {0}, holds : BOOLEAN, resident : [Roles -> Nat]]
      <3>1. renderer \in [loaded : Packages \ {0}, holds : BOOLEAN, resident : [Roles -> Nat]]
        BY DEF TypeOK
      <3>2. renderer' = [renderer EXCEPT !.holds = FALSE, !.resident = Nothing]
        BY <1>14 DEF RendererStarts
      <3> QED BY <3>1, <3>2, NothingTyped
    <2>4. pub' \in Coordinator
      <3>1. pub' = Invalidate(pub, host.process + 1)
        BY <1>14 DEF RendererStarts
      <3>2. host.process + 1 \in Nat
        BY TypedParts
      <3> QED BY <3>1, <3>2, SettlesTyped, Typed
    <2> QED BY <1>14, <2>2, <2>3, <2>4 DEF RendererStarts, TypeOK
  <1>15. CASE HandleReply
    <2> DEFINE e == Head(replies)
    <2>1. e \in Reply /\ replies' \in Seq(Reply) /\ replies # <<>>
      BY <1>15, PipesTyped DEF HandleReply
    <2>2. CASE UNCHANGED <<tab, cancelled, pub, compiler, posted, host>>
      BY <1>15, <2>1, <2>2 DEF HandleReply, TypeOK
    <2>3. CASE e.event = "package" /\ PackageApplied(e)
      <3>1. e.package # 0
        <4>1. 1 \in DOMAIN replies /\ e = replies[1]
          BY <2>1 DEF TypeOK
        <4> QED BY <2>3, <4>1 DEF Bounded
      <3>2. host' \in [process : Packages \ {0}, package : Packages \ {0},
                       token : Packages \X Packages, running : BOOLEAN]
        <4>1. e.package \in Packages \ {0}
          BY <2>1, <3>1 DEF Reply
        <4>2. host' \in [process : {host.process}, package : {e.package},
                         token : {<<host.process, e.package>>}, running : {host.running}]
          BY <2>1, <2>3, <3>1, PackageDoes
        <4>3. host.process \in Packages \ {0} /\ host.running \in BOOLEAN
          BY Typed
        <4> HIDE DEF e
        <4> QED BY <4>1, <4>2, <4>3
      <3>3. Boundary \in Nat
        BY Typed DEF Boundary, Later, Tab
      <3>4. tab' \in Tab
        BY <2>1, <2>3, <3>1, <3>3, PackageDoes, NothingTyped, Typed DEF Tab
      <3>5. [call |-> "resume", token |-> <<host.process, e.package>>] \in Callback
        BY <2>1, TypedParts DEF Callback, Reply
      <3>6. /\ posted' \in Seq(Callback) /\ cancelled' \in BOOLEAN
            /\ compiler' \in [request : Request, stopped : BOOLEAN, phase : Phases]
        <4>1. \/ UNCHANGED <<posted, cancelled, compiler>>
              \/ /\ posted' = Append(posted,
                        [call |-> "resume", token |-> <<host.process, e.package>>])
                 /\ cancelled' = TRUE /\ compiler' = Stopped
          BY <2>1, <2>3, <3>1, PackageDoes
        <4>2. cancelled \in BOOLEAN
          BY DEF TypeOK
        <4> HIDE DEF e
        <4> QED BY <3>5, <4>1, <4>2, PipesTyped, StoppedTyped, Typed
      <3>7. pub' \in Coordinator
        <4>1. pub' = pub \/ pub' = CancelAll(pub)
          BY <2>1, <2>3, <3>1, PackageDoes
        <4> QED BY <4>1, Typed, SettlesTyped, TypedParts
      <3> QED BY <1>15, <2>1, <3>2, <3>4, <3>6, <3>7 DEF HandleReply, TypeOK
    <2>4. CASE Publish({Editable}, WorkingSignature) /\ UNCHANGED <<posted, host>>
      <3>1. {Editable} \in SUBSET Roles /\ WorkingSignature \in Signatures
        BY Bounds DEF Roles, WorkingSignature
      <3>2. Sending
        BY <2>4, <3>1, Publishes DEF Sending
      <3> QED BY <1>15, <2>1, <2>4, <3>2, SendTyped DEF HandleReply, TypeOK
    <2>5. CASE MaterialAnswered(e) /\ UNCHANGED <<cancelled, compiler, host>>
      <3>1. e.id \in Nat
        BY <2>1 DEF Reply
      <3>2. pub' \in Coordinator /\ posted' \in Seq(Callback) /\ tab' \in Tab
        <4>1. \/ UNCHANGED <<tab, pub, posted>>
              \/ /\ pub' = Acknowledge(pub, e.id) /\ tab' \in Tab
                 /\ posted' = Append(posted, Call("flush"))
          BY <2>1, <2>5, AnswerDoes
        <4> HIDE DEF e
        <4>2. pub' \in Coordinator
          <5>1. pub \in Coordinator /\ Acknowledge(pub, e.id) \in Coordinator
            BY <3>1, SettlesTyped, Typed
          <5>2. pub' = pub \/ pub' = Acknowledge(pub, e.id)
            BY <4>1
          <5> QED BY <5>1, <5>2
        <4>3. posted' \in Seq(Callback)
          BY <4>1, PipesTyped, CallTyped, Typed
        <4>4. tab' \in Tab
          BY <4>1, Typed
        <4> QED BY <4>2, <4>3, <4>4
      <3> QED BY <1>15, <2>1, <2>5, <3>2 DEF HandleReply, TypeOK
    <2> QED BY <1>15, <2>2, <2>3, <2>4, <2>5 DEF HandleReply
  <1>16. CASE UNCHANGED vars
    BY <1>16 DEF vars, TypeOK
  <1> QED BY <1>1, <1>2, <1>3, <1>4, <1>5, <1>6, <1>7, <1>8, <1>9, <1>10, <1>11, <1>12,
             <1>13, <1>14, <1>15, <1>16 DEF Next

-----------------------------------------------------------------------------
(* The moves the actions come to, as far as the invariant is concerned. *)

LEMMA Longer ==
  ASSUME NEW S, NEW s \in Seq(S), NEW x \in S
  PROVE  /\ Append(s, x) \in Seq(S)
         /\ \A i \in DOMAIN Append(s, x) :
              \/ i \in DOMAIN s /\ Append(s, x)[i] = s[i]
              \/ i = Len(s) + 1 /\ Append(s, x)[i] = x
         /\ \A i, k \in DOMAIN Append(s, x) : i < k => i \in DOMAIN s /\ Append(s, x)[i] = s[i]
OBVIOUS

LEMMA Shorter ==
  ASSUME NEW S, NEW s \in Seq(S), s # <<>>
  PROVE  /\ 1 \in DOMAIN s /\ Head(s) = s[1]
         /\ \A i \in DOMAIN Tail(s) :
              i \in Nat /\ i > 0 /\ i + 1 \in DOMAIN s /\ Tail(s)[i] = s[i + 1]
OBVIOUS

(* What the types say of the numbers. *)
Numbers ==
  /\ tab.generation \in Nat /\ tab.completed \in Nat
  /\ \A role \in Roles : /\ tab.applied[role] \in Nat /\ tab.desired[role] \in Nat
                         /\ tab.completedOf[role] \in Nat
  /\ \A r \in Queued : r \in Request /\ r.id \in Nat /\ r.process \in Nat
  /\ pub.active.id \in Nat /\ pub.active.process \in Nat
  /\ compiler.request.id \in Nat /\ compiler.request.process \in Nat
  /\ \A j \in DOMAIN pipe : j \in Nat /\ pipe[j].id \in Nat
  /\ \A i \in DOMAIN replies : /\ replies[i] \in Reply /\ replies[i].id \in Nat
                               /\ replies[i].process \in Nat /\ replies[i].package \in Nat
  /\ host.process \in Nat /\ host.token[1] \in Nat /\ host.token[2] \in Nat
  /\ host.token = <<host.token[1], host.token[2]>>
  /\ renderer.loaded \in Nat

LEMMA TypedNumbers == TypeOK => Numbers
  <1> SUFFICES ASSUME TypeOK PROVE Numbers
    OBVIOUS
  <1>1. tab \in Tab /\ pub \in Coordinator /\ pipe \in Seq(Message) /\ replies \in Seq(Reply)
    BY Typed
  <1>2. \A p \in Packages : p \in Nat
    BY DEF Packages
  <1>3. Queued \subseteq Request
    BY QueuedTyped
  <1>4. \A r \in Request : r.id \in Nat /\ r.process \in Nat
    BY <1>2 DEF Request
  <1>5. \A j \in DOMAIN pipe : j \in Nat /\ pipe[j].id \in Nat
    <2>1. \A j \in DOMAIN pipe : j \in Nat /\ pipe[j] \in Message
      BY <1>1
    <2> QED BY <2>1 DEF Message
  <1>6. \A i \in DOMAIN replies : /\ replies[i] \in Reply /\ replies[i].id \in Nat
                                  /\ replies[i].process \in Nat /\ replies[i].package \in Nat
    <2>1. \A i \in DOMAIN replies : replies[i] \in Reply
      BY <1>1
    <2> QED BY <1>2, <2>1 DEF Reply
  <1>7. host.token \in Packages \X Packages
    BY Typed
  <1>8. pub.active \in Request
    BY <1>1 DEF Coordinator
  <1> QED BY <1>1, <1>2, <1>3, <1>4, <1>5, <1>6, <1>7, <1>8, TypedParts DEF Numbers, Tab

LEMMA TypedNext == TypeOK' => Numbers'
BY TypedNumbers, PTL

Reads ==
  \/ replies' = replies
  \/ replies # <<>> /\ replies' = Tail(replies)

LEMMA Reading ==
  ASSUME TypeOK, Reads
  PROVE  \A i \in DOMAIN replies' : \E k \in DOMAIN replies : replies'[i] = replies[k]
  <1>1. CASE replies # <<>> /\ replies' = Tail(replies)
    <2>1. \A i \in DOMAIN Tail(replies) :
            i + 1 \in DOMAIN replies /\ Tail(replies)[i] = replies[i + 1]
      BY <1>1, Shorter, Typed
    <2> QED BY <1>1, <2>1
  <1> QED BY <1>1 DEF Reads

Unsettled == \/ Compiling /\ compiler.request.id = tab.generation
             \/ \E r \in Queued : r.id = tab.generation

(* Nothing new is asked for: work ends, is answered, or is given up. *)
Settling ==
  /\ UNCHANGED <<renderer, host.process, host.token, tab.generation, tab.desired>>
  /\ Reads
  /\ \/ UNCHANGED <<pipe, host.running>>
     \/ pipe' = <<>> /\ ~ host'.running
  /\ pub'.queued \subseteq pub.queued /\ pub'.active \in {pub.active, NoRequest}
  /\ compiler'.request = compiler.request /\ (Compiling' => Compiling)
  /\ \/ UNCHANGED <<compiler, pub.active>>
     \/ compiler'.phase # "running" \/ compiler'.stopped
  /\ \/ /\ UNCHANGED <<tab.completed, tab.completedOf, tab.applied>>
        /\ pub' = pub \/ ~ host'.running
     \/ /\ tab'.completed = tab.generation /\ ~ Unsettled'
        /\ \A role \in Roles :
             /\ tab'.completedOf[role] \in {tab.completedOf[role], tab.generation}
             /\ \/ tab'.applied[role] = tab.applied[role]
                \/ /\ tab'.applied[role] = tab.generation /\ DOMAIN pipe = {}
                   /\ tab'.completedOf[role] = tab.generation
                   /\ tab.desired[role] = tab.generation
                   /\ InStep => renderer.resident[role] = tab.generation

(* A compiled publication goes to the renderer. *)
Shipping ==
  /\ Compiling /\ compiler.request.id = tab.generation /\ host.running
  /\ compiler'.request = compiler.request /\ compiler'.phase = "ended"
  /\ pub' = PublishActive(pub, compiler.request.id)
  /\ \E m \in Message : /\ m.id = compiler.request.id /\ m.roles = compiler.request.roles
                        /\ pipe' = Append(pipe, m)
  /\ UNCHANGED <<tab, host, renderer, replies>>

(* The renderer says something that is no answer. *)
Announcing ==
  /\ UNCHANGED <<tab, pub, compiler, host, pipe>>
  /\ host.process + renderer'.loaded <= 2 + MaxRenewals
  /\ \E e \in Reply : /\ e.event \notin {"applied", "failed"} /\ e.id = 0
                      /\ e.process = host.process /\ replies' = Append(replies, e)
                      /\ e.event = "package" => /\ 0 < e.package /\ e.package <= renderer'.loaded
                                                /\ renderer'.holds
  /\ \/ renderer' = renderer
     \/ /\ renderer'.holds
        /\ IF renderer.holds THEN renderer'.loaded = renderer.loaded + 1
                             ELSE renderer'.loaded = renderer.loaded

(* The tab learns of a package it did not know. *)
Renewing ==
  /\ replies # <<>> /\ replies' = Tail(replies)
  /\ Head(replies).event = "package" /\ Head(replies).process = host.process
  /\ tab.generation < tab'.generation /\ tab'.completed = tab'.generation
  /\ \A role \in Roles : /\ tab'.applied[role] = 0 /\ tab'.desired[role] = 0
                         /\ tab'.completedOf[role] = 0
  /\ pub'.queued = {} /\ pub'.active = NoRequest
  /\ compiler'.request = compiler.request /\ compiler'.phase = compiler.phase
  /\ compiler.phase # "none" => compiler'.stopped
  /\ UNCHANGED <<host.process, host.running, renderer, pipe>>
  /\ host'.token = <<host.process, Head(replies).package>>

Cleaning == StartNext(pub) /\ UNCHANGED <<tab, host, renderer, pipe, replies>>

Ordering == Sending /\ Reads /\ UNCHANGED <<host, renderer, pipe>>

-----------------------------------------------------------------------------
(* Every move keeps the invariant. *)

LEMMA SettlingKeeps ==
  ASSUME TypeOK, TypeOK', Invariant, Settling
  PROVE  Invariant'
  <1>1. Numbers /\ Numbers'
    BY TypedNumbers, TypedNext
  <1>2. \A i \in DOMAIN replies' : \E k \in DOMAIN replies : replies'[i] = replies[k]
    BY Reading DEF Settling
  <1>3. \A i \in Answers' : \E k \in Answers : replies'[i] = replies[k]
    BY <1>2 DEF Answers, Settling
  <1>4. \/ pipe' = pipe
        \/ DOMAIN pipe' = {} /\ pipe' = <<>>
    BY DEF Settling
  <1>5. Queued' \subseteq Queued
    BY DEF Settling, Queued, Requests
  <1>6. /\ UNCHANGED <<renderer, host.process, host.token, tab.generation, tab.desired>>
        /\ compiler'.request = compiler.request /\ (Compiling' => Compiling)
        /\ host'.running => host.running /\ pipe' = pipe
    BY DEF Settling
  <1>7. Unsettled' => Unsettled /\ tab'.completed = tab.completed
    BY <1>5, <1>6 DEF Settling, Unsettled
  <1>8. tab.completed <= tab'.completed /\ tab'.completed <= tab.generation
    BY <1>1 DEF Settling, Invariant, Counted, Numbers
  <1> USE DEF Invariant
  <1>11. Bounded'
    BY <1>2, <1>6 DEF Bounded
  <1>12. Counted'
    <2>1. ASSUME NEW role \in Roles
          PROVE  /\ tab'.applied[role] <= tab.desired[role]
                 /\ tab'.applied[role] <= tab'.completedOf[role]
                 /\ tab'.completedOf[role] <= tab'.completed
      <3>1. /\ tab.applied[role] <= tab.desired[role] /\ tab.desired[role] <= tab.generation
            /\ tab.applied[role] <= tab.completedOf[role]
            /\ tab.completedOf[role] <= tab.completed /\ tab.completed <= tab.generation
        BY DEF Counted
      <3>2. /\ tab.applied[role] \in Nat /\ tab.desired[role] \in Nat
            /\ tab.completedOf[role] \in Nat /\ tab.completed \in Nat /\ tab.generation \in Nat
        BY <1>1 DEF Numbers
      <3>3. CASE UNCHANGED <<tab.completed, tab.completedOf, tab.applied>>
        BY <3>1, <3>3
      <3>4. CASE /\ tab'.completed = tab.generation
                 /\ tab'.completedOf[role] \in {tab.completedOf[role], tab.generation}
                 /\ \/ tab'.applied[role] = tab.applied[role]
                    \/ /\ tab'.applied[role] = tab.generation
                       /\ tab'.completedOf[role] = tab.generation
                       /\ tab.desired[role] = tab.generation
        BY <3>1, <3>2, <3>4
      <3> QED BY <3>3, <3>4 DEF Settling
    <2> QED BY <1>6, <1>8, <2>1 DEF Counted
  <1>13. Numbered'
    <2>1. NoRequest.process = 0
      BY DEF NoRequest
    <2>2. pub'.active.process <= host.process
      BY <1>1, <2>1 DEF Settling, Numbered, Numbers
    <2> QED BY <1>2, <1>4, <1>5, <1>6, <2>2 DEF Numbered
  <1>14. SentOnce'
    <2>1. Distinct(pub'.queued)
      BY DEF Settling, SentOnce, Distinct
    <2>2. Compiling' => \A r \in Queued' : r.id # compiler'.request.id
      BY <1>5, <1>6 DEF SentOnce
    <2>3. Unsettled' => /\ tab'.completed < tab'.generation
                        /\ \A j \in DOMAIN pipe' : pipe'[j].id # tab'.generation
                        /\ \A i \in Answers' : replies'[i].id # tab'.generation
      BY <1>3, <1>4, <1>6, <1>7 DEF SentOnce, Unsettled
    <2>4. \A j, k \in DOMAIN pipe' : j < k => pipe'[j].id < pipe'[k].id
      BY <1>4 DEF SentOnce
    <2>5. \A i \in Answers', j \in DOMAIN pipe' : replies'[i].id < pipe'[j].id
      BY <1>3, <1>4 DEF SentOnce
    <2>6. ~ host'.running => pipe' = <<>>
      BY DEF SentOnce, Settling
    <2> QED BY <2>1, <2>2, <2>3, <2>4, <2>5, <2>6 DEF SentOnce, Unsettled
  <1>15. Wanted'
    BY <1>1, <1>3, <1>4, <1>5, <1>6, <1>8 DEF Wanted, Numbers
  <1>16. Loaded'
    BY <1>2, <1>6 DEF Loaded
  <1>17. Resident'
    <2> SUFFICES ASSUME InStep', NEW role \in Roles
                 PROVE  /\ tab'.applied[role] > 0 /\ tab'.applied[role] = tab'.desired[role] =>
                             renderer'.resident[role] = tab'.desired[role]
                        /\ tab'.applied[role] > 0 =>
                             \A j \in DOMAIN pipe' : role \in pipe'[j].roles =>
                               tab'.applied[role] < pipe'[j].id /\ pipe'[j].id <= tab'.desired[role]
                        /\ \A i \in Answers' :
                             replies'[i].event = "applied" /\ role \in replies'[i].roles
                               /\ replies'[i].id = tab'.generation /\ tab'.completed < tab'.generation
                               => renderer'.resident[role] = tab'.generation
      BY DEF Resident
    <2>1. InStep /\ pipe' = pipe
      BY <1>6 DEF InStep
    <2>2. \/ tab'.applied[role] = tab.applied[role]
          \/ tab.desired[role] = tab.generation /\ renderer.resident[role] = tab.generation
             /\ DOMAIN pipe = {}
      BY <2>1 DEF Settling
    <2>3. tab'.completed < tab'.generation => tab.completed < tab.generation
      BY <1>1, <1>6, <1>8 DEF Numbers
    <2> QED BY <1>3, <1>6, <2>1, <2>2, <2>3 DEF Resident
  <1>18. NoOrphanCompile'
    BY <1>6 DEF Settling, NoOrphanCompile
  <1>19. KeyHeld'
    <2>1. Gated' => /\ Gated
                    /\ pub' = pub \/ ~ host'.running
      BY <1>1, <1>6, <1>8 DEF Gated, Settling, Numbers
    <2> QED BY <1>6, <2>1 DEF KeyHeld
  <1> QED BY <1>11, <1>12, <1>13, <1>14, <1>15, <1>16, <1>17, <1>18, <1>19

LEMMA OrderingKeeps ==
  ASSUME TypeOK, TypeOK', Invariant, Ordering
  PROVE  Invariant'
  <1>1. Numbers /\ Numbers'
    BY TypedNumbers, TypedNext
  <1>2. PICK request \in Request : Sends(request)
    BY DEF Ordering, Sending
  <1>3. \A i \in DOMAIN replies' : \E k \in DOMAIN replies : replies'[i] = replies[k]
    BY Reading DEF Ordering
  <1>4. \A i \in Answers' : \E k \in Answers : replies'[i] = replies[k]
    BY <1>3 DEF Answers, Ordering
  <1>5. UNCHANGED <<host, renderer, pipe>>
    BY DEF Ordering
  <1>6. /\ Queued' \subseteq Queued \cup {request}
        /\ request.id = tab.generation + 1 /\ request.process = host.process
        /\ tab'.generation = request.id
        /\ UNCHANGED <<tab.completed, tab.completedOf, tab.applied>>
        /\ \A role \in Roles :
             tab'.desired[role] = IF role \in request.roles THEN request.id ELSE tab.desired[role]
    BY <1>2 DEF Sends, Queued
  <1>7. request.id \in Nat
    BY <1>1, <1>6 DEF Numbers
  <1> USE DEF Invariant
  <1>8. \A r \in Queued : 0 < r.id /\ r.id <= tab.generation /\ r.process <= host.process
    BY DEF Numbered
  <1>9. \/ /\ compiler'.stopped /\ compiler'.request = compiler.request
           /\ compiler'.phase = compiler.phase /\ pub'.active = NoRequest
           /\ request \in Queued'
        \/ /\ compiler' = Idle /\ pub'.active = pub.active /\ request \in Queued'
        \/ /\ compiler'.request = pub'.active /\ ~ compiler'.stopped
           /\ compiler'.phase = "running" /\ pub'.active \in Queued \cup {request}
           /\ request \in Queued' \cup {pub'.active}
           /\ \A r \in Queued' : r.id # pub'.active.id
    BY <1>2, <1>8 DEF Sends, SentOnce, Queued
  <1>10. /\ NoRequest.process = 0 /\ NoRequest.id = 0 /\ Idle.request = NoRequest
         /\ Idle.phase = "none"
    BY DEF NoRequest, Idle
  <1>11. \A j \in DOMAIN pipe' : pipe'[j].id # tab'.generation
    BY <1>1, <1>5, <1>6 DEF Numbered, Numbers
  <1>12. \A i \in Answers' : replies'[i].id # tab'.generation
    BY <1>1, <1>3, <1>6 DEF Numbered, Numbers, Answers
  <1>13. tab'.completed < tab'.generation
    BY <1>1, <1>6 DEF Counted, Numbers
  <1>14. Bounded'
    BY <1>3, <1>5 DEF Bounded
  <1>15. Counted'
    <2>1. tab.generation < tab'.generation /\ 0 < tab'.generation
          /\ tab'.completed <= tab'.generation
      BY <1>1, <1>6 DEF Counted, Numbers
    <2>2. ASSUME NEW role \in Roles
          PROVE  /\ tab'.applied[role] <= tab'.desired[role]
                 /\ tab'.desired[role] <= tab'.generation
      <3>1. tab.applied[role] <= tab.desired[role] /\ tab.desired[role] <= tab.generation
            /\ tab.applied[role] \in Nat /\ tab.desired[role] \in Nat /\ tab.generation \in Nat
        BY <1>1 DEF Counted, Numbers
      <3>2. tab'.desired[role] = tab.desired[role] \/ tab'.desired[role] = tab'.generation
        BY <1>6
      <3>3. tab'.generation = tab.generation + 1 /\ tab'.applied[role] = tab.applied[role]
        BY <1>6
      <3> QED BY <3>1, <3>2, <3>3
    <2> QED BY <1>6, <2>1, <2>2 DEF Counted
  <1>16. Numbered'
    <2>1. \A r \in Queued' : 0 < r.id /\ r.id <= tab'.generation /\ r.process <= host'.process
      BY <1>1, <1>5, <1>6, <1>8 DEF Numbers
    <2>2. /\ pub'.active.process <= host'.process
          /\ compiler'.request.id <= tab'.generation /\ compiler'.request.process <= host'.process
          /\ Compiling' => 0 < compiler'.request.id
      <3>1. CASE /\ compiler'.request = compiler.request /\ pub'.active = NoRequest
                 /\ compiler'.phase = compiler.phase
        BY <1>1, <1>5, <1>6, <1>10, <3>1 DEF Numbered, Numbers, Compiling
      <3>2. CASE compiler' = Idle /\ pub'.active = pub.active
        BY <1>1, <1>5, <1>6, <1>10, <3>2 DEF Numbered, Numbers, Compiling
      <3>3. CASE compiler'.request = pub'.active /\ pub'.active \in Queued \cup {request}
        BY <1>1, <1>5, <1>6, <1>8, <3>3 DEF Numbers
      <3> QED BY <1>9, <3>1, <3>2, <3>3
    <2>3. \A j \in DOMAIN pipe' : 0 < pipe'[j].id /\ pipe'[j].id <= tab'.generation
      BY <1>1, <1>5, <1>6 DEF Numbered, Numbers
    <2>4. \A i \in DOMAIN replies' :
            replies'[i].id <= tab'.generation /\ replies'[i].process <= host'.process
      BY <1>1, <1>3, <1>5, <1>6 DEF Numbered, Numbers
    <2> QED BY <2>1, <2>2, <2>3, <2>4 DEF Numbered
  <1>17. SentOnce'
    <2>1. Distinct(pub'.queued)
      BY <1>2, <1>8 DEF Sends, SentOnce
    <2>2. Compiling' => \A r \in Queued' : r.id # compiler'.request.id
      <3>1. CASE compiler'.request = compiler.request /\ compiler'.phase = compiler.phase
        <4>1. compiler.request.id <= tab.generation
          BY DEF Numbered
        <4>2. request.id # compiler.request.id
          BY <1>1, <1>6, <4>1 DEF Numbers
        <4> QED BY <1>6, <3>1, <4>2 DEF SentOnce, Compiling
      <3>2. CASE compiler' = Idle
        BY <1>10, <3>2 DEF Compiling
      <3> QED BY <1>9, <3>1, <3>2
    <2>3. \A i \in Answers', j \in DOMAIN pipe' : replies'[i].id < pipe'[j].id
      BY <1>4, <1>5 DEF SentOnce
    <2> QED BY <1>5, <1>11, <1>12, <1>13, <2>1, <2>2, <2>3 DEF SentOnce
  <1>18. Wanted'
    <2> SUFFICES ASSUME NEW role \in Roles, tab'.desired[role] # tab'.generation
                 PROVE  /\ \A r \in Queued' : r.id = tab'.generation => role \notin r.roles
                        /\ Compiling' /\ compiler'.request.id = tab'.generation
                             => role \notin compiler'.request.roles
      BY <1>11, <1>12 DEF Wanted
    <2>1. role \notin request.roles
      BY <1>6
    <2>2. \A r \in Queued \cup {request} : r.id = tab'.generation => r = request
      BY <1>1, <1>6, <1>8 DEF Numbers
    <2>3. Compiling' /\ compiler'.request.id = tab'.generation => compiler'.request = request
      <3>1. CASE compiler'.request = compiler.request
        BY <1>1, <1>6, <3>1 DEF Numbers, Numbered
      <3>2. CASE compiler' = Idle
        BY <1>10, <3>2 DEF Compiling
      <3> QED BY <1>9, <2>2, <3>1, <3>2
    <2> QED BY <1>6, <2>1, <2>2, <2>3
  <1>19. Loaded'
    BY <1>3, <1>5 DEF Loaded
  <1>20. Resident'
    <2>1. InStep' = InStep
      BY <1>5 DEF InStep
    <2>2. ASSUME InStep, NEW role \in Roles
          PROVE  /\ tab'.applied[role] > 0 /\ tab'.applied[role] = tab'.desired[role] =>
                      renderer'.resident[role] = tab'.desired[role]
                 /\ tab'.applied[role] > 0 =>
                      \A j \in DOMAIN pipe' : role \in pipe'[j].roles =>
                        tab'.applied[role] < pipe'[j].id /\ pipe'[j].id <= tab'.desired[role]
      <3>1. /\ tab.applied[role] <= tab.generation /\ tab.desired[role] <= tab.generation
            /\ tab.applied[role] \in Nat /\ tab.desired[role] \in Nat /\ tab.generation \in Nat
        BY <1>1 DEF Counted, Numbers
      <3>2. CASE tab'.desired[role] = tab.desired[role]
        BY <1>5, <1>6, <2>2, <3>2 DEF Resident
      <3>3. CASE tab'.desired[role] = tab.generation + 1
        <4>1. tab'.applied[role] # tab'.desired[role]
          BY <1>6, <3>1, <3>3
        <4>2. \A j \in DOMAIN pipe : pipe[j].id <= tab'.desired[role]
          BY <1>1, <3>3 DEF Numbered, Numbers
        <4> QED BY <1>5, <1>6, <2>2, <4>1, <4>2 DEF Resident
      <3> QED BY <1>6, <3>2, <3>3
    <2> QED BY <1>12, <2>1, <2>2 DEF Resident
  <1>21. NoOrphanCompile'
    BY <1>9, <1>10 DEF NoOrphanCompile
  <1>22. KeyHeld'
    <2>1. request \in Queued' \cup {pub'.active}
      BY <1>9
    <2>2. request # NoRequest
      BY <1>1, <1>6, <1>10 DEF Numbers
    <2>3. request \in Outstanding(pub)'
      BY <2>1, <2>2 DEF Outstanding, Queued
    <2> QED BY <1>6, <2>3 DEF KeyHeld
  <1> QED BY <1>14, <1>15, <1>16, <1>17, <1>18, <1>19, <1>20, <1>21, <1>22


LEMMA CleaningKeeps ==
  ASSUME TypeOK, TypeOK', Invariant, Cleaning
  PROVE  Invariant'
  <1>1. Numbers /\ Numbers'
    BY TypedNumbers, TypedNext
  <1>2. UNCHANGED <<tab, host, renderer, pipe, replies>>
    BY DEF Cleaning
  <1> USE DEF Invariant
  <1>3. /\ pub'.awaiting = pub.awaiting /\ Distinct(pub'.queued)
        /\ \/ /\ CanBegin(pub)
              /\ compiler'.request = pub'.active /\ compiler'.phase = "running"
              /\ Queued = Queued' \cup {pub'.active}
              /\ \A r \in Queued' : r.id # pub'.active.id
           \/ compiler' = Idle /\ pub' = pub
    BY Restarts, Typed DEF Cleaning, Queued, SentOnce
  <1>4. Queued' \subseteq Queued
    BY <1>3 DEF Queued
  <1>5. /\ NoRequest.process = 0 /\ NoRequest.id = 0 /\ Idle.request = NoRequest
        /\ Idle.phase = "none"
    BY DEF NoRequest, Idle
  <1>6. Answers' = Answers
    BY <1>2 DEF Answers
  <1>7. Compiling' => compiler'.request = pub'.active /\ compiler'.request \in Queued
    BY <1>3, <1>5 DEF Compiling
  <1>8. Bounded' /\ Counted' /\ Loaded' /\ Resident'
    BY <1>2, <1>6 DEF Bounded, Counted, Loaded, Resident, InStep
  <1>9. Numbered'
    <2>1. /\ pub'.active.process <= host'.process
          /\ compiler'.request.id <= tab'.generation /\ compiler'.request.process <= host'.process
          /\ Compiling' => 0 < compiler'.request.id
      <3>1. CASE compiler' = Idle /\ pub' = pub
        BY <1>1, <1>2, <1>5, <3>1 DEF Numbered, Numbers, Compiling
      <3>2. CASE compiler'.request = pub'.active /\ pub'.active \in Queued
        BY <1>2, <3>2 DEF Numbered
      <3> QED BY <1>3, <3>1, <3>2
    <2> QED BY <1>2, <1>4, <2>1 DEF Numbered
  <1>10. SentOnce'
    <2>1. Compiling' => \A r \in Queued' : r.id # compiler'.request.id
      BY <1>3, <1>5 DEF Compiling
    <2>2. Unsettled' => Unsettled
      BY <1>2, <1>4, <1>7 DEF Unsettled
    <2> QED BY <1>2, <1>3, <1>6, <2>1, <2>2 DEF SentOnce, Unsettled
  <1>11. Wanted'
    BY <1>2, <1>4, <1>6, <1>7 DEF Wanted
  <1>12. NoOrphanCompile'
    BY <1>3, <1>5 DEF NoOrphanCompile
  <1>13. KeyHeld'
    <2>1. ASSUME NEW r \in Outstanding(pub), r.id = tab.generation
          PROVE  r \in Outstanding(pub)'
      <3>1. r # NoRequest
        BY <1>5, <2>1 DEF Counted
      <3>2. CASE CanBegin(pub) /\ Queued = Queued' \cup {pub'.active}
        <4>1. r \in pub.awaiting \/ r \in Queued
          BY <2>1, <3>1, <3>2 DEF Outstanding, CanBegin, Queued
        <4> QED BY <1>3, <3>1, <3>2, <4>1 DEF Outstanding, Queued
      <3> QED BY <1>3, <2>1, <3>2
    <2> QED BY <1>2, <2>1 DEF KeyHeld, Gated
  <1> QED BY <1>8, <1>9, <1>10, <1>11, <1>12, <1>13

LEMMA ShippingKeeps ==
  ASSUME TypeOK, TypeOK', Invariant, Shipping
  PROVE  Invariant'
  <1>1. Numbers /\ Numbers'
    BY TypedNumbers, TypedNext
  <1> DEFINE id == compiler.request.id
  <1>2. PICK m \in Message : /\ m.id = id /\ m.roles = compiler.request.roles
                             /\ pipe' = Append(pipe, m)
    BY DEF Shipping
  <1>3. /\ UNCHANGED <<tab, host, renderer, replies>> /\ id = tab.generation
        /\ compiler'.request = compiler.request /\ ~ Compiling' /\ Compiling
        /\ compiler'.phase # "running" /\ host.running
    BY DEF Shipping, Compiling
  <1>4. pub' \in [active : {IF pub.active.id = id THEN NoRequest ELSE pub.active},
                  queued : {pub.queued},
                  awaiting : {IF pub.active.id = id THEN pub.awaiting \cup {pub.active}
                                                    ELSE pub.awaiting}]
    BY <1>1, Settles, Typed DEF Shipping, Numbers
  <1>5. Queued' = Queued /\ pub'.queued = pub.queued
    BY <1>4 DEF Queued
  <1>6. NoRequest.process = 0 /\ NoRequest.id = 0
    BY DEF NoRequest
  <1>7. \A j \in DOMAIN pipe' : \/ j \in DOMAIN pipe /\ pipe'[j] = pipe[j]
                                \/ pipe'[j] = m
    BY <1>2, Longer, Typed
  <1>8. \A j, k \in DOMAIN pipe' : j < k => j \in DOMAIN pipe /\ pipe'[j] = pipe[j]
    BY <1>2, Longer, Typed
  <1>9. Answers' = Answers
    BY <1>3 DEF Answers
  <1> USE DEF Invariant
  <1>10. /\ tab.completed < tab.generation
         /\ \A j \in DOMAIN pipe : pipe[j].id < m.id
         /\ \A i \in Answers : replies[i].id < m.id
    BY <1>1, <1>2, <1>3 DEF SentOnce, Numbered, Numbers, Answers
  <1>11. Bounded' /\ Counted' /\ Loaded'
    BY <1>3 DEF Bounded, Counted, Loaded
  <1>12. Numbered'
    <2>1. pub'.active.process <= host'.process
      BY <1>1, <1>3, <1>4, <1>6 DEF Numbered, Numbers
    <2>2. \A j \in DOMAIN pipe' : 0 < pipe'[j].id /\ pipe'[j].id <= tab'.generation
      BY <1>1, <1>2, <1>3, <1>7 DEF Numbered, Numbers
    <2> QED BY <1>3, <1>5, <2>1, <2>2 DEF Numbered
  <1>13. SentOnce'
    <2>1. ~ Unsettled'
      BY <1>3, <1>5 DEF SentOnce, Unsettled
    <2>2. \A j, k \in DOMAIN pipe' : j < k => pipe'[j].id < pipe'[k].id
      <3> SUFFICES ASSUME NEW j \in DOMAIN pipe', NEW k \in DOMAIN pipe', j < k
                   PROVE  pipe'[j].id < pipe'[k].id
        OBVIOUS
      <3>1. j \in DOMAIN pipe /\ pipe'[j] = pipe[j]
        BY <1>8
      <3> QED BY <1>7, <1>10, <3>1 DEF SentOnce
    <2>3. \A i \in Answers', j \in DOMAIN pipe' : replies'[i].id < pipe'[j].id
      BY <1>3, <1>7, <1>9, <1>10 DEF SentOnce
    <2> QED BY <1>3, <1>5, <2>1, <2>2, <2>3 DEF SentOnce, Unsettled
  <1>14. Wanted'
    BY <1>2, <1>3, <1>5, <1>7, <1>9 DEF Wanted
  <1>15. Resident'
    <2>1. InStep' = InStep
      BY <1>3 DEF InStep
    <2>2. ASSUME NEW role \in Roles, tab.applied[role] > 0, role \in m.roles
          PROVE  tab.applied[role] < m.id /\ m.id <= tab.desired[role]
      <3>1. tab.desired[role] = tab.generation
        BY <1>2, <1>3, <1>10, <2>2 DEF Wanted
      <3>2. tab.applied[role] < tab.generation
        BY <1>1, <1>10 DEF Counted, Numbers
      <3> QED BY <1>1, <1>2, <1>3, <3>1, <3>2 DEF Numbers
    <2> QED BY <1>3, <1>7, <1>9, <2>1, <2>2 DEF Resident
  <1>16. NoOrphanCompile'
    BY <1>3 DEF NoOrphanCompile
  <1>17. KeyHeld'
    <2>1. ASSUME NEW r \in Outstanding(pub), r.id = tab.generation
          PROVE  r \in Outstanding(pub)'
      <3>1. r # NoRequest
        BY <1>6, <2>1 DEF Counted
      <3>2. r \notin Queued
        BY <1>3, <2>1 DEF SentOnce
      <3>3. r = pub.active \/ r \in pub.awaiting
        BY <2>1, <3>2 DEF Outstanding, Queued
      <3>4. r \in pub'.awaiting
        BY <1>3, <1>4, <2>1, <3>3
      <3> QED BY <3>1, <3>4 DEF Outstanding
    <2> QED BY <1>3, <2>1 DEF KeyHeld, Gated
  <1> QED BY <1>11, <1>12, <1>13, <1>14, <1>15, <1>16, <1>17


LEMMA UpdateKeeps ==
  ASSUME TypeOK, TypeOK', Invariant, RendererUpdates
  PROVE  Invariant'
  <1>1. Numbers /\ Numbers'
    BY TypedNumbers, TypedNext
  <1> DEFINE m == Head(pipe)
  <1>2. /\ UNCHANGED <<tab, pub, compiler, host>>
        /\ host.running /\ pipe # <<>> /\ pipe' = Tail(pipe)
    BY UpdateDoes
  <1>3. PICK e \in Reply :
          /\ e.id = m.id /\ e.roles = m.roles /\ e.process = host.process
          /\ replies' = Append(replies, e)
          /\ \/ /\ e.event = "applied"
                /\ renderer' \in [loaded : {renderer.loaded}, holds : {renderer.holds},
                     resident : {[r \in Roles |-> IF r \in m.roles THEN m.id
                                                  ELSE renderer.resident[r]]}]
             \/ e.event = "failed" /\ renderer' = renderer
    BY UpdateDoes
  <1>4. m = pipe[1] /\ 1 \in DOMAIN pipe
    BY <1>2, Shorter, Typed
  <1> HIDE DEF m
  <1>5. \A j \in DOMAIN pipe' : j \in Nat /\ j > 0 /\ j + 1 \in DOMAIN pipe /\ pipe'[j] = pipe[j + 1]
    BY <1>2, Shorter, Typed
  <1>6. \A i \in DOMAIN replies' : \/ i \in DOMAIN replies /\ replies'[i] = replies[i]
                                   \/ replies'[i] = e
    BY <1>3, Longer, Typed
  <1>7. \A i \in Answers' : \/ i \in Answers /\ replies'[i] = replies[i]
                            \/ replies'[i] = e
    BY <1>2, <1>6 DEF Answers
  <1>8. renderer'.loaded = renderer.loaded /\ renderer'.holds = renderer.holds
    BY <1>3
  <1>0. Compiling' = Compiling /\ Queued' = Queued
    BY <1>2 DEF Compiling, Queued
  <1> USE DEF Invariant
  <1>9. \A j \in DOMAIN pipe' : m.id < pipe'[j].id
    BY <1>4, <1>5 DEF SentOnce
  <1>10. \A i \in Answers : replies[i].id < m.id
    BY <1>4 DEF SentOnce
  <1>11. 0 < m.id /\ m.id <= tab.generation /\ m.id \in Nat
    BY <1>1, <1>4 DEF Numbered, Numbers
  <1>12. Bounded'
    BY <1>2, <1>3, <1>6, <1>8 DEF Bounded
  <1>13. Counted' /\ NoOrphanCompile' /\ KeyHeld'
    BY <1>2 DEF Counted, NoOrphanCompile, KeyHeld, Gated
  <1>14. Numbered'
    <2>1. \A j \in DOMAIN pipe' : 0 < pipe'[j].id /\ pipe'[j].id <= tab'.generation
      BY <1>2, <1>5 DEF Numbered
    <2>2. \A i \in DOMAIN replies' :
            replies'[i].id <= tab'.generation /\ replies'[i].process <= host'.process
      <3>1. e.id <= tab.generation /\ e.process <= host.process
        BY <1>1, <1>3, <1>11 DEF Numbers
      <3> QED BY <1>2, <1>6, <3>1 DEF Numbered
    <2> QED BY <1>0, <1>2, <2>1, <2>2 DEF Numbered
  <1>15. SentOnce'
    <2>1. Unsettled => /\ \A j \in DOMAIN pipe' : pipe'[j].id # tab.generation
                       /\ \A i \in Answers' : replies'[i].id # tab.generation
      BY <1>3, <1>4, <1>5, <1>7 DEF SentOnce, Unsettled
    <2>2. \A j, k \in DOMAIN pipe' : j < k => pipe'[j].id < pipe'[k].id
      <3> SUFFICES ASSUME NEW j \in DOMAIN pipe', NEW k \in DOMAIN pipe', j < k
                   PROVE  pipe'[j].id < pipe'[k].id
        OBVIOUS
      <3>1. j + 1 < k + 1
        BY <1>5
      <3> QED BY <1>5, <3>1 DEF SentOnce
    <2>3. ASSUME NEW i \in Answers', NEW j \in DOMAIN pipe'
          PROVE  replies'[i].id < pipe'[j].id
      <3>1. CASE i \in Answers /\ replies'[i] = replies[i]
        BY <1>5, <3>1 DEF SentOnce
      <3>2. CASE replies'[i] = e
        BY <1>3, <1>9, <3>2
      <3> QED BY <1>7, <3>1, <3>2
    <2> QED BY <1>0, <1>2, <2>1, <2>2, <2>3 DEF SentOnce, Unsettled
  <1>16. Wanted'
    <2> SUFFICES ASSUME NEW role \in Roles, tab.completed < tab.generation,
                        tab.desired[role] # tab.generation
                 PROVE  /\ \A r \in Queued' : r.id = tab.generation => role \notin r.roles
                        /\ Compiling' /\ compiler.request.id = tab.generation
                             => role \notin compiler.request.roles
                        /\ \A j \in DOMAIN pipe' :
                             pipe'[j].id = tab.generation => role \notin pipe'[j].roles
                        /\ \A i \in Answers' :
                             replies'[i].id = tab.generation => role \notin replies'[i].roles
      BY <1>2 DEF Wanted
    <2>1. /\ \A r \in Queued : r.id = tab.generation => role \notin r.roles
          /\ Compiling /\ compiler.request.id = tab.generation
               => role \notin compiler.request.roles
          /\ \A j \in DOMAIN pipe : pipe[j].id = tab.generation => role \notin pipe[j].roles
          /\ \A i \in Answers : replies[i].id = tab.generation => role \notin replies[i].roles
      BY DEF Wanted
    <2>2. e.id = tab.generation => role \notin e.roles
      BY <1>3, <1>4, <2>1
    <2> QED BY <1>0, <1>5, <1>7, <2>1, <2>2
  <1>17. Loaded'
    <2>1. e.event # "package"
      BY <1>3
    <2> QED BY <1>2, <1>6, <1>8, <2>1 DEF Loaded
  <1>18. Resident'
    <2>1. InStep' = InStep
      BY <1>2, <1>8 DEF InStep
    <2>2. ASSUME InStep, NEW role \in Roles
          PROVE  /\ tab'.applied[role] > 0 /\ tab'.applied[role] = tab'.desired[role] =>
                      renderer'.resident[role] = tab'.desired[role]
                 /\ tab'.applied[role] > 0 =>
                      \A j \in DOMAIN pipe' : role \in pipe'[j].roles =>
                        tab'.applied[role] < pipe'[j].id /\ pipe'[j].id <= tab'.desired[role]
                 /\ \A i \in Answers' :
                      replies'[i].event = "applied" /\ role \in replies'[i].roles
                        /\ replies'[i].id = tab'.generation /\ tab'.completed < tab'.generation
                        => renderer'.resident[role] = tab'.generation
      <3>1. tab.applied[role] > 0 /\ tab.applied[role] = tab.desired[role] => role \notin m.roles
        BY <1>1, <1>4, <2>2 DEF Resident, Numbers
      <3>2. \/ renderer'.resident[role] = renderer.resident[role]
               /\ (role \notin m.roles \/ e.event = "failed")
            \/ renderer'.resident[role] = m.id /\ role \in m.roles /\ e.event = "applied"
        BY <1>3
      <3>3. tab'.applied[role] > 0 /\ tab'.applied[role] = tab'.desired[role] =>
              renderer'.resident[role] = tab'.desired[role]
        BY <1>2, <2>2, <3>1, <3>2 DEF Resident
      <3>4. tab'.applied[role] > 0 =>
              \A j \in DOMAIN pipe' : role \in pipe'[j].roles =>
                tab'.applied[role] < pipe'[j].id /\ pipe'[j].id <= tab'.desired[role]
        BY <1>2, <1>5, <2>2 DEF Resident
      <3>5. \A i \in Answers : replies[i].id # tab.generation
        BY <1>1, <1>10, <1>11 DEF Numbers, Answers
      <3>6. \A i \in Answers' :
              replies'[i].event = "applied" /\ role \in replies'[i].roles
                /\ replies'[i].id = tab'.generation
                => renderer'.resident[role] = tab'.generation
        BY <1>2, <1>3, <1>7, <3>2, <3>5
      <3> QED BY <3>3, <3>4, <3>6
    <2> QED BY <2>1, <2>2 DEF Resident
  <1> QED BY <1>12, <1>13, <1>14, <1>15, <1>16, <1>17, <1>18

LEMMA AnnouncingKeeps ==
  ASSUME TypeOK, TypeOK', Invariant, Announcing
  PROVE  Invariant'
  <1>1. Numbers /\ Numbers'
    BY TypedNumbers, TypedNext
  <1>2. UNCHANGED <<tab, pub, compiler, host, pipe>>
    BY DEF Announcing
  <1>3. PICK e \in Reply :
          /\ e.event \notin {"applied", "failed"} /\ e.id = 0
          /\ e.process = host.process /\ replies' = Append(replies, e)
          /\ e.event = "package" => /\ 0 < e.package /\ e.package <= renderer'.loaded
                                    /\ renderer'.holds
    BY DEF Announcing
  <1>4. \A i \in DOMAIN replies' : \/ i \in DOMAIN replies /\ replies'[i] = replies[i]
                                   \/ replies'[i] = e
    BY <1>3, Longer, Typed
  <1>5. \A i \in Answers' : i \in Answers /\ replies'[i] = replies[i]
    BY <1>2, <1>3, <1>4 DEF Answers
  <1>6. \/ renderer' = renderer
        \/ /\ renderer'.holds
           /\ IF renderer.holds THEN renderer'.loaded = renderer.loaded + 1
                                ELSE renderer'.loaded = renderer.loaded
    BY DEF Announcing
  <1>0. Compiling' = Compiling /\ Queued' = Queued
    BY <1>2 DEF Compiling, Queued
  <1> USE DEF Invariant
  <1>7. Bounded'
    <2>1. host'.process + renderer'.loaded <= 2 + MaxRenewals
      BY <1>2 DEF Announcing
    <2>2. e.event = "package" => e.package # 0
      BY <1>3
    <2> QED BY <1>4, <2>1, <2>2 DEF Bounded
  <1>8. Counted' /\ NoOrphanCompile' /\ KeyHeld'
    BY <1>2 DEF Counted, NoOrphanCompile, KeyHeld, Gated
  <1>9. Numbered'
    <2>1. e.id <= tab.generation /\ e.process <= host.process
      <3>1. 0 <= tab.generation /\ host.process <= host.process
        BY <1>1 DEF Numbers
      <3> QED BY <1>3, <3>1
    <2> QED BY <1>0, <1>2, <1>4, <2>1 DEF Numbered
  <1>10. SentOnce'
    BY <1>0, <1>2, <1>5 DEF SentOnce
  <1>11. Wanted'
    BY <1>0, <1>2, <1>5 DEF Wanted
  <1>12. Loaded'
    <2>1. \A x \in Nat : x <= renderer.loaded /\ renderer.holds
                           => x <= renderer'.loaded /\ renderer'.holds
      BY <1>1, <1>6 DEF Numbers
    <2>2. host'.token[1] = host'.process => host'.token[2] <= renderer'.loaded /\ renderer'.holds
      BY <1>1, <1>2, <2>1 DEF Loaded, Numbers
    <2>3. \A i \in DOMAIN replies :
            replies[i].process = host'.process /\ replies[i].event = "package" =>
              replies[i].package <= renderer'.loaded /\ renderer'.holds
      BY <1>1, <1>2, <2>1 DEF Loaded, Numbers
    <2> QED BY <1>2, <1>3, <1>4, <2>2, <2>3 DEF Loaded
  <1>13. Resident'
    <2>1. CASE renderer' = renderer
      BY <1>2, <1>5, <2>1 DEF Resident, InStep
    <2>2. CASE IF renderer.holds THEN renderer'.loaded = renderer.loaded + 1
                                 ELSE renderer'.loaded = renderer.loaded
      <3>1. ~ InStep'
        BY <1>1, <1>2, <2>2 DEF InStep, Loaded, Numbers
      <3> QED BY <3>1 DEF Resident
    <2> QED BY <1>6, <2>1, <2>2
  <1> QED BY <1>7, <1>8, <1>9, <1>10, <1>11, <1>12, <1>13


LEMMA StartingKeeps ==
  ASSUME TypeOK, TypeOK', Invariant, RendererStarts
  PROVE  Invariant'
  <1>1. Numbers /\ Numbers'
    BY TypedNumbers, TypedNext
  <1> DEFINE process == host.process + 1
  <1>2. /\ UNCHANGED <<tab, compiler, pipe, replies>> /\ ~ host.running
        /\ host.process + renderer.loaded < 2 + MaxRenewals
        /\ pub' = Invalidate(pub, process)
    BY DEF RendererStarts, CanRenew
  <1>3. process \in Nat /\ host.process < process
    BY <1>1 DEF Numbers
  <1>4. host'.process = process /\ host'.token = host.token /\ host'.running
    <2>1. host' = [host EXCEPT !.running = TRUE, !.process = process]
      BY DEF RendererStarts
    <2> HIDE DEF process
    <2> QED BY <2>1, Typed
  <1>5. renderer'.loaded = renderer.loaded
    <2>1. renderer' = [renderer EXCEPT !.holds = FALSE, !.resident = Nothing]
      BY DEF RendererStarts
    <2> HIDE DEF Nothing
    <2> QED BY <2>1, Typed
  <1> HIDE DEF process
  <1>6. pub' \in [active : {IF pub.active.process = process THEN pub.active ELSE NoRequest},
                  queued : {{e \in pub.queued : e.request.process = process}},
                  awaiting : {{r \in pub.awaiting : r.process = process}}]
    BY <1>2, <1>3, Settles, Typed
  <1>7. pub'.queued \subseteq pub.queued /\ Queued' \subseteq Queued
    BY <1>6 DEF Queued, Requests
  <1>8. NoRequest.process = 0
    BY DEF NoRequest
  <1> USE DEF Invariant
  <1>9. \A i \in DOMAIN replies' : replies'[i].process # process
    BY <1>1, <1>2, <1>3 DEF Numbered, Numbers
  <1>10. Answers' = {}
    BY <1>4, <1>9 DEF Answers
  <1>11. pipe' = <<>> /\ DOMAIN pipe' = {}
    BY <1>2 DEF SentOnce
  <1>12. host'.token[1] # host'.process
    BY <1>1, <1>3, <1>4 DEF Loaded, Numbers
  <1>13. Bounded'
    <2>1. host'.process + renderer'.loaded <= 2 + MaxRenewals
      BY <1>1, <1>2, <1>4, <1>5, Bounds DEF Numbers, process
    <2> QED BY <1>2, <2>1 DEF Bounded
  <1>14. Counted'
    BY <1>2 DEF Counted
  <1>15. Numbered'
    <2>1. \A n \in Nat : n <= host.process => n <= host'.process
      BY <1>1, <1>3, <1>4 DEF Numbers
    <2>2. pub'.active.process <= host'.process
      BY <1>1, <1>4, <1>6, <1>8, <2>1 DEF Numbered, Numbers
    <2>3. \A r \in Queued' : 0 < r.id /\ r.id <= tab'.generation /\ r.process <= host'.process
      BY <1>1, <1>2, <1>7, <2>1 DEF Numbered, Numbers
    <2>4. compiler'.request.process <= host'.process
      BY <1>1, <1>2, <2>1 DEF Numbered, Numbers
    <2>5. \A i \in DOMAIN replies' :
            replies'[i].id <= tab'.generation /\ replies'[i].process <= host'.process
      BY <1>1, <1>2, <2>1 DEF Numbered, Numbers
    <2> QED BY <1>2, <1>11, <2>2, <2>3, <2>4, <2>5 DEF Numbered, Compiling
  <1>16. SentOnce'
    <2>1. Distinct(pub'.queued)
      BY <1>7 DEF SentOnce, Distinct
    <2> QED BY <1>2, <1>4, <1>7, <1>10, <1>11, <2>1 DEF SentOnce, Compiling
  <1>17. Wanted'
    BY <1>2, <1>7, <1>10, <1>11 DEF Wanted, Compiling
  <1>18. Loaded'
    <2>1. host'.token[1] <= host'.process
      BY <1>1, <1>3, <1>4 DEF Loaded, Numbers
    <2> QED BY <1>4, <1>9, <1>12, <2>1 DEF Loaded
  <1>19. Resident'
    BY <1>12 DEF Resident, InStep
  <1>20. NoOrphanCompile'
    <2>1. compiler'.request.process # host'.process
      BY <1>1, <1>2, <1>3, <1>4 DEF Numbered, Numbers
    <2> QED BY <2>1 DEF NoOrphanCompile
  <1>21. KeyHeld'
    BY <1>12 DEF KeyHeld
  <1> QED BY <1>13, <1>14, <1>15, <1>16, <1>17, <1>18, <1>19, <1>20, <1>21

LEMMA RenewingKeeps ==
  ASSUME TypeOK, TypeOK', Invariant, Renewing
  PROVE  Invariant'
  <1>1. Numbers /\ Numbers'
    BY TypedNumbers, TypedNext
  <1>2. \A i \in DOMAIN replies' : \E k \in DOMAIN replies : replies'[i] = replies[k]
    BY Reading DEF Renewing, Reads
  <1>3. /\ UNCHANGED <<host.process, host.running, renderer, pipe>>
        /\ compiler'.request = compiler.request /\ (Compiling' <=> Compiling)
        /\ host'.token = <<host.process, Head(replies).package>>
        /\ tab.generation < tab'.generation /\ tab'.completed = tab'.generation
    BY DEF Renewing, Compiling
  <1>4. Queued' = {} /\ pub'.queued = {}
    BY DEF Renewing, Queued, Requests
  <1>5. NoRequest.process = 0
    BY DEF NoRequest
  <1>6. 1 \in DOMAIN replies /\ Head(replies) = replies[1]
    BY Shorter, Typed DEF Renewing
  <1>7. \A n \in Nat : n <= tab.generation => n <= tab'.generation /\ n # tab'.generation
    BY <1>1, <1>3 DEF Numbers
  <1> USE DEF Invariant
  <1>8. Bounded'
    BY <1>2, <1>3 DEF Bounded
  <1>9. Counted'
    <2>1. 0 < tab'.generation /\ tab'.completed <= tab'.generation
      BY <1>1, <1>3 DEF Numbers
    <2>2. \A role \in Roles : /\ tab'.applied[role] = 0 /\ tab'.desired[role] = 0
                               /\ tab'.completedOf[role] = 0
      BY DEF Renewing
    <2>3. 0 <= tab'.generation /\ 0 <= tab'.completed
      BY <1>1 DEF Numbers
    <2> QED BY <2>1, <2>2, <2>3 DEF Counted
  <1>10. Numbered'
    <2>1. pub'.active.process <= host'.process
      BY <1>1, <1>5 DEF Renewing, Numbers
    <2>2. compiler'.request.id <= tab'.generation /\ compiler'.request.process <= host'.process
      BY <1>1, <1>3, <1>7 DEF Numbered, Numbers
    <2>3. \A j \in DOMAIN pipe' : 0 < pipe'[j].id /\ pipe'[j].id <= tab'.generation
      BY <1>1, <1>3, <1>7 DEF Numbered, Numbers
    <2>4. \A i \in DOMAIN replies' :
            replies'[i].id <= tab'.generation /\ replies'[i].process <= host'.process
      BY <1>1, <1>2, <1>3, <1>7 DEF Numbered, Numbers
    <2> QED BY <1>3, <1>4, <2>1, <2>2, <2>3, <2>4 DEF Numbered
  <1>11. SentOnce'
    <2>1. ~ Unsettled'
      BY <1>1, <1>3, <1>4, <1>7 DEF Unsettled, Numbered, Numbers
    <2>2. \A i \in Answers' : \E k \in Answers : replies'[i] = replies[k]
      BY <1>2, <1>3 DEF Answers
    <2>3. \A i \in Answers', j \in DOMAIN pipe' : replies'[i].id < pipe'[j].id
      BY <1>3, <2>2 DEF SentOnce
    <2>4. Distinct(pub'.queued)
      BY <1>4 DEF Distinct
    <2> QED BY <1>3, <1>4, <2>1, <2>3, <2>4 DEF SentOnce, Unsettled
  <1>12. ~ (tab'.completed < tab'.generation)
    BY <1>1, <1>3 DEF Numbers
  <1>13. Wanted'
    BY <1>12 DEF Wanted
  <1>14. Loaded'
    <2>1. host'.token[1] = host'.process /\ host'.token[2] = replies[1].package
      BY <1>3, <1>6
    <2>2. replies[1].package <= renderer.loaded /\ renderer.holds
      BY <1>6 DEF Loaded, Renewing
    <2> QED BY <1>1, <1>2, <1>3, <2>1, <2>2 DEF Loaded, Numbers
  <1>15. Resident'
    BY <1>12 DEF Resident, Renewing
  <1>16. NoOrphanCompile'
    BY DEF Renewing, NoOrphanCompile
  <1>17. KeyHeld'
    BY <1>12 DEF KeyHeld, Gated
  <1> QED BY <1>8, <1>9, <1>10, <1>11, <1>13, <1>14, <1>15, <1>16, <1>17


-----------------------------------------------------------------------------
(* Every action is one of the moves. *)

LEMMA Resting ==
  ASSUME Reads, UNCHANGED <<tab, pub, compiler, renderer, pipe, host.process, host.token,
                            host.running>>
  PROVE  Settling
BY DEF Settling, Compiling

(* The publication the compiler answered is over, for the newest number. *)
LEMMA Concluding ==
  ASSUME TypeOK, Invariant, Compiling, compiler.request.id = tab.generation,
         compiler'.request = compiler.request, compiler'.phase = "ended",
         pub' = CompleteActive(pub, compiler.request.id),
         tab' = Complete(tab, compiler.request.id, compiler.request.roles),
         UNCHANGED <<host, renderer, pipe, replies>>
  PROVE  Settling
  <1>1. Numbers
    BY TypedNumbers
  <1> DEFINE g == tab.generation
             roles == compiler.request.roles
  <1>2. Later(tab.completed, g) = g
    BY <1>1 DEF Invariant, Counted, Numbers, Later
  <1>3. \A role \in Roles : Later(tab.completedOf[role], g) = g
    BY <1>1 DEF Invariant, Counted, Numbers, Later
  <1>4. roles \in SUBSET Roles /\ compiler.request.id = g /\ g \in Nat
    BY <1>1, TypedParts DEF Numbers
  <1>5. tab' \in [generation : {g}, completed : {Later(tab.completed, g)},
                  desired : {tab.desired},
                  completedOf : {[r \in Roles |-> IF r \in roles THEN Later(tab.completedOf[r], g)
                                                  ELSE tab.completedOf[r]]},
                  applied : {tab.applied}, signatureOf : {tab.signatureOf}]
    BY <1>4, Completes
  <1>6. /\ UNCHANGED <<tab.generation, tab.desired, tab.applied>> /\ tab'.completed = g
        /\ \A role \in Roles : tab'.completedOf[role] \in {tab.completedOf[role], g}
    BY <1>2, <1>3, <1>5
  <1>7. pub' \in [active : {IF pub.active.id = g THEN NoRequest ELSE pub.active},
                  queued : {pub.queued}, awaiting : {pub.awaiting}]
    BY <1>4, Settles, Typed
  <1>8. pub'.queued = pub.queued /\ pub'.active \in {pub.active, NoRequest}
    BY <1>7
  <1>9. ~ Unsettled'
    BY <1>6, <1>8 DEF Invariant, SentOnce, Unsettled, Compiling, Queued
  <1>10. /\ UNCHANGED <<renderer, host.process, host.token, pipe, host.running>> /\ Reads
         /\ compiler'.phase # "running" /\ compiler'.request = compiler.request /\ ~ Compiling'
    BY DEF Reads, Compiling
  <1>11. \A role \in Roles : tab'.applied[role] = tab.applied[role]
    BY <1>6
  <1> QED BY <1>6, <1>8, <1>9, <1>10, <1>11 DEF Settling

(* An answer that counts shows what its panes wait for. *)
LEMMA Answering ==
  ASSUME TypeOK, Invariant, HandleReply, MaterialAnswered(Head(replies)),
         Head(replies).process = host.process, Head(replies).event \in {"applied", "failed"},
         UNCHANGED <<compiler, host>>
  PROVE  Settling
  <1> DEFINE e == Head(replies)
             g == tab.generation
  <1>1. Numbers
    BY TypedNumbers
  <1>2. /\ replies # <<>> /\ replies' = Tail(replies) /\ e \in Reply /\ Reads
        /\ UNCHANGED <<renderer, pipe>>
    BY PipesTyped DEF HandleReply, Reads
  <1>3. 1 \in Answers /\ replies[1] = e
    BY <1>2, Shorter, Typed DEF Answers
  <1> HIDE DEF e
  <1>4. CASE UNCHANGED <<tab, pub, posted>>
    BY <1>2, <1>4, Resting
  <1>5. CASE /\ Acknowledges(e) /\ pub' = Acknowledge(pub, e.id)
             /\ UNCHANGED <<tab.generation, tab.desired>>
             /\ tab'.completed = Later(tab.completed, e.id)
             /\ \A role \in Roles :
                  /\ tab'.completedOf[role] = IF role \in e.roles
                                              THEN Later(tab.completedOf[role], e.id)
                                              ELSE tab.completedOf[role]
                  /\ tab'.applied[role] = IF role \in e.roles /\ e.event # "failed"
                                          THEN e.id ELSE tab.applied[role]
    <2>1. e.id = g /\ tab.completed < g
      BY <1>1, <1>5 DEF Acknowledges, Numbers
    <2>2. tab'.completed = g
      BY <1>1, <1>5, <2>1 DEF Later
    <2>3. \A role \in Roles : Later(tab.completedOf[role], e.id) = g
      BY <1>1, <2>1 DEF Invariant, Counted, Numbers, Later
    <2>4. pub' \in [active : {pub.active}, queued : {pub.queued},
                    awaiting : {{r \in pub.awaiting : r.id # e.id}}]
      <3>1. e.id \in Nat
        BY <1>1, <2>1 DEF Numbers
      <3>2. Acknowledge(pub, e.id) \in [active : {pub.active}, queued : {pub.queued},
                    awaiting : {{r \in pub.awaiting : r.id # e.id}}]
        BY <3>1, Settles, Typed
      <3> QED BY <1>5, <3>2
    <2>5. pub'.queued = pub.queued /\ pub'.active = pub.active
      BY <2>4
    <2>6. ~ Unsettled'
      BY <1>3, <1>5, <2>1, <2>5 DEF Invariant, SentOnce, Unsettled, Compiling, Queued
    <2>7. DOMAIN pipe = {}
      <3> SUFFICES ASSUME NEW j \in DOMAIN pipe PROVE FALSE
        OBVIOUS
      <3>1. g < pipe[j].id /\ pipe[j].id <= g
        BY <1>3, <2>1 DEF Invariant, SentOnce, Numbered
      <3> QED BY <1>1, <3>1 DEF Numbers
    <2>8. ASSUME NEW role \in Roles
          PROVE  /\ tab'.completedOf[role] \in {tab.completedOf[role], tab.generation}
                 /\ \/ tab'.applied[role] = tab.applied[role]
                    \/ /\ tab'.applied[role] = tab.generation /\ DOMAIN pipe = {}
                       /\ tab'.completedOf[role] = tab.generation
                       /\ tab.desired[role] = tab.generation
                       /\ InStep => renderer.resident[role] = tab.generation
      <3>1. CASE role \in e.roles /\ e.event # "failed"
        <4>1. e.event = "applied"
          BY <3>1 DEF e
        <4>2. tab.desired[role] = g
          BY <1>3, <2>1, <3>1 DEF Invariant, Wanted
        <4>3. InStep => renderer.resident[role] = g
          BY <1>3, <2>1, <3>1, <4>1 DEF Invariant, Resident
        <4> QED BY <1>5, <2>1, <2>3, <2>7, <3>1, <4>2, <4>3
      <3>2. CASE ~ (role \in e.roles /\ e.event # "failed")
        BY <1>5, <2>3, <3>2
      <3> QED BY <3>1, <3>2
    <2> QED BY <1>2, <1>5, <2>2, <2>5, <2>6, <2>8 DEF Settling, Compiling
  <1> QED BY <1>2, <1>4, <1>5, AnswerDoes DEF e


LEMMA Moves ==
  ASSUME TypeOK, TypeOK', Invariant, [Next]_vars
  PROVE  \/ Settling \/ Ordering \/ Cleaning \/ Shipping \/ Announcing \/ Renewing
         \/ RendererUpdates \/ RendererStarts
  <1> DEFINE Moved == \/ Settling \/ Ordering \/ Cleaning \/ Shipping \/ Announcing \/ Renewing
                      \/ RendererUpdates \/ RendererStarts
  <1> SUFFICES Moved
    OBVIOUS
  <1>0. Numbers
    BY TypedNumbers
  <1>1. ASSUME NEW kind \in Kinds, Ask(kind) PROVE Moved
    <2>1. UNCHANGED <<host, renderer, pipe, replies>> /\ Reads
      BY <1>1 DEF Ask, Reads
    <2>2. CASE UNCHANGED <<tab, cancelled, pub, compiler>>
      BY <2>1, <2>2, Resting
    <2>3. CASE Sending
      BY <2>1, <2>3 DEF Ordering
    <2> QED BY <1>1, <2>2, <2>3, SendDoes DEF Ask, Sending
  <1>2. CASE BindTextures
    <2>1. {Editable} \in SUBSET Roles /\ session.textures + 1 \in Signatures
      BY <1>2, Typed, Bounds DEF BindTextures, Roles, Signatures
    <2>2. Sending
      BY <1>2, <2>1, Publishes DEF BindTextures, Sending
    <2> QED BY <1>2, <2>2 DEF BindTextures, Ordering, Reads
  <1>3. CASE EditGeometry
    BY <1>3, Resting DEF EditGeometry, Reads
  <1>4. CASE CompileEnds \/ ThreadExits
    <2>1. /\ UNCHANGED <<tab, pub, host, renderer, pipe, replies>> /\ Reads
          /\ \/ compiler.phase = "running" /\ \E phase \in {"ended", "completed", "failed"} :
                  compiler' = [compiler EXCEPT !.phase = phase]
             \/ compiler.phase = "ended" /\ compiler' = [compiler EXCEPT !.phase = "exited"]
      BY <1>4 DEF CompileEnds, ThreadExits, Reads
    <2>2. /\ compiler'.request = compiler.request /\ (Compiling' => Compiling)
          /\ compiler'.phase # "running"
      BY <2>1, Typed DEF Compiling
    <2> QED BY <2>1, <2>2 DEF Settling
  <1>5. CASE HandleCompleted
    <2>1. /\ compiler.phase = "completed" /\ compiler'.phase = "ended"
          /\ compiler'.request = compiler.request /\ Compiling
          /\ UNCHANGED <<host, renderer, replies>> /\ Reads
      BY <1>5, HandleCompletedDoes DEF Compiling, Reads
    <2>2. CASE /\ IsCurrent(compiler.request) /\ host.running
               /\ pub' = PublishActive(pub, compiler.request.id) /\ tab' = tab
               /\ \E m \in Message :
                    /\ m.id = compiler.request.id /\ m.roles = compiler.request.roles
                    /\ pipe' = Append(pipe, m)
      BY <2>1, <2>2 DEF Shipping, IsCurrent
    <2>3. CASE /\ IsCurrent(compiler.request)
               /\ pub' = CompleteActive(pub, compiler.request.id)
               /\ tab' = Complete(tab, compiler.request.id, compiler.request.roles)
               /\ pipe' = pipe
      BY <2>1, <2>3, Concluding DEF IsCurrent
    <2>4. CASE UNCHANGED <<pub, tab, pipe>>
      <3>1. ~ Compiling'
        BY <2>1 DEF Compiling
      <3> QED BY <2>1, <2>4, <3>1 DEF Settling
    <2> QED BY <1>5, <2>2, <2>3, <2>4, HandleCompletedDoes
  <1>6. CASE HandleError
    <2>1. /\ compiler.phase = "failed" /\ compiler' = [compiler EXCEPT !.phase = "ended"]
          /\ UNCHANGED <<host, renderer, pipe, replies>> /\ Reads
          /\ \/ /\ compiler.request.id = tab.generation
                /\ pub' = CompleteActive(pub, compiler.request.id)
                /\ tab' = Complete(tab, compiler.request.id, compiler.request.roles)
             \/ UNCHANGED <<pub, tab>>
      BY <1>6 DEF HandleError, Reads
    <2>2. /\ compiler'.phase = "ended" /\ compiler'.request = compiler.request
          /\ Compiling /\ ~ Compiling'
      BY <2>1, Typed DEF Compiling
    <2>3. CASE UNCHANGED <<pub, tab>>
      BY <2>1, <2>2, <2>3 DEF Settling
    <2> QED BY <2>1, <2>2, <2>3, Concluding
  <1>7. CASE RunPosted
    <2>1. UNCHANGED <<host, renderer, pipe, replies>> /\ Reads
      BY <1>7 DEF RunPosted, Reads
    <2>2. CASE StartNext(pub) /\ UNCHANGED <<tab, wanted, cancelled>>
      BY <2>1, <2>2 DEF Cleaning
    <2>3. CASE UNCHANGED <<tab, cancelled, pub, compiler>>
      BY <2>1, <2>3, Resting
    <2>4. CASE Sending
      BY <2>1, <2>4 DEF Ordering
    <2>5. Send("imported") \/ Flush => UNCHANGED <<tab, cancelled, pub, compiler>> \/ Sending
      BY SendDoes, FlushDoes DEF Sending
    <2> QED BY <1>7, <2>2, <2>3, <2>4, <2>5 DEF RunPosted
  <1>8. CASE RendererLoads
    <2> DEFINE package == IF renderer.holds THEN renderer.loaded + 1 ELSE renderer.loaded
               e == Event("package", 0, {}, 0, package)
    <2>1. package \in Packages \ {0}
      BY <1>8, TypedParts, Bounds DEF RendererLoads, CanRenew, Packages
    <2>2. renderer' = [loaded |-> package, holds |-> TRUE, resident |-> Nothing]
          /\ replies' = Append(replies, e) /\ UNCHANGED <<tab, pub, compiler, host, pipe>>
      BY <1>8 DEF RendererLoads
    <2>3. host.process + package <= 2 + MaxRenewals
      BY <1>0, <1>8, Bounds DEF RendererLoads, CanRenew, Numbers, Invariant, Bounded
    <2> HIDE DEF package
    <2>4. e \in Reply /\ e \in [event : {"package"}, id : {0}, roles : {{}}, signature : {0},
                                process : {host.process}, package : {package}]
      BY <2>1, EventTyped, Bounds
    <2>5. 0 < package
      BY <2>1, Bounds DEF Packages
    <2> HIDE DEF e
    <2>6. /\ e.event = "package" /\ e.id = 0 /\ e.process = host.process
          /\ e.package = package
      BY <2>4
    <2>7. renderer'.loaded = package /\ renderer'.holds
      BY <2>2
    <2>8. 0 < e.package /\ e.package <= renderer'.loaded
      BY <2>1, <2>5, <2>6, <2>7 DEF Packages
    <2>9. IF renderer.holds THEN renderer'.loaded = renderer.loaded + 1
                            ELSE renderer'.loaded = renderer.loaded
      BY <2>7 DEF package
    <2> QED BY <2>2, <2>3, <2>4, <2>6, <2>7, <2>8, <2>9 DEF Announcing
  <1>9. CASE RendererWantsSync
    <2> DEFINE e == Event("sync", 0, {}, 0, renderer.loaded)
    <2>1. e \in Reply /\ e \in [event : {"sync"}, id : {0}, roles : {{}}, signature : {0},
                                process : {host.process}, package : {renderer.loaded}]
      BY EventTyped, TypedParts, Bounds
    <2>2. replies' = Append(replies, e) /\ UNCHANGED <<tab, pub, compiler, host, pipe, renderer>>
      BY <1>9 DEF RendererWantsSync
    <2> HIDE DEF e
    <2>3. e.event = "sync" /\ e.id = 0 /\ e.process = host.process
      BY <2>1
    <2> QED BY <2>1, <2>2, <2>3 DEF Announcing, Invariant, Bounded
  <1>10. CASE RendererDies \/ StopEditor
    <2>1. /\ host' = [host EXCEPT !.running = FALSE] /\ pipe' = <<>>
          /\ UNCHANGED <<tab, renderer, replies>> /\ Reads
          /\ \/ UNCHANGED <<pub, compiler>>
             \/ pub' = CancelAll(pub) /\ compiler' = Stopped
      BY <1>10 DEF RendererDies, StopEditor, CancelCompile, Reads
    <2>2. UNCHANGED <<host.process, host.token>> /\ ~ host'.running
      BY <2>1, Typed
    <2>3. /\ pub'.queued \subseteq pub.queued /\ pub'.active \in {pub.active, NoRequest}
      BY <2>1 DEF CancelAll
    <2>4. /\ compiler'.request = compiler.request /\ (Compiling' => Compiling)
          /\ \/ UNCHANGED <<compiler, pub>>
             \/ compiler'.phase # "running" \/ compiler'.stopped
      <3>1. CASE compiler' = Stopped
        BY <3>1, StoppedTyped DEF Compiling
      <3> QED BY <2>1, <3>1 DEF Compiling
    <2> QED BY <2>1, <2>2, <2>3, <2>4 DEF Settling
  <1>11. CASE HandleReply
    <2> DEFINE e == Head(replies)
    <2>1. /\ replies # <<>> /\ replies' = Tail(replies) /\ e \in Reply /\ Reads
          /\ UNCHANGED <<renderer, pipe>>
      BY <1>11, PipesTyped DEF HandleReply, Reads
    <2>2. CASE UNCHANGED <<tab, cancelled, pub, compiler, posted, host>>
      BY <2>1, <2>2, Resting
    <2>3. CASE e.process = host.process /\ e.event = "package" /\ PackageApplied(e)
      <3>1. e.package # 0
        <4>1. 1 \in DOMAIN replies /\ e = replies[1]
          BY <2>1, Shorter, Typed
        <4> HIDE DEF e
        <4> QED BY <2>3, <4>1 DEF Invariant, Bounded
      <3>2. /\ host' \in [process : {host.process}, package : {e.package},
                          token : {<<host.process, e.package>>}, running : {host.running}]
            /\ \/ /\ host.token = <<host.process, e.package>>
                  /\ UNCHANGED <<tab, cancelled, pub, compiler, posted>>
               \/ /\ pub' = CancelAll(pub) /\ compiler' = Stopped
                  /\ tab' \in [generation : {Boundary}, completed : {Boundary},
                               desired : {Nothing}, completedOf : {Nothing},
                               applied : {Nothing}, signatureOf : {Nothing}]
        BY <2>1, <2>3, <3>1, PackageDoes
      <3> HIDE DEF e
      <3>3. /\ host'.process = host.process /\ host'.running = host.running
            /\ host'.token = <<host.process, e.package>>
        BY <3>2
      <3>4. CASE host.token = <<host.process, e.package>>
                 /\ UNCHANGED <<tab, cancelled, pub, compiler, posted>>
        BY <2>1, <3>3, <3>4, Resting
      <3>5. CASE /\ pub' = CancelAll(pub) /\ compiler' = Stopped
                 /\ tab' \in [generation : {Boundary}, completed : {Boundary},
                              desired : {Nothing}, completedOf : {Nothing},
                              applied : {Nothing}, signatureOf : {Nothing}]
        <4>1. tab.generation < Boundary
          BY <1>0 DEF Boundary, Later, Numbers
        <4>2. /\ tab'.generation = Boundary /\ tab'.completed = Boundary
              /\ \A role \in Roles : /\ tab'.applied[role] = 0 /\ tab'.desired[role] = 0
                                     /\ tab'.completedOf[role] = 0
          BY <3>5, NothingTyped
        <4>3. pub'.queued = {} /\ pub'.active = NoRequest
          BY <3>5 DEF CancelAll
        <4>4. /\ compiler'.request = compiler.request /\ compiler'.phase = compiler.phase
              /\ compiler.phase # "none" => compiler'.stopped
          BY <3>5, StoppedTyped
        <4> QED BY <2>1, <2>3, <3>3, <4>1, <4>2, <4>3, <4>4 DEF Renewing, e
      <3> QED BY <3>2, <3>4, <3>5
    <2>4. CASE Publish({Editable}, WorkingSignature) /\ UNCHANGED <<posted, host>>
      <3>1. {Editable} \in SUBSET Roles /\ WorkingSignature \in Signatures
        BY Bounds DEF Roles, WorkingSignature
      <3>2. Sending
        BY <2>4, <3>1, Publishes DEF Sending
      <3> QED BY <2>1, <2>4, <3>2 DEF Ordering
    <2>5. CASE /\ e.process = host.process /\ e.event \in {"applied", "failed"}
               /\ MaterialAnswered(e) /\ UNCHANGED <<cancelled, compiler, host>>
      BY <1>11, <2>5, Answering
    <2> QED BY <1>11, <2>2, <2>3, <2>4, <2>5 DEF HandleReply
  <1>12. CASE UNCHANGED vars
    BY <1>12, Resting DEF vars, Reads
  <1> QED BY <1>1, <1>2, <1>3, <1>4, <1>5, <1>6, <1>7, <1>8, <1>9, <1>10, <1>11, <1>12 DEF Next

LEMMA InvariantStep == TypeOK /\ Invariant /\ [Next]_vars => TypeOK' /\ Invariant'
  <1> SUFFICES ASSUME TypeOK, Invariant, [Next]_vars PROVE TypeOK' /\ Invariant'
    OBVIOUS
  <1>1. TypeOK'
    BY TypeStep DEF Invariant
  <1>2. Invariant'
    BY <1>1, Moves, SettlingKeeps, OrderingKeeps, CleaningKeeps, ShippingKeeps,
       AnnouncingKeeps, RenewingKeeps, UpdateKeeps, StartingKeeps
  <1> QED BY <1>1, <1>2

LEMMA InitInvariant == Init => Invariant
  <1> SUFFICES ASSUME Init PROVE Invariant
    OBVIOUS
  <1>1. /\ tab.generation = 1 /\ tab.completed = 1
        /\ \A role \in Roles : /\ tab.applied[role] = 0 /\ tab.desired[role] = 0
                               /\ tab.completedOf[role] = 0
    BY NothingTyped DEF Init
  <1>2. /\ pub.active = NoRequest /\ pub.queued = {} /\ Queued = {}
        /\ compiler.request = NoRequest /\ compiler.phase = "none" /\ ~ Compiling
    BY DEF Init, Queued, Requests, Idle, Compiling
  <1>3. NoRequest.id = 0 /\ NoRequest.process = 0
    BY DEF NoRequest
  <1>4. /\ host.process = 1 /\ host.token[1] = 1 /\ host.token[2] = 1 /\ host.running
        /\ renderer.loaded = 1 /\ renderer.holds
    BY DEF Init
  <1>5. DOMAIN pipe = {} /\ DOMAIN replies = {} /\ Answers = {}
    BY DEF Init, Answers
  <1>6. Bounded
    BY InitTyped
  <1>7. Counted
    BY <1>1 DEF Counted
  <1>8. Numbered
    BY <1>1, <1>2, <1>3, <1>4, <1>5 DEF Numbered
  <1>9. SentOnce
    BY <1>2, <1>4, <1>5 DEF SentOnce, Distinct
  <1>10. Wanted
    BY <1>1 DEF Wanted
  <1>11. Loaded
    BY <1>4, <1>5 DEF Loaded
  <1>12. Resident
    BY <1>1, <1>5 DEF Resident
  <1>13. NoOrphanCompile
    BY <1>2 DEF NoOrphanCompile
  <1>14. KeyHeld
    BY <1>1 DEF KeyHeld, Gated
  <1> QED BY <1>6, <1>7, <1>8, <1>9, <1>10, <1>11, <1>12, <1>13, <1>14 DEF Invariant

LEMMA InvariantHolds == Spec => [](TypeOK /\ Invariant)
  <1>1. Init => TypeOK /\ Invariant
    BY InitTyped, InitInvariant
  <1> QED BY <1>1, InvariantStep, PTL DEF Spec

-----------------------------------------------------------------------------
(* Why the key is turned: a publication whose compile ended out of date keeps  *)
(* the coordinator's slot, and what is posted to send it anew comes before the *)
(* clean-up of its thread.                                                     *)

Fresh ==
  /\ tab.completed < tab.generation
  /\ \A j \in DOMAIN pipe : pipe[j].id # tab.generation
  /\ \A i \in Answers : replies[i].id # tab.generation

(* The active publication is what the compiler works on, while it works. *)
Tied ==
  pub.active # NoRequest =>
    /\ pub.active.id <= tab.generation
    /\ CompilerBusy => compiler.request = pub.active /\ ~ compiler.stopped

(* One clean-up is posted, by the thread that is gone. *)
Cleanups ==
  /\ \A i \in DOMAIN posted : posted[i].call = "cleanup" => compiler.phase = "exited"
  /\ \A i, k \in DOMAIN posted :
       posted[i].call = "cleanup" /\ posted[k].call = "cleanup" => i = k

ResendDue ==
  \E i \in DOMAIN posted :
    /\ posted[i].call = "resend"
    /\ \A k \in DOMAIN posted : k < i => posted[k].call # "cleanup"

Stalled == pub.active # NoRequest /\ pub.active.id = tab.generation /\ ~ Compiling

Resent ==
  Stalled =>
    /\ Fresh
    /\ Editable \in pub.active.roles =>
         /\ tab.desired[Editable] = tab.generation
         /\ compiler.phase \in {"ended", "exited"} /\ ResendDue

Manned == Tied /\ Cleanups /\ Resent

(* What may happen to the posted calls beside a clean-up or a sending anew. *)
Calls ==
  \/ posted' = posted
  \/ \E c \in Callback : c.call # "cleanup" /\ posted' = Append(posted, c)
  \/ posted # <<>> /\ Head(posted).call \notin {"cleanup", "resend"} /\ posted' = Tail(posted)

LEMMA CallsTyped == TypeOK => posted \in Seq(Callback) /\ \A i \in DOMAIN posted : i \in Nat
BY Typed

(* A step that leaves the thread's end alone posts no second clean-up. *)
LEMMA CleanupsKept ==
  ASSUME TypeOK, Cleanups,
         Calls \/ (posted # <<>> /\ posted' = Tail(posted)),
         compiler'.phase = compiler.phase \/ compiler.phase # "exited"
  PROVE  Cleanups'
  <1>1. posted \in Seq(Callback)
    BY Typed
  <1>2. CASE posted' = posted
    BY <1>2 DEF Cleanups
  <1>3. ASSUME NEW c \in Callback, c.call # "cleanup", posted' = Append(posted, c)
        PROVE  Cleanups'
    <2>1. \A i \in DOMAIN posted' :
            posted'[i].call = "cleanup" => i \in DOMAIN posted /\ posted'[i] = posted[i]
      BY <1>1, <1>3, Longer
    <2> QED BY <2>1 DEF Cleanups
  <1>4. CASE posted # <<>> /\ posted' = Tail(posted)
    <2>1. \A i \in DOMAIN posted' :
            i \in Nat /\ i + 1 \in DOMAIN posted /\ posted'[i] = posted[i + 1]
      BY <1>1, <1>4, Shorter
    <2>2. ASSUME NEW i \in DOMAIN posted', NEW k \in DOMAIN posted',
                 posted'[i].call = "cleanup", posted'[k].call = "cleanup"
          PROVE  i = k
      <3>1. i + 1 = k + 1
        BY <2>1, <2>2 DEF Cleanups
      <3> QED BY <2>1, <3>1
    <2> QED BY <2>1, <2>2 DEF Cleanups
  <1> QED BY <1>2, <1>3, <1>4 DEF Calls

LEMMA ResendKept ==
  ASSUME TypeOK, ResendDue, Calls
  PROVE  ResendDue'
  <1>1. posted \in Seq(Callback)
    BY Typed
  <1>2. PICK i \in DOMAIN posted :
          /\ posted[i].call = "resend"
          /\ \A k \in DOMAIN posted : k < i => posted[k].call # "cleanup"
    BY DEF ResendDue
  <1>3. CASE posted' = posted
    BY <1>3 DEF ResendDue
  <1>4. ASSUME NEW c \in Callback, c.call # "cleanup", posted' = Append(posted, c)
        PROVE  ResendDue'
    <2>1. i \in DOMAIN posted' /\ posted'[i] = posted[i]
      BY <1>1, <1>4
    <2>2. \A k \in DOMAIN posted' :
            posted'[k].call = "cleanup" => k \in DOMAIN posted /\ posted'[k] = posted[k]
      BY <1>1, <1>4, Longer
    <2> QED BY <1>2, <2>1, <2>2 DEF ResendDue
  <1>5. CASE posted # <<>> /\ Head(posted).call # "resend" /\ posted' = Tail(posted)
    <2>1. Head(posted) = posted[1] /\ i \in Nat \ {0}
      BY <1>1, <1>5, Shorter
    <2>2. i # 1
      BY <1>2, <1>5, <2>1
    <2>3. i - 1 \in DOMAIN posted' /\ posted'[i - 1] = posted[i]
      BY <1>1, <1>5, <2>1, <2>2
    <2>4. \A k \in DOMAIN posted' :
            k \in Nat /\ k + 1 \in DOMAIN posted /\ posted'[k] = posted[k + 1]
      BY <1>1, <1>5, Shorter
    <2>5. \A k \in DOMAIN posted' : k < i - 1 => posted'[k].call # "cleanup"
      BY <1>2, <2>1, <2>4
    <2> QED BY <1>2, <2>3, <2>5 DEF ResendDue
  <1> QED BY <1>3, <1>4, <1>5 DEF Calls

(* The slot is given back. *)
LEMMA DroppedKeeps ==
  ASSUME pub'.active = NoRequest, Cleanups'
  PROVE  Manned'
BY DEF Manned, Tied, Resent, Stalled

(* The slot is taken by what a new thread compiles. *)
LEMMA StartedKeeps ==
  ASSUME Invariant', Cleanups', Compiling', compiler'.request = pub'.active, ~ compiler'.stopped
  PROVE  Manned'
BY DEF Manned, Tied, Resent, Stalled, Invariant, Numbered

(* Compiles go on; a publication that stalled gets no answer meanwhile. *)
LEMMA StillKeeps ==
  ASSUME TypeOK, Invariant', Manned, Calls,
         compiler' = compiler, pub'.active = pub.active,
         tab'.generation = tab.generation, tab'.desired = tab.desired,
         Stalled => (Fresh => Fresh')
  PROVE  Manned'
  <1>1. Cleanups'
    BY CleanupsKept DEF Manned
  <1>2. Tied'
    BY DEF Manned, Tied, CompilerBusy
  <1>3. Stalled' => Stalled
    BY DEF Stalled, Compiling
  <1>4. Resent'
    BY <1>3, ResendKept DEF Manned, Resent
  <1> QED BY <1>1, <1>2, <1>4 DEF Manned

LEMMA FreshKept ==
  ASSUME UNCHANGED <<tab.generation, tab.completed, host.process>>, Fresh,
         \A j \in DOMAIN pipe' : \E k \in DOMAIN pipe : pipe'[j] = pipe[k],
         \A i \in DOMAIN replies' : \/ \E k \in DOMAIN replies : replies'[i] = replies[k]
                                    \/ replies'[i].id # tab.generation
                                    \/ replies'[i].event \notin {"applied", "failed"}
  PROVE  Fresh'
BY DEF Fresh, Answers

(* A newer number takes the slot of a compile that runs. *)
LEMMA SendsKeeps ==
  ASSUME TypeOK, TypeOK', Invariant, Invariant', Manned, Sending,
         posted' = posted \/ (posted # <<>> /\ posted' = Tail(posted))
  PROVE  Manned'
  <1>1. PICK request \in Request : Sends(request)
    BY DEF Sending
  <1>2. Numbers
    BY TypedNumbers
  <1>3. Calls \/ (posted # <<>> /\ posted' = Tail(posted))
    BY DEF Calls
  <1>4. CASE pub'.active = NoRequest /\ compiler'.phase = compiler.phase
    <2>1. Cleanups'
      BY <1>3, <1>4, CleanupsKept DEF Manned
    <2> QED BY <1>4, <2>1, DroppedKeeps
  <1>5. CASE compiler' = Idle /\ compiler.phase = "none" /\ pub'.active = pub.active
    <2>1. Cleanups'
      BY <1>3, <1>5, CleanupsKept DEF Manned
    <2>2. tab'.generation = tab.generation + 1
      BY <1>1 DEF Sends
    <2>3. pub.active # NoRequest => /\ pub'.active.id <= tab'.generation
                                    /\ pub'.active.id # tab'.generation
      BY <1>2, <1>5, <2>2 DEF Manned, Tied, Numbers
    <2>4. ~ CompilerBusy'
      BY <1>5 DEF CompilerBusy, Idle
    <2> QED BY <1>5, <2>1, <2>3, <2>4 DEF Manned, Tied, Resent, Stalled
  <1>6. CASE /\ compiler'.request = pub'.active /\ ~ compiler'.stopped
             /\ compiler'.phase = "running" /\ compiler.phase = "none"
    <2>1. Cleanups'
      BY <1>3, <1>6, CleanupsKept DEF Manned
    <2>2. Compiling'
      BY <1>6 DEF Compiling
    <2> QED BY <1>6, <2>1, <2>2, StartedKeeps
  <1> QED BY <1>1, <1>4, <1>5, <1>6 DEF Sends

(* The compiler thread: only one that was stopped leaves without an answer, and *)
(* what was posted to send anew is ahead of the clean-up it posts.              *)
LEMMA ThreadKeeps ==
  ASSUME TypeOK, TypeOK', Invariant, Invariant', Manned, CompileEnds \/ ThreadExits
  PROVE  Manned'
  <1>1. /\ compiler \in [request : Request, stopped : BOOLEAN, phase : Phases]
        /\ posted \in Seq(Callback)
    BY Typed
  <1>2. UNCHANGED <<tab, pub, host, pipe, replies>>
    BY DEF CompileEnds, ThreadExits
  <1>3. CASE CompileEnds
    <2>1. posted' = posted /\ compiler.phase = "running" /\ Calls
      BY <1>3 DEF CompileEnds, Calls
    <2>2. Cleanups'
      BY <2>1, CleanupsKept DEF Manned
    <2>3. CASE compiler.stopped
      <3>1. pub'.active = NoRequest
        BY <1>2, <2>1, <2>3 DEF Manned, Tied, CompilerBusy
      <3> QED BY <2>2, <3>1, DroppedKeeps
    <2>4. CASE ~ compiler.stopped
      <3>1. /\ compiler'.request = compiler.request /\ compiler'.stopped = compiler.stopped
            /\ Compiling' /\ CompilerBusy
        BY <1>1, <1>3, <2>1, <2>4 DEF CompileEnds, Compiling, CompilerBusy
      <3>2. Tied' /\ ~ Stalled'
        BY <1>2, <3>1 DEF Manned, Tied, Stalled, CompilerBusy
      <3> QED BY <2>2, <3>2 DEF Manned, Resent
    <2> QED BY <2>3, <2>4
  <1>4. CASE ThreadExits
    <2>1. /\ compiler.phase = "ended" /\ compiler'.phase = "exited"
          /\ compiler'.request = compiler.request /\ compiler'.stopped = compiler.stopped
          /\ posted' = Append(posted, Call("cleanup"))
      BY <1>1, <1>4 DEF ThreadExits
    <2>2. Call("cleanup") \in Callback
      BY CallTyped
    <2>3. \A i \in DOMAIN posted' : \/ i \in DOMAIN posted /\ posted'[i] = posted[i]
                                    \/ i = Len(posted) + 1
      BY <1>1, <2>1, <2>2, Longer
    <2>4. \A i \in DOMAIN posted : posted[i].call # "cleanup"
      BY <2>1 DEF Manned, Cleanups
    <2>5. Cleanups'
      BY <2>1, <2>3, <2>4 DEF Cleanups
    <2>6. ResendDue => ResendDue'
      <3> SUFFICES ASSUME ResendDue PROVE ResendDue'
        OBVIOUS
      <3>1. PICK i \in DOMAIN posted : posted[i].call = "resend"
        BY DEF ResendDue
      <3>2. i \in DOMAIN posted' /\ posted'[i] = posted[i]
        BY <1>1, <2>1
      <3>3. \A k \in DOMAIN posted' : k < i => k \in DOMAIN posted /\ posted'[k] = posted[k]
        BY <1>1, <2>1, <2>2, <3>2, Longer
      <3> QED BY <2>4, <3>1, <3>2, <3>3 DEF ResendDue
    <2>7. Tied'
      BY <1>2, <2>1 DEF Manned, Tied, CompilerBusy
    <2>8. Resent'
      BY <1>2, <2>1, <2>6 DEF Manned, Resent, Stalled, Compiling, Fresh, Answers
    <2> QED BY <2>5, <2>7, <2>8 DEF Manned
  <1> QED BY <1>3, <1>4

(* The main loop handles an answer of the compiler: the publication is handed *)
(* on, or it is the newest, out of date, and posted to be sent anew.          *)
LEMMA HandlingKeeps ==
  ASSUME TypeOK, TypeOK', Invariant, Invariant', Manned, HandleCompleted \/ HandleError
  PROVE  Manned'
  <1>1. /\ compiler \in [request : Request, stopped : BOOLEAN, phase : Phases]
        /\ pub \in Coordinator /\ compiler.request.id \in Nat
    BY Typed, TypedParts
  <1>2. /\ compiler.phase \in {"completed", "failed"} /\ compiler'.phase = "ended"
        /\ compiler'.request = compiler.request /\ compiler'.stopped = compiler.stopped
        /\ UNCHANGED <<host, replies>>
    BY <1>1 DEF HandleCompleted, HandleError
  <1>3. Compiling /\ CompilerBusy /\ compiler.phase # "exited"
    BY <1>2 DEF Compiling, CompilerBusy
  <1>4. Calls
    BY CallTyped DEF HandleCompleted, HandleError, Calls, Call
  <1>5. Cleanups' /\ \A i \in DOMAIN posted' : posted'[i].call # "cleanup"
    <2>1. Cleanups'
      BY <1>3, <1>4, CleanupsKept DEF Manned
    <2> QED BY <1>2, <2>1 DEF Cleanups
  <1>6. pub.active # NoRequest => compiler.request = pub.active /\ ~ compiler.stopped
    BY <1>3 DEF Manned, Tied
  <1>7. CASE \/ pub' = PublishActive(pub, compiler.request.id)
             \/ pub' = CompleteActive(pub, compiler.request.id)
    <2>1. pub'.active = IF pub.active.id = compiler.request.id THEN NoRequest ELSE pub.active
      BY <1>1, <1>7, Settles
    <2>2. pub'.active = NoRequest
      BY <1>6, <2>1
    <2> QED BY <1>5, <2>2, DroppedKeeps
  <1>8. CASE UNCHANGED <<pub, tab, pipe>>
    <2>1. Tied'
      BY <1>2, <1>6, <1>8 DEF Manned, Tied
    <2>2. ASSUME Stalled' PROVE compiler.request = pub.active /\ compiler.request.id = tab.generation
      BY <1>6, <1>8, <2>2 DEF Stalled
    <2>3. Stalled' => Fresh'
      BY <1>2, <1>3, <1>8, <2>2 DEF Invariant, SentOnce, Fresh, Answers
    <2>4. Stalled' /\ Editable \in pub'.active.roles => tab'.desired[Editable] = tab'.generation
      <3>1. Editable \in Roles
        BY DEF Roles
      <3> QED BY <1>3, <1>8, <2>2, <2>3, <3>1 DEF Invariant, Wanted, Fresh
    <2>5. Stalled' => ResendDue'
      <3> SUFFICES ASSUME Stalled' PROVE ResendDue'
        OBVIOUS
      <3>1. posted' = Append(posted, Call("resend"))
        <4>1. compiler.phase = "completed" \/ ~ HandleCompleted
          BY DEF HandleCompleted
        <4>2. ~ (HandleError /\ compiler.request.id = tab.generation)
          <5>1. ASSUME HandleError PROVE compiler.request.id # tab.generation
            <6> SUFFICES ASSUME compiler.request.id = tab.generation PROVE FALSE
              OBVIOUS
            <6>1. pub' = CompleteActive(pub, compiler.request.id)
              BY <5>1 DEF HandleError
            <6>2. pub'.active = NoRequest
              BY <1>1, <2>2, <6>1, Settles
            <6> QED BY <6>2 DEF Stalled
          <5> QED BY <5>1
        <4>3. HandleCompleted
          BY <2>2, <4>2
        <4>4. ~ IsCurrent(compiler.request)
          <5> SUFFICES ASSUME IsCurrent(compiler.request) PROVE FALSE
            OBVIOUS
          <5>1. \/ pub' = PublishActive(pub, compiler.request.id)
                \/ pub' = CompleteActive(pub, compiler.request.id)
            BY <4>3 DEF HandleCompleted
          <5>2. pub'.active = NoRequest
            BY <1>1, <2>2, <5>1, Settles
          <5> QED BY <5>2 DEF Stalled
        <4> QED BY <2>2, <4>3, <4>4 DEF HandleCompleted
      <3>2. posted \in Seq(Callback) /\ Call("resend") \in Callback
        BY Typed, CallTyped
      <3>3. Len(posted) + 1 \in DOMAIN posted' /\ posted'[Len(posted) + 1] = Call("resend")
        BY <3>1, <3>2
      <3>4. Call("resend").call = "resend"
        BY DEF Call
      <3> QED BY <1>5, <3>3, <3>4 DEF ResendDue
    <2> QED BY <1>2, <1>5, <2>1, <2>3, <2>4, <2>5 DEF Manned, Resent
  <1> QED BY <1>7, <1>8 DEF HandleCompleted, HandleError

(* What is posted to send anew is never taken for what is resident: its pane *)
(* still waits for the newest number.                                        *)
LEMMA RunKeeps ==
  ASSUME TypeOK, TypeOK', Invariant, Invariant', Manned, RunPosted
  PROVE  Manned'
  <1>1. /\ posted \in Seq(Callback) /\ pub \in Coordinator
        /\ posted # <<>> /\ posted' = Tail(posted)
        /\ UNCHANGED <<host, renderer, pipe, replies>>
    BY Typed DEF RunPosted
  <1>2. 1 \in DOMAIN posted /\ Head(posted) = posted[1]
    BY <1>1, Shorter
  <1> DEFINE call == Head(posted).call
  <1>3. CASE call = "cleanup"
    <2>1. StartNext(pub) /\ UNCHANGED <<tab, wanted, cancelled>>
      BY <1>3 DEF RunPosted
    <2>2. \A i \in DOMAIN posted' : posted'[i].call # "cleanup"
      <3>1. \A i \in DOMAIN posted' :
              i \in Nat /\ i > 0 /\ i + 1 \in DOMAIN posted /\ posted'[i] = posted[i + 1]
        BY <1>1, Shorter
      <3>2. ASSUME NEW i \in DOMAIN posted', posted'[i].call = "cleanup" PROVE FALSE
        <4>1. i + 1 = 1
          BY <1>2, <1>3, <3>1, <3>2 DEF Manned, Cleanups
        <4> QED BY <3>1, <4>1
      <3> QED BY <3>2
    <2>3. Cleanups'
      BY <2>2 DEF Cleanups
    <2>4. \/ /\ compiler'.request = pub'.active /\ ~ compiler'.stopped
             /\ compiler'.phase = "running"
          \/ compiler' = Idle /\ pub' = pub
      BY <1>1, <2>1, Restarts
    <2>5. CASE /\ compiler'.request = pub'.active /\ ~ compiler'.stopped
               /\ compiler'.phase = "running"
      BY <2>3, <2>5, StartedKeeps DEF Compiling
    <2>6. CASE compiler' = Idle /\ pub' = pub
      <3>1. ~ ResendDue
        <4> SUFFICES ASSUME ResendDue PROVE FALSE
          OBVIOUS
        <4>1. PICK i \in DOMAIN posted :
                /\ posted[i].call = "resend"
                /\ \A k \in DOMAIN posted : k < i => posted[k].call # "cleanup"
          BY DEF ResendDue
        <4>2. ~ (1 < i) /\ i # 1
          BY <1>2, <1>3, <4>1
        <4> QED BY <1>1, <4>2
      <3>2. compiler.phase = "exited"
        BY <1>2, <1>3 DEF Manned, Cleanups
      <3>3. Stalled' => Stalled
        BY <2>1, <2>6, <3>2 DEF Stalled, Compiling
      <3>4. Stalled => Fresh /\ Editable \notin pub.active.roles
        BY <3>1 DEF Manned, Resent
      <3>5. Fresh => Fresh'
        BY <1>1, <2>1 DEF Fresh, Answers
      <3>6. Tied'
        BY <2>1, <2>6 DEF Manned, Tied, CompilerBusy, Idle
      <3> QED BY <2>3, <2>6, <3>3, <3>4, <3>5, <3>6 DEF Manned, Resent
    <2> QED BY <2>4, <2>5, <2>6
  <1>4. CASE Sending
    BY <1>1, <1>4, SendsKeeps
  <1>5. CASE /\ call = "resend" /\ Send("imported")
             /\ UNCHANGED <<tab, cancelled, pub, compiler>> /\ ~ Sending
    <2>1. Deduplicated(Editable, WorkingSignature)
      <3>1. {Editable} \in SUBSET Roles /\ WorkingSignature \in Signatures
        BY Bounds DEF Roles, WorkingSignature
      <3>2. ~ Publish({Editable}, WorkingSignature)
        BY <1>5, <3>1, Publishes DEF Sending
      <3> QED BY <1>5, <3>2 DEF Send, RolesOf, PrimaryOf
    <2>2. Editable \in Roles /\ Numbers
      BY TypedNumbers DEF Roles
    <2>3. Stalled => tab.desired[Editable] # tab.generation
      <3> SUFFICES ASSUME Stalled, tab.desired[Editable] = tab.generation PROVE FALSE
        OBVIOUS
      <3>1. tab.completed < tab.generation
        BY DEF Manned, Resent, Fresh
      <3>2. tab.completedOf[Editable] <= tab.completed
        BY <2>2 DEF Invariant, Counted
      <3>3. tab.desired[Editable] <= tab.completedOf[Editable]
        BY <2>1 DEF Deduplicated
      <3> QED BY <2>2, <3>1, <3>2, <3>3 DEF Numbers
    <2>4. Cleanups'
      BY <1>1, <1>5, CleanupsKept DEF Manned
    <2>5. Tied' /\ (Stalled' => Stalled) /\ (Fresh => Fresh')
      BY <1>1, <1>5 DEF Manned, Tied, CompilerBusy, Stalled, Compiling, Fresh, Answers
    <2>6. Stalled' => Fresh' /\ Editable \notin pub'.active.roles
      BY <1>5, <2>3, <2>5 DEF Manned, Resent
    <2> QED BY <2>4, <2>5, <2>6 DEF Manned, Resent
  <1>6. CASE call \in {"flush", "resume"} /\ UNCHANGED <<tab, cancelled, pub, compiler>>
    <2>1. Calls
      BY <1>1, <1>6 DEF Calls
    <2>2. Fresh => Fresh'
      BY <1>1, <1>6 DEF Fresh, Answers
    <2> QED BY <1>6, <2>1, <2>2, StillKeeps
  <1>7. Send("imported") \/ Flush => UNCHANGED <<tab, cancelled, pub, compiler>> \/ Sending
    BY SendDoes, FlushDoes DEF Sending
  <1> QED BY <1>3, <1>4, <1>5, <1>6, <1>7 DEF RunPosted

(* What the renderer and its answers do: the newest number is answered once. *)
LEMMA RendererKeeps ==
  ASSUME TypeOK, TypeOK', Invariant, Invariant', Manned,
         RendererUpdates \/ RendererLoads \/ RendererWantsSync \/ RendererDies
  PROVE  Manned'
  <1>1. UNCHANGED <<tab, pub, compiler, posted, host.process>> /\ Calls
    <2>1. host \in [process : Packages \ {0}, package : Packages \ {0},
                    token : Packages \X Packages, running : BOOLEAN]
      BY Typed
    <2> QED BY <2>1 DEF RendererUpdates, RendererLoads, RendererWantsSync, RendererDies, Calls
  <1>2. pipe \in Seq(Message) /\ replies \in Seq(Reply)
    BY Typed
  <1>3. ASSUME Fresh, RendererUpdates PROVE Fresh'
    <2>1. PICK e \in Reply : e.id = Head(pipe).id /\ replies' = Append(replies, e)
      BY <1>3, UpdateDoes
    <2>2. pipe # <<>> /\ pipe' = Tail(pipe) /\ 1 \in DOMAIN pipe /\ Head(pipe) = pipe[1]
      BY <1>2, <1>3, UpdateDoes, Shorter
    <2>3. e.id # tab.generation
      BY <1>3, <2>1, <2>2 DEF Fresh
    <2>4. \A j \in DOMAIN pipe' : \E k \in DOMAIN pipe : pipe'[j] = pipe[k]
      <3>1. \A j \in DOMAIN pipe' : j + 1 \in DOMAIN pipe /\ pipe'[j] = pipe[j + 1]
        BY <1>2, <2>2, Shorter
      <3> QED BY <3>1
    <2>5. \A i \in DOMAIN replies' : \/ \E k \in DOMAIN replies : replies'[i] = replies[k]
                                     \/ replies'[i].id # tab.generation
      BY <1>2, <2>1, <2>3, Longer
    <2> QED BY <1>1, <1>3, <2>4, <2>5, FreshKept
  <1>4. ASSUME Fresh, RendererLoads \/ RendererWantsSync PROVE Fresh'
    <2> DEFINE package == IF renderer.holds THEN renderer.loaded + 1 ELSE renderer.loaded
    <2>1. pipe' = pipe /\ \E e : /\ e.event \notin {"applied", "failed"}
                                 /\ replies' = Append(replies, e)
      <3>1. CASE RendererLoads
        <4>1. replies' = Append(replies, Event("package", 0, {}, 0, package)) /\ pipe' = pipe
          BY <3>1 DEF RendererLoads
        <4>2. Event("package", 0, {}, 0, package).event = "package"
          BY DEF Event
        <4> QED BY <4>1, <4>2
      <3>2. CASE RendererWantsSync
        <4>1. /\ replies' = Append(replies, Event("sync", 0, {}, 0, renderer.loaded))
              /\ pipe' = pipe
          BY <3>2 DEF RendererWantsSync
        <4>2. Event("sync", 0, {}, 0, renderer.loaded).event = "sync"
          BY DEF Event
        <4> QED BY <4>1, <4>2
      <3> QED BY <1>4, <3>1, <3>2
    <2>2. PICK e : e.event \notin {"applied", "failed"} /\ replies' = Append(replies, e)
      BY <2>1
    <2>3. \A i \in DOMAIN replies' : \/ \E k \in DOMAIN replies : replies'[i] = replies[k]
                                     \/ replies'[i] = e
      BY <1>2, <2>2
    <2>4. \A i \in DOMAIN replies' : \/ \E k \in DOMAIN replies : replies'[i] = replies[k]
                                     \/ replies'[i].event \notin {"applied", "failed"}
      BY <2>2, <2>3
    <2>5. \A j \in DOMAIN pipe' : \E k \in DOMAIN pipe : pipe'[j] = pipe[k]
      BY <2>1
    <2> QED BY <1>1, <1>4, <2>4, <2>5, FreshKept
  <1>5. ASSUME Fresh, RendererDies PROVE Fresh'
    <2>1. DOMAIN pipe' = {} /\ replies' = replies
      BY <1>5 DEF RendererDies
    <2> QED BY <1>1, <1>5, <2>1 DEF Fresh, Answers
  <1> QED BY <1>1, <1>3, <1>4, <1>5, StillKeeps

LEMMA ReplyKeeps ==
  ASSUME TypeOK, TypeOK', Invariant, Invariant', Manned, HandleReply
  PROVE  Manned'
  <1> DEFINE e == Head(replies)
  <1>1. /\ replies # <<>> /\ replies' = Tail(replies) /\ e \in Reply /\ Reads
        /\ UNCHANGED <<renderer, pipe>>
    BY PipesTyped DEF HandleReply, Reads
  <1>2. \A i \in DOMAIN replies' : \E k \in DOMAIN replies : replies'[i] = replies[k]
    BY <1>1, Reading
  <1>3. UNCHANGED <<tab.generation, tab.completed, host.process>> /\ Fresh => Fresh'
    BY <1>1, <1>2, FreshKept
  <1>4. CASE UNCHANGED <<tab, cancelled, pub, compiler, posted, host.process>>
    BY <1>3, <1>4, StillKeeps DEF Calls
  <1>5. CASE e.process = host.process /\ e.event = "package" /\ PackageApplied(e)
    <2>1. e.package # 0
      <3>1. 1 \in DOMAIN replies /\ e = replies[1]
        BY <1>1, Shorter, Typed
      <3> HIDE DEF e
      <3> QED BY <1>5, <3>1 DEF Invariant, Bounded
    <2> DEFINE resume == [call |-> "resume", token |-> <<host.process, e.package>>]
    <2>2. host' \in [process : {host.process}, package : {e.package},
                     token : {<<host.process, e.package>>}, running : {host.running}]
          /\ \/ UNCHANGED <<tab, cancelled, pub, compiler, posted>>
             \/ /\ pub' = CancelAll(pub) /\ compiler' = Stopped
                /\ posted' = Append(posted, resume)
      BY <1>1, <1>5, <2>1, PackageDoes
    <2>3. resume \in Callback
      <3>1. host.process \in Packages /\ e.package \in Packages
        BY <1>1, TypedParts DEF Reply
      <3> QED BY <3>1 DEF Callback
    <2>4. resume.call # "cleanup"
      OBVIOUS
    <2> HIDE DEF e, resume
    <2>5. host'.process = host.process
      BY <2>2
    <2>6. CASE UNCHANGED <<tab, cancelled, pub, compiler, posted>>
      BY <1>4, <2>5, <2>6
    <2>7. CASE pub' = CancelAll(pub) /\ compiler' = Stopped /\ posted' = Append(posted, resume)
      <3>1. Calls
        BY <2>3, <2>4, <2>7 DEF Calls
      <3>2. compiler'.phase = compiler.phase /\ pub'.active = NoRequest
        BY <2>7, StoppedTyped DEF CancelAll
      <3>3. Cleanups'
        BY <3>1, <3>2, CleanupsKept DEF Manned
      <3> QED BY <3>2, <3>3, DroppedKeeps
    <2> QED BY <2>2, <2>6, <2>7
  <1>6. CASE Publish({Editable}, WorkingSignature) /\ UNCHANGED <<posted, host>>
    <2>1. {Editable} \in SUBSET Roles /\ WorkingSignature \in Signatures
      BY Bounds DEF Roles, WorkingSignature
    <2>2. Sending
      BY <1>6, <2>1, Publishes DEF Sending
    <2> QED BY <1>6, <2>2, SendsKeeps
  <1>7. CASE /\ e.process = host.process /\ e.event \in {"applied", "failed"}
             /\ MaterialAnswered(e) /\ UNCHANGED <<cancelled, compiler, host>>
    <2>1. CASE UNCHANGED <<tab, pub, posted>>
      BY <1>4, <1>7, <2>1
    <2>2. CASE /\ Acknowledges(e)
               /\ pub' = Acknowledge(pub, e.id) /\ posted' = Append(posted, Call("flush"))
               /\ UNCHANGED <<tab.generation, tab.desired>>
      <3>1. 1 \in DOMAIN replies /\ e = replies[1]
        BY <1>1, Shorter, Typed
      <3>2. ~ Fresh
        <4>1. 1 \in Answers /\ replies[1].id = tab.generation
          <5> HIDE DEF e
          <5> QED BY <1>7, <2>2, <3>1 DEF Answers, Acknowledges
        <4> QED BY <4>1 DEF Fresh
      <3>3. Calls
        <4>1. Call("flush") \in Callback /\ Call("flush").call = "flush"
          BY CallTyped DEF Call
        <4> QED BY <2>2, <4>1 DEF Calls
      <3>4. pub'.active = pub.active
        <4>1. e.id \in Nat
          BY <1>1 DEF Reply
        <4> HIDE DEF e
        <4> QED BY <2>2, <4>1, Settles, Typed
      <3> QED BY <1>7, <2>2, <3>2, <3>3, <3>4, StillKeeps
    <2> QED BY <1>1, <1>7, <2>1, <2>2, AnswerDoes
  <1>8. HandleReply =>
          \/ UNCHANGED <<tab, cancelled, pub, compiler, posted, host>>
          \/ e.process = host.process /\ e.event = "package" /\ PackageApplied(e)
          \/ Publish({Editable}, WorkingSignature) /\ UNCHANGED <<posted, host>>
          \/ /\ e.process = host.process /\ e.event \in {"applied", "failed"}
             /\ MaterialAnswered(e) /\ UNCHANGED <<cancelled, compiler, host>>
    BY DEF HandleReply
  <1> QED BY <1>4, <1>5, <1>6, <1>7, <1>8

LEMMA MannedStep ==
  TypeOK /\ TypeOK' /\ Invariant /\ Invariant' /\ Manned /\ [Next]_vars => Manned'
  <1> SUFFICES ASSUME TypeOK, TypeOK', Invariant, Invariant', Manned, [Next]_vars PROVE Manned'
    OBVIOUS
  <1>1. ASSUME NEW kind \in Kinds, Ask(kind) PROVE Manned'
    <2>1. UNCHANGED <<posted, host, pipe, replies>>
      BY <1>1 DEF Ask
    <2>2. CASE UNCHANGED <<tab, cancelled, pub, compiler>>
      BY <2>1, <2>2, StillKeeps DEF Calls, Fresh, Answers
    <2>3. CASE Sending
      BY <2>1, <2>3, SendsKeeps
    <2> QED BY <1>1, <2>2, <2>3, SendDoes DEF Ask, Sending
  <1>2. CASE BindTextures
    <2>1. {Editable} \in SUBSET Roles /\ session.textures + 1 \in Signatures
      BY <1>2, Typed, Bounds DEF BindTextures, Roles, Signatures
    <2>2. Sending
      BY <1>2, <2>1, Publishes DEF BindTextures, Sending
    <2> QED BY <1>2, <2>2, SendsKeeps DEF BindTextures
  <1>3. CASE EditGeometry \/ UNCHANGED vars
    <2>1. UNCHANGED <<tab, pub, compiler, posted, host, pipe, replies>>
      BY <1>3 DEF EditGeometry, vars
    <2> QED BY <2>1, StillKeeps DEF Calls, Fresh, Answers
  <1>4. CASE StopEditor
    <2>1. pub' = CancelAll(pub) /\ compiler' = Stopped /\ posted' = posted
      BY <1>4 DEF StopEditor, CancelCompile
    <2>2. pub'.active = NoRequest /\ compiler'.phase = compiler.phase
      BY <2>1, StoppedTyped DEF CancelAll
    <2>3. Cleanups'
      BY <2>1, <2>2, CleanupsKept DEF Manned, Calls
    <2> QED BY <2>2, <2>3, DroppedKeeps
  <1>5. CASE RendererStarts
    <2> DEFINE process == host.process + 1
    <2>1. pub' = Invalidate(pub, process) /\ UNCHANGED <<compiler, posted>>
      BY <1>5 DEF RendererStarts
    <2>2. Numbers /\ process \in Nat
      BY TypedNumbers, TypedParts
    <2>3. pub'.active = IF pub.active.process = process THEN pub.active ELSE NoRequest
      <3> HIDE DEF process
      <3> QED BY <2>1, <2>2, Settles, Typed
    <2>4. pub.active.process # process
      BY <2>2 DEF Invariant, Numbered, Numbers
    <2>5. Cleanups'
      BY <2>1, CleanupsKept DEF Manned, Calls
    <2> QED BY <2>3, <2>4, <2>5, DroppedKeeps
  <1> QED BY <1>1, <1>2, <1>3, <1>4, <1>5, ThreadKeeps, HandlingKeeps, RunKeeps, RendererKeeps,
             ReplyKeeps DEF Next

LEMMA InitManned == Init => Manned
  <1> SUFFICES ASSUME Init PROVE Manned
    OBVIOUS
  <1>1. pub.active = NoRequest /\ DOMAIN posted = {}
    BY DEF Init
  <1> QED BY <1>1 DEF Manned, Tied, Cleanups, Resent, Stalled

LEMMA MannedHolds == Spec => []Manned
  <1>1. TypeOK /\ Invariant /\ Manned /\ (TypeOK /\ Invariant)' /\ [Next]_vars => Manned'
    BY MannedStep
  <1> QED BY <1>1, InitManned, InvariantHolds, PTL DEF Spec

-----------------------------------------------------------------------------
(* Every variable keeps its type: the counters stay numbers, what waits in the *)
(* coordinator, the compiler, the pipe and the replies stays well formed.      *)
THEOREM Typing == Spec => []TypeOK
BY InvariantHolds, PTL

(* A compile nobody stopped is the coordinator's active publication, or belongs *)
(* to a renderer process that is gone.                                          *)
THEOREM OrphansAreStopped == Spec => []NoOrphanCompile
  <1>1. TypeOK /\ Invariant => NoOrphanCompile
    BY DEF Invariant
  <1> QED BY <1>1, InvariantHolds, PTL

(* The gate that puts resolvers off always has a key: the coordinator holds the *)
(* request of the newest number until it is answered, and a compile that ends   *)
(* out of date is sent anew before its thread is cleaned up, unless it was for  *)
(* the original's pane alone.                                                   *)
THEOREM GateOpens == Spec => []GateHasKey
  <1>1. TypeOK /\ Invariant /\ Manned => GateHasKey
    <2> SUFFICES ASSUME TypeOK, Invariant, Manned, Gated, host.running,
                        host.token[1] = host.process
                 PROVE  \E r \in Outstanding(pub) :
                          /\ r.id = tab.generation
                          /\ r = pub.active => CompilerBusy \/ Editable \notin r.roles
      BY DEF GateHasKey
    <2>1. PICK r \in Outstanding(pub) : r.id = tab.generation
      BY DEF Invariant, KeyHeld
    <2>2. ASSUME r = pub.active PROVE CompilerBusy \/ Editable \notin r.roles
      <3>1. NoRequest.id = 0 /\ 0 < tab.generation
        BY DEF NoRequest, Invariant, Counted
      <3>2. r # NoRequest
        BY <2>1, <3>1
      <3>3. CASE Compiling
        BY <3>3 DEF Compiling, CompilerBusy
      <3>4. CASE ~ Compiling
        BY <2>1, <2>2, <3>2, <3>4 DEF Manned, Resent, Stalled, CompilerBusy
      <3> QED BY <3>3, <3>4
    <2> QED BY <2>1, <2>2
  <1> QED BY <1>1, InvariantHolds, MannedHolds, PTL

(* A pane the tab counts as textured shows the publication it last asked for.   *)
THEOREM TexturedIsTextured == Spec => []ReadyMeansResident
  <1>1. TypeOK /\ Invariant => ReadyMeansResident
    <2> SUFFICES ASSUME TypeOK, Invariant, InStep, NEW role \in Roles, Ready(role)
                 PROVE  renderer.resident[role] = tab.desired[role]
      BY DEF ReadyMeansResident
    <2>1. Numbers
      BY TypedNumbers
    <2>2. tab.applied[role] > 0 /\ tab.applied[role] = tab.desired[role]
      BY <2>1 DEF Ready, Invariant, Counted, Numbers
    <2> QED BY <2>2 DEF Invariant, Resident
  <1> QED BY <1>1, InvariantHolds, PTL
==============================================================================
