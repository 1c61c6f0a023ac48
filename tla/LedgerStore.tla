----------------------------- MODULE LedgerStore -----------------------------
(***************************************************************************)
(* What the identity ledgers of one installation promise to their readers. *)
(*                                                                         *)
(* CDMW keeps, per game installation, an identity registry                 *)
(* (.cdmw/independent-items.json: which identity holds which reservation), *)
(* a virtual profile (.cdmw/virtual-loader/profile.json: which identities  *)
(* the private view serves) and the overlay index (.cdmw/overlays.json:    *)
(* which identities an archive layer owns).  A reader of these files must  *)
(* see them change together, each change computed from the state it        *)
(* replaces.  This module is that promise: one atomic action per change.   *)
(***************************************************************************)
CONSTANTS
    Ids,        \* package identities
    Bindings,   \* reserved keys and content of a package (digest, binding_hash)
    Gens,       \* generation names
    Layers,     \* overlay layer names
    None,       \* an absent file, row or field
    VirtualLoading  \* constants.VIRTUAL_LOADING_ENABLED

(* None is none of the values that rows, registries and profiles take. *)
NoneApart ==
    /\ None \notin Bindings \cup Layers
    /\ None \notin [binding : Bindings, layer : Layers \cup {None}]
    /\ None \notin [Ids -> [binding : Bindings, layer : Layers \cup {None}] \cup {None}]
    /\ None \notin [gen : Gens, items : [Ids -> Bindings \cup {None}]]

VARIABLES
    store       \* [registry, profile, layers]

(* A registry row: what is reserved, and the overlay layer that holds it. *)
Rows == [binding : Bindings, layer : Layers \cup {None}]

Registries == [Ids -> Rows \cup {None}]

(* The items a profile serves: the binding of each, None when not served. *)
Selections == [Ids -> Bindings \cup {None}]

Profiles == [gen : Gens, items : Selections]

(* Which layer of the overlay index owns each identity. *)
Indexes == [Ids -> Layers \cup {None}]

Stores == [registry : Registries \cup {None},
           profile  : Profiles \cup {None},
           layers   : Indexes]

EmptyStore ==
    [registry |-> None, profile |-> None, layers |-> [i \in Ids |-> None]]

(* The rows of a registry file; a missing file reads as an empty registry. *)
RowsOf(registry) == IF registry = None THEN [i \in Ids |-> None] ELSE registry

Served(profile) ==
    IF profile = None THEN {} ELSE {i \in Ids : profile.items[i] # None}

(* Every binding of the profile is the registry's, and no layer owns it. *)
Agrees(registry, profile) ==
    \A i \in Served(profile) :
        /\ registry # None
        /\ registry[i] = [binding |-> profile.items[i], layer |-> None]

(* Identities an enabled or disabled overlay layer owns. *)
Owned(layers) == {i \in Ids : layers[i] # None}

(* Every such layer's identity is reserved for that layer. *)
LayersReserved(registry, layers) ==
    \A i \in Owned(layers) :
        /\ RowsOf(registry)[i] # None
        /\ RowsOf(registry)[i].layer = layers[i]

(* What a store becomes when a profile serving `selection` is published. *)
PublishOf(s, gen, selection) ==
    [s EXCEPT
       !.registry = [i \in Ids |->
            IF selection[i] # None
              THEN [binding |-> selection[i], layer |-> None]
              ELSE RowsOf(s.registry)[i]],
       !.profile = [gen |-> gen, items |-> selection]]

ReserveOf(s, i, row) ==
    [s EXCEPT !.registry = [RowsOf(s.registry) EXCEPT ![i] = row]]

ArchiveInstallOf(s, i, b, layer) ==
    [ReserveOf(s, i, [binding |-> b, layer |-> layer]) EXCEPT !.layers[i] = layer]

ArchiveRemoveOf(s, i) == [s EXCEPT !.layers[i] = None]
-----------------------------------------------------------------------------
Init == store = EmptyStore

(* Packages an overlay layer owns are refused for the virtual profile, but only
   while virtual loading is enabled. *)
Publish(gen, selection) ==
    /\ VirtualLoading => \A i \in Owned(store.layers) : selection[i] = None
    /\ store' = PublishOf(store, gen, selection)

(* An overlay layer takes the identity; a served one is refused. *)
ArchiveInstall(i, b, layer) ==
    /\ i \notin Served(store.profile)
    /\ store' = ArchiveInstallOf(store, i, b, layer)

(* Removing the layer keeps the reservation. *)
ArchiveRemove(i) ==
    /\ i \in Owned(store.layers)
    /\ store' = ArchiveRemoveOf(store, i)

(* Only an identity that nothing uses may be forgotten. *)
Forget(i) ==
    /\ i \notin Served(store.profile) \cup Owned(store.layers)
    /\ RowsOf(store.registry)[i] # None
    /\ store' = ReserveOf(store, i, None)

Next ==
    \/ \E gen \in Gens, selection \in Selections : Publish(gen, selection)
    \/ \E i \in Ids, b \in Bindings, layer \in Layers : ArchiveInstall(i, b, layer)
    \/ \E i \in Ids : ArchiveRemove(i) \/ Forget(i)

Spec == Init /\ [][Next]_store
-----------------------------------------------------------------------------
TypeOK == store \in Stores

(* Whoever uses an identity, the virtual profile or an archive layer, finds *)
(* it reserved: its row is there, has the binding the profile serves, and   *)
(* never names another layer than the one that owns it, whatever order      *)
(* installs, removals, deletions and publications take.                     *)
OwnersReserved ==
    /\ Agrees(store.registry, store.profile)
    /\ \A i \in Owned(store.layers) :
        /\ RowsOf(store.registry)[i] # None
        /\ RowsOf(store.registry)[i].layer \in {None, store.layers[i]}
=============================================================================
