-------------------------- MODULE LedgerStoreProofs --------------------------
(* Type correctness and reservations of the abstract ledgers, for every     *)
(* set of identities, bindings, generations and layers.                     *)
EXTENDS LedgerStore, TLAPS

LEMMA RowsType ==
    ASSUME NEW r \in Registries \cup {None} PROVE RowsOf(r) \in Registries
  BY DEF RowsOf, Registries

LEMMA PublishType ==
    ASSUME NEW s \in Stores, NEW gen \in Gens, NEW selection \in Selections
    PROVE  PublishOf(s, gen, selection) \in Stores
  <1> DEFINE q == PublishOf(s, gen, selection)
  <1>1. RowsOf(s.registry) \in Registries
    BY RowsType DEF Stores
  <1>2. [i \in Ids |-> IF selection[i] # None
                         THEN [binding |-> selection[i], layer |-> None]
                         ELSE RowsOf(s.registry)[i]] \in Registries
    BY <1>1 DEF Registries, Rows, Selections
  <1>3. [gen |-> gen, items |-> selection] \in Profiles
    BY DEF Profiles
  <1> QED BY <1>2, <1>3 DEF PublishOf, Stores

LEMMA ReserveType ==
    ASSUME NEW s \in Stores, NEW i \in Ids, NEW row \in Rows \cup {None}
    PROVE  ReserveOf(s, i, row) \in Stores
  <1>1. RowsOf(s.registry) \in Registries
    BY RowsType DEF Stores
  <1>2. [RowsOf(s.registry) EXCEPT ![i] = row] \in Registries
    BY <1>1 DEF Registries
  <1> QED BY <1>2 DEF ReserveOf, Stores

LEMMA ArchiveType ==
    ASSUME NEW s \in Stores, NEW i \in Ids, NEW b \in Bindings, NEW l \in Layers
    PROVE  /\ ArchiveInstallOf(s, i, b, l) \in Stores
           /\ ArchiveRemoveOf(s, i) \in Stores
  <1>1. ReserveOf(s, i, [binding |-> b, layer |-> l]) \in Stores
    BY ReserveType DEF Rows
  <1> QED BY <1>1 DEF ArchiveInstallOf, ArchiveRemoveOf, Stores, Indexes

(* The ledgers always hold well-formed registries, profiles and layers. *)
THEOREM TypeCorrect == Spec => []TypeOK
  <1>1. Init => TypeOK
    BY DEF Init, TypeOK, EmptyStore, Stores, Indexes
  <1>2. TypeOK /\ [Next]_store => TypeOK'
    <2> SUFFICES ASSUME TypeOK, [Next]_store PROVE TypeOK'
      OBVIOUS
    <2>1. CASE \E gen \in Gens, selection \in Selections : Publish(gen, selection)
      BY <2>1, PublishType DEF Publish, TypeOK
    <2>2. CASE \E i \in Ids, b \in Bindings, l \in Layers : ArchiveInstall(i, b, l)
      BY <2>2, ArchiveType DEF ArchiveInstall, TypeOK
    <2>3. CASE \E i \in Ids : Forget(i)
      BY <2>3, ReserveType DEF Forget, TypeOK
    <2>4. CASE \E i \in Ids : ArchiveRemove(i)
      <3> PICK i \in Ids : ArchiveRemove(i) BY <2>4
      <3>1. ArchiveRemoveOf(store, i) \in Stores
        BY DEF ArchiveRemoveOf, Stores, Indexes, TypeOK
      <3> QED BY <3>1 DEF ArchiveRemove, TypeOK
    <2>5. CASE UNCHANGED store
      BY <2>5 DEF TypeOK
    <2> QED BY <2>1, <2>2, <2>3, <2>4, <2>5 DEF Next
  <1> QED BY <1>1, <1>2, PTL DEF Spec

(* What each change leaves of the rows: only the named identities' change. *)
LEMMA RowsAfterReserve ==
    ASSUME NoneApart, NEW s \in Stores, NEW i \in Ids, NEW row \in Rows \cup {None}
    PROVE  /\ ReserveOf(s, i, row).registry # None
           /\ \A j \in Ids : ReserveOf(s, i, row).registry[j] =
                    IF j = i THEN row ELSE RowsOf(s.registry)[j]
           /\ ReserveOf(s, i, row).profile = s.profile
           /\ ReserveOf(s, i, row).layers = s.layers
  <1>1. RowsOf(s.registry) \in Registries
    BY RowsType DEF Stores
  <1>2. [RowsOf(s.registry) EXCEPT ![i] = row] \in Registries
    BY <1>1 DEF Registries
  <1>3. None \notin Registries
    BY DEF NoneApart, Registries, Rows
  <1> QED BY <1>1, <1>2, <1>3 DEF ReserveOf, Stores, Registries

(* Whoever uses an identity finds it reserved: with the binding the profile *)
(* serves, or for no layer but the one that owns it, in whatever order       *)
(* installs, removals, deletions and publications come, and whether or not   *)
(* virtual loading is enabled.                                               *)
THEOREM ReservationsKept ==
    ASSUME NoneApart PROVE Spec => []OwnersReserved
  <1> DEFINE IInv == TypeOK /\ OwnersReserved
  <1>1. Init => IInv
    BY DEF Init, IInv, TypeOK, OwnersReserved, EmptyStore, Stores, Indexes, Served,
           Owned, Agrees, RowsOf
  <1>2. IInv /\ [Next]_store => OwnersReserved'
    <2> SUFFICES ASSUME TypeOK, OwnersReserved, [Next]_store PROVE OwnersReserved'
      BY DEF IInv
    <2>1. ASSUME NEW gen \in Gens, NEW selection \in Selections,
                 Publish(gen, selection)
          PROVE  OwnersReserved'
      <3> DEFINE rows == [i \in Ids |-> IF selection[i] # None
                            THEN [binding |-> selection[i], layer |-> None]
                            ELSE RowsOf(store.registry)[i]]
      <3>1. /\ store'.registry = rows /\ store'.layers = store.layers
            /\ store'.profile = [gen |-> gen, items |-> selection]
        BY <2>1 DEF Publish, PublishOf, TypeOK, Stores
      <3>2. rows \in Registries
        <4>1. RowsOf(store.registry) \in Registries
          BY RowsType DEF TypeOK, Stores
        <4> QED BY <4>1 DEF Registries, Rows, Selections
      <3>3. rows # None /\ [gen |-> gen, items |-> selection] # None
        BY <3>2 DEF NoneApart, Registries, Rows, Selections
      <3>4. Served(store'.profile) = {i \in Ids : selection[i] # None}
        BY <3>1, <3>3 DEF Served
      <3>5. RowsOf(store'.registry) = rows
        BY <3>1, <3>3 DEF RowsOf
      <3> HIDE DEF rows
      <3>6. \A i \in Ids : rows[i] = IF selection[i] # None
                            THEN [binding |-> selection[i], layer |-> None]
                            ELSE RowsOf(store.registry)[i]
        BY DEF rows
      <3>7. \A i \in Owned(store'.layers) :
                /\ rows[i] # None /\ rows[i].layer \in {None, store.layers[i]}
        <4> SUFFICES ASSUME NEW i \in Owned(store.layers)
                     PROVE  /\ rows[i] # None /\ rows[i].layer \in {None, store.layers[i]}
          BY <3>1
        <4>1. CASE selection[i] = None
          BY <3>6, <4>1 DEF OwnersReserved, Owned
        <4>2. CASE selection[i] # None
          <5>1. rows[i] = [binding |-> selection[i], layer |-> None] /\ selection[i] \in Bindings
            BY <3>6, <4>2 DEF Selections, Owned
          <5>2. rows[i] # None
            BY <5>1 DEF NoneApart
          <5> QED BY <5>1, <5>2
        <4> QED BY <4>1, <4>2
      <3>8. Agrees(store'.registry, store'.profile)
        BY <3>1, <3>3, <3>4, <3>6 DEF Agrees
      <3> QED BY <3>1, <3>5, <3>7, <3>8 DEF OwnersReserved
    <2>2. ASSUME NEW i \in Ids, NEW b \in Bindings, NEW l \in Layers,
                 ArchiveInstall(i, b, l)
          PROVE  OwnersReserved'
      <3> DEFINE row == [binding |-> b, layer |-> l]
                 s == ReserveOf(store, i, row)
      <3>1. row \in Rows /\ row # None /\ row.layer = l /\ l # None
        BY DEF NoneApart, Rows
      <3>2. s \in Stores
        BY <3>1, ReserveType DEF TypeOK
      <3>3. /\ store'.registry = s.registry /\ store'.profile = s.profile
            /\ store'.layers = [s.layers EXCEPT ![i] = l]
        BY <2>2, <3>2 DEF ArchiveInstall, ArchiveInstallOf, Stores
      <3>4. /\ s.registry # None /\ s.profile = store.profile
            /\ s.layers = store.layers
            /\ \A j \in Ids : s.registry[j] = IF j = i THEN row
                                              ELSE RowsOf(store.registry)[j]
        BY <3>1, RowsAfterReserve DEF TypeOK
      <3> HIDE DEF s, row
      <3>5. \A j \in Ids : store'.layers[j] = IF j = i THEN l ELSE store.layers[j]
        BY <3>3, <3>4 DEF TypeOK, Stores, Indexes
      <3>6. Served(store'.profile) = Served(store.profile)
        BY <3>3, <3>4
      <3>7. i \notin Served(store.profile)
        BY <2>2 DEF ArchiveInstall
      <3>8. \A j \in Served(store.profile) :
                j \in Ids /\ RowsOf(store.registry)[j] = store.registry[j]
        BY DEF OwnersReserved, Agrees, RowsOf, Served
      <3>9. Agrees(store'.registry, store'.profile)
        BY <3>3, <3>4, <3>6, <3>7, <3>8 DEF Agrees, OwnersReserved
      <3>10. \A j \in Owned(store'.layers) :
                /\ RowsOf(store'.registry)[j] # None
                /\ RowsOf(store'.registry)[j].layer \in {None, store'.layers[j]}
        BY <3>1, <3>3, <3>4, <3>5 DEF OwnersReserved, Owned, RowsOf
      <3> QED BY <3>9, <3>10 DEF OwnersReserved
    <2>3. ASSUME NEW i \in Ids, ArchiveRemove(i) PROVE OwnersReserved'
      <3>1. /\ store'.registry = store.registry /\ store'.profile = store.profile
            /\ store'.layers = [store.layers EXCEPT ![i] = None]
        BY <2>3 DEF ArchiveRemove, ArchiveRemoveOf, TypeOK, Stores
      <3>2. /\ Owned(store'.layers) \subseteq Owned(store.layers)
            /\ \A j \in Owned(store'.layers) : store'.layers[j] = store.layers[j]
        BY <3>1 DEF Owned, TypeOK, Stores, Indexes
      <3> QED BY <3>1, <3>2 DEF OwnersReserved
    <2>4. ASSUME NEW i \in Ids, Forget(i) PROVE OwnersReserved'
      <3> DEFINE s == ReserveOf(store, i, None)
      <3>1. store' = s
        BY <2>4 DEF Forget
      <3>2. /\ s.registry # None /\ s.profile = store.profile
            /\ s.layers = store.layers
            /\ \A j \in Ids : s.registry[j] = IF j = i THEN None
                                              ELSE RowsOf(store.registry)[j]
        BY RowsAfterReserve DEF TypeOK
      <3> HIDE DEF s
      <3>3. i \notin Served(store.profile) \cup Owned(store.layers)
        BY <2>4 DEF Forget
      <3>4. \A j \in Served(store.profile) :
                j \in Ids /\ RowsOf(store.registry)[j] = store.registry[j]
        BY DEF OwnersReserved, Agrees, RowsOf, Served
      <3>5. Agrees(store'.registry, store'.profile)
        BY <3>1, <3>2, <3>3, <3>4 DEF Agrees, OwnersReserved
      <3>6. \A j \in Owned(store'.layers) :
                /\ RowsOf(store'.registry)[j] # None
                /\ RowsOf(store'.registry)[j].layer \in {None, store'.layers[j]}
        BY <3>1, <3>2, <3>3 DEF OwnersReserved, Owned, RowsOf
      <3> QED BY <3>5, <3>6 DEF OwnersReserved
    <2>5. CASE UNCHANGED store
      BY <2>5 DEF OwnersReserved
    <2> QED BY <2>1, <2>2, <2>3, <2>4, <2>5 DEF Next
  <1> QED BY <1>1, <1>2, TypeCorrect, PTL DEF Spec
=============================================================================
