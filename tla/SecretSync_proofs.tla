------------------------- MODULE SecretSync_proofs -------------------------
(* Theorems about SecretSync, for every value of its constants. *)
EXTENDS SecretSync, TLAPS

-----------------------------------------------------------------------------
(* What the definitions the actions are built from return. *)

\* DataOf forgets who owns the data, and nothing else.
LEMMA DataOfType ==
    ASSUME NEW s \in Secret \cup {NoSecret}
    PROVE  /\ DataOf(s) \in Data \cup {NoSecret}
           /\ DataOf(s) = NoSecret <=> s = NoSecret
           /\ s # NoSecret => DataOf(s) = s.data
BY AbsenceAssumption DEF DataOf, Secret

\* What an event says of the two states of a secret: informers hear of every
\* creation and of every change of the data.
LEMMA EventKindSays ==
    ASSUME NEW old \in Secret \cup {NoSecret}, NEW new \in Secret \cup {NoSecret}
    PROVE  /\ EventKind(old, new) \subseteq {"create", "update", "delete"}
           /\ new # NoSecret /\ DataOf(new) # DataOf(old)
                => EventKind(old, new) \cap {"create", "update"} # {}
           /\ old # NoSecret /\ new # NoSecret /\ new.data # old.data
                => "update" \in EventKind(old, new)
BY DataOfType DEF EventKind

\* One entry of one row of a table changes.
LEMMA EntrySays ==
    ASSUME NEW S, NEW T, NEW f \in [Procs -> [S -> T]], NEW p \in Procs, NEW i \in S, NEW v \in T,
           NEW g, g = [f EXCEPT ![p][i] = v]
    PROVE  /\ g \in [Procs -> [S -> T]]
           /\ g[p][i] = v
           /\ \A j \in S \ {i} : g[p][j] = f[p][j]
           /\ \A q \in Procs \ {p} : g[q] = f[q]
<1>. DEFINE row == [f[p] EXCEPT ![i] = v]
<1>1. /\ row \in [S -> T]
      /\ row[i] = v
      /\ \A j \in S \ {i} : row[j] = f[p][j]
  OBVIOUS
<1>2. g = [f EXCEPT ![p] = row]
  OBVIOUS
<1>. HIDE DEF row
<1>. QED  BY <1>1, <1>2

\* Storing a secret changes one secret, and only adds to the events on their way.
LEMMA StoreSays ==
    ASSUME TypeOK, NEW n \in Namespaces, NEW s \in Secret \cup {NoSecret}, Store(n, s)
    PROVE  /\ secrets' \in [Namespaces -> Secret \cup {NoSecret}]
           /\ wire' \in [Procs -> [Namespaces -> SUBSET {"create", "update", "delete"}]]
           /\ secrets'[n] = s
           /\ \A k \in Namespaces \ {n} : secrets'[k] = secrets[k]
           /\ \A p \in Procs, k \in Namespaces : wire[p][k] \subseteq wire'[p][k]
           /\ \A p \in Procs \ up : wire'[p] = wire[p]
           /\ \A p \in up : EventKind(secrets[n], s) \subseteq wire'[p][n]
<1>. DEFINE heard(p) == [wire[p] EXCEPT ![n] = @ \cup EventKind(secrets[n], s)]
<1>1. EventKind(secrets[n], s) \subseteq {"create", "update", "delete"}
  BY EventKindSays DEF TypeOK
<1>2. ASSUME NEW p \in Procs
      PROVE  /\ heard(p) \in [Namespaces -> SUBSET {"create", "update", "delete"}]
             /\ \A k \in Namespaces : wire[p][k] \subseteq heard(p)[k]
             /\ EventKind(secrets[n], s) \subseteq heard(p)[n]
  BY <1>1 DEF TypeOK
<1>3. wire' = [p \in Procs |-> IF p \in up THEN heard(p) ELSE wire[p]]
  BY DEF Store
<1>. HIDE DEF heard
<1>4. wire' \in [Procs -> [Namespaces -> SUBSET {"create", "update", "delete"}]]
  BY <1>2, <1>3 DEF TypeOK
<1>5. /\ \A p \in Procs, k \in Namespaces : wire[p][k] \subseteq wire'[p][k]
      /\ \A p \in Procs \ up : wire'[p] = wire[p]
      /\ \A p \in up : EventKind(secrets[n], s) \subseteq wire'[p][n]
  BY <1>2, <1>3 DEF TypeOK
<1>6. /\ secrets' \in [Namespaces -> Secret \cup {NoSecret}]
      /\ secrets'[n] = s
      /\ \A k \in Namespaces \ {n} : secrets'[k] = secrets[k]
  BY DEF Store, TypeOK
<1>. QED  BY <1>4, <1>5, <1>6

\* Ready makes items of one queue ready and leaves the others.
LEMMA ReadySays ==
    ASSUME TypeOK, NEW p \in Procs, NEW is \in SUBSET Items
    PROVE  /\ Ready(p, is) \in [Procs -> [Items -> {"none", "ready", "delayed", "dropped"}]]
           /\ \A i \in is : Ready(p, is)[p][i] = "ready"
           /\ \A i \in Items \ is : Ready(p, is)[p][i] = item[p][i]
           /\ \A q \in Procs \ {p} : Ready(p, is)[q] = item[q]
<1>. DEFINE mine == [i \in Items |-> IF i \in is THEN "ready" ELSE item[p][i]]
<1>1. mine \in [Items -> {"none", "ready", "delayed", "dropped"}]
  BY DEF TypeOK
<1>2. /\ \A i \in is : mine[i] = "ready"
      /\ \A i \in Items \ is : mine[i] = item[p][i]
  OBVIOUS
<1>3. Ready(p, is) = [item EXCEPT ![p] = mine]
  BY DEF Ready
<1>. HIDE DEF mine
<1>. QED  BY <1>1, <1>2, <1>3 DEF TypeOK

\* The items of a namespace are three different ones.
LEMMA ItemsDiffer ==
    /\ Master \in Items
    /\ \A n \in Others : <<"copy", n>> \in Items /\ <<"namespace", n>> \in Items
    /\ \A i \in Items \ {Master} : i[1] \in {"copy", "namespace"} /\ i[2] \in Others
    /\ \A i \in Items \ {Master} : i = <<i[1], i[2]>>
    /\ \A n \in Namespaces : Master # <<"copy", n>> /\ Master # <<"namespace", n>>
    /\ Master[1] = "master"
BY DEF Items, Master

-----------------------------------------------------------------------------
(* What the steps do, where it takes more than their definition to see. *)

\* Namespaces other than the master's are namespaces.
LEMMA OthersType == Others \subseteq Namespaces /\ MasterNs \in Namespaces /\ MasterNs \notin Others
BY NamespaceAssumption DEF Others

\* A disturbance stays within the bound.
LEMMA FaultType == TypeOK /\ (Fault \/ Costs(OverlapCost) \/ UNCHANGED faults) => faults' \in 0..MaxFaults
BY BoundAssumption DEF TypeOK, Fault, Costs

\* A patch writes the data of the work, as the manager of the controller.
LEMMA PatchedType ==
    ASSUME TypeOK, NEW p \in Procs, NEW n \in Namespaces, work[p] # NoWork
    PROVE  /\ Patched(p, n) \in Secret
           /\ Patched(p, n).data = work[p].data
           /\ Patched(p, n).ours
           /\ Patched(p, n).theirs => /\ secrets[n] # NoSecret
                                      /\ secrets[n].theirs
                                      /\ secrets[n].data = work[p].data
<1>1. work[p].data \in Data
  BY DEF TypeOK, Work
<1>. QED  BY <1>1 DEF Patched, Secret

\* The namespaces an item has patched are namespaces.
LEMMA ToPatchType ==
    ASSUME TypeOK, NEW p \in Procs, NEW i \in Items
    PROVE  ToPatch(p, i) \subseteq Namespaces
BY ItemsDiffer, OthersType DEF ToPatch, TypeOK

Levels == {"none", "ready", "delayed", "dropped"}

\* An informer takes the events of one secret over, and makes the item of that
\* secret ready when the predicates accept one of them.
LEMMA SeeSecretSays ==
    ASSUME TypeOK, NEW p \in Procs, NEW n \in Namespaces, SeeSecret(p, n)
    PROVE  /\ seen' \in [Procs -> [Namespaces -> Data \cup {NoSecret}]]
           /\ seen'[p][n] = DataOf(secrets[n])
           /\ \A k \in Namespaces \ {n} : seen'[p][k] = seen[p][k]
           /\ \A q \in Procs \ {p} : seen'[q] = seen[q]
           /\ wire' \in [Procs -> [Namespaces -> SUBSET {"create", "update", "delete"}]]
           /\ wire'[p][n] = {}
           /\ \A k \in Namespaces \ {n} : wire'[p][k] = wire[p][k]
           /\ \A q \in Procs \ {p} : wire'[q] = wire[q]
           /\ item' \in [Procs -> [Items -> Levels]]
           /\ \A i \in Items : item'[p][i] \in {item[p][i], "ready"}
           /\ \A q \in Procs \ {p} : item'[q] = item[q]
           /\ n = MasterNs /\ wire[p][n] \cap {"create", "update"} # {} => item'[p][Master] = "ready"
           /\ n # MasterNs /\ "update" \in wire[p][n] => item'[p][<<"copy", n>>] = "ready"
           /\ fresh' \in [Procs -> SUBSET Namespaces]
<1>1. seen' = [seen EXCEPT ![p][n] = DataOf(secrets[n])] /\ DataOf(secrets[n]) \in Data \cup {NoSecret}
  BY DataOfType DEF SeeSecret, TypeOK
<1>2. wire' = [wire EXCEPT ![p][n] = {}]
  BY DEF SeeSecret
<1>. DEFINE is == {IF n = MasterNs THEN Master ELSE <<"copy", n>>}
<1>3. is \in SUBSET Items
  <2>1. n # MasterNs => n \in Others
    BY DEF Others
  <2>. QED  BY <2>1, ItemsDiffer
<1>4. item' = IF wire[p][n] \cap Accepted(n) = {} THEN item ELSE Ready(p, is)
  BY DEF SeeSecret
<1>5. /\ n = MasterNs => is = {Master}
      /\ n # MasterNs => is = {<<"copy", n>>}
  OBVIOUS
<1>. HIDE DEF is
<1>6. /\ item' \in [Procs -> [Items -> Levels]]
      /\ \A i \in Items : item'[p][i] \in {item[p][i], "ready"}
      /\ \A q \in Procs \ {p} : item'[q] = item[q]
  BY <1>3, <1>4, ReadySays DEF TypeOK, Levels
<1>7. n = MasterNs /\ wire[p][n] \cap {"create", "update"} # {} => item'[p][Master] = "ready"
  BY <1>3, <1>4, <1>5, ReadySays DEF Accepted
<1>8. n # MasterNs /\ "update" \in wire[p][n] => item'[p][<<"copy", n>>] = "ready"
  BY <1>3, <1>4, <1>5, ReadySays DEF Accepted
<1>9. fresh' \in [Procs -> SUBSET Namespaces]
  BY DEF SeeSecret, TypeOK
<1>10. /\ seen' \in [Procs -> [Namespaces -> Data \cup {NoSecret}]]
       /\ seen'[p][n] = DataOf(secrets[n])
       /\ \A k \in Namespaces \ {n} : seen'[p][k] = seen[p][k]
       /\ \A q \in Procs \ {p} : seen'[q] = seen[q]
  BY <1>1, EntrySays DEF TypeOK
<1>11. /\ wire' \in [Procs -> [Namespaces -> SUBSET {"create", "update", "delete"}]]
       /\ wire'[p][n] = {}
       /\ \A k \in Namespaces \ {n} : wire'[p][k] = wire[p][k]
       /\ \A q \in Procs \ {p} : wire'[q] = wire[q]
  BY <1>2, EntrySays DEF TypeOK
<1>. QED  BY <1>6, <1>7, <1>8, <1>9, <1>10, <1>11

\* An informer learns that a namespace is there or gone; its creation makes its
\* item ready.
LEMMA SeeNamespaceSays ==
    ASSUME TypeOK, NEW p \in Procs, NEW n \in Namespaces, SeeNamespace(p, n)
    PROVE  /\ item' \in [Procs -> [Items -> Levels]]
           /\ \A i \in Items : item'[p][i] \in {item[p][i], "ready"}
           /\ \A q \in Procs \ {p} : item'[q] = item[q]
           /\ n \in nsWire[p] => n \in Others /\ item'[p][<<"namespace", n>>] = "ready"
           /\ item'[p][Master] = item[p][Master]
<1>1. CASE n \in nsWire[p]
  <2>1. n \in Others /\ {<<"namespace", n>>} \in SUBSET Items
    <3>1. n \in Others
      BY <1>1 DEF TypeOK
    <3>. QED  BY <3>1, ItemsDiffer
  <2>2. item' = Ready(p, {<<"namespace", n>>})
    BY <1>1 DEF SeeNamespace
  <2>. DEFINE is == {<<"namespace", n>>}
  <2>3. Master \in Items \ is /\ <<"namespace", n>> \in is /\ is \in SUBSET Items /\ item' = Ready(p, is)
    BY <2>1, <2>2, ItemsDiffer
  <2>. HIDE DEF is
  <2>4. /\ item' \in [Procs -> [Items -> Levels]]
        /\ item'[p][<<"namespace", n>>] = "ready"
        /\ \A i \in Items : item'[p][i] \in {item[p][i], "ready"}
        /\ \A q \in Procs \ {p} : item'[q] = item[q]
    BY <2>3, ReadySays DEF Levels
  <2>5. item'[p][Master] = item[p][Master]
    BY <2>3, ReadySays
  <2>. QED  BY <2>1, <2>4, <2>5
<1>2. CASE n \notin nsWire[p]
  <2>1. item' = item
    BY <1>2 DEF SeeNamespace
  <2>. QED  BY <1>2, <2>1, ItemsDiffer DEF TypeOK, Levels
<1>. QED  BY <1>1, <1>2

\* An item that fails is ready again, one the feature is off for is dropped.
LEMMA NotStartedSays ==
    ASSUME TypeOK, NEW p \in Procs, NEW i \in Items, ReconcileFails(p, i) \/ ReconcileDisabled(p, i)
    PROVE  /\ item' \in [Procs -> [Items -> Levels]]
           /\ item'[p][i] \in {"ready", "dropped"}
           /\ \A j \in Items \ {i} : item'[p][j] = item[p][j]
           /\ \A q \in Procs \ {p} : item'[q] = item[q]
<1>1. PICK v \in {"ready", "dropped"} : item' = [item EXCEPT ![p][i] = v]
  BY DEF ReconcileFails, ReconcileDisabled
<1>2. v \in Levels /\ item \in [Procs -> [Items -> Levels]]
  BY DEF Levels, TypeOK
<1>. QED  BY <1>1, <1>2, EntrySays

\* Reconcile takes the master secret from the cache and the item from the queue.
LEMMA ReconcileStartsSays ==
    ASSUME TypeOK, NEW p \in Procs, NEW i \in Items, ReconcileStarts(p, i)
    PROVE  /\ item' \in [Procs -> [Items -> Levels]]
           /\ item'[p][i] = "none"
           /\ \A j \in Items \ {i} : item'[p][j] = item[p][j]
           /\ \A q \in Procs \ {p} : item'[q] = item[q]
           /\ work' \in [Procs -> Work \cup {NoWork}]
           /\ work[p] = NoWork
           /\ work'[p] \in Work
           /\ work'[p].item = i
           /\ work'[p].data = seen[p][MasterNs]
           /\ work'[p].todo = ToPatch(p, i)
           /\ ~work'[p].failed
           /\ \A q \in Procs \ {p} : work'[q] = work[q]
           /\ seen[p][MasterNs] \in Data
<1>. DEFINE w == [item |-> i, data |-> seen[p][MasterNs], todo |-> ToPatch(p, i), failed |-> FALSE]
<1>1. seen[p][MasterNs] \in Data
  BY OthersType DEF ReconcileStarts, MasterFound, TypeOK
<1>2. /\ w \in Work
      /\ w.item = i /\ w.data = seen[p][MasterNs] /\ w.todo = ToPatch(p, i) /\ ~w.failed
  BY <1>1, ToPatchType DEF Work
<1>3. work' = [work EXCEPT ![p] = w]
  BY DEF ReconcileStarts
<1>. HIDE DEF w
<1>4. item' = [item EXCEPT ![p][i] = "none"] /\ "none" \in Levels /\ item \in [Procs -> [Items -> Levels]]
  BY DEF ReconcileStarts, TypeOK, Levels
<1>5. /\ item' \in [Procs -> [Items -> Levels]]
      /\ item'[p][i] = "none"
      /\ \A j \in Items \ {i} : item'[p][j] = item[p][j]
      /\ \A q \in Procs \ {p} : item'[q] = item[q]
  BY <1>4, EntrySays
<1>6. work[p] = NoWork
  BY DEF ReconcileStarts, Takes
<1>. QED  BY <1>1, <1>2, <1>3, <1>5, <1>6 DEF TypeOK

\* A patch that was tried, with or without success, is done; the rest of the
\* work is as before.
LEMMA TriedSays ==
    ASSUME TypeOK, NEW p \in Procs, NEW n \in Namespaces, PatchSucceeds(p, n) \/ PatchFails(p, n)
    PROVE  /\ work' \in [Procs -> Work \cup {NoWork}]
           /\ work[p] \in Work
           /\ work'[p] \in Work
           /\ work'[p].item = work[p].item
           /\ work'[p].data = work[p].data
           /\ work'[p].todo = work[p].todo \ {n}
           /\ PatchSucceeds(p, n) => work'[p].failed = work[p].failed
           /\ PatchFails(p, n) => work'[p].failed
           /\ \A q \in Procs \ {p} : work'[q] = work[q]
<1>1. work[p] \in Work
  BY DEF PatchSucceeds, PatchFails, TypeOK
<1>2. CASE PatchSucceeds(p, n)
  <2>. DEFINE w == [work[p] EXCEPT !.todo = @ \ {n}]
  <2>1. /\ w \in Work
        /\ w.item = work[p].item /\ w.data = work[p].data /\ w.todo = work[p].todo \ {n}
        /\ w.failed = work[p].failed
    BY <1>1 DEF Work
  <2>2. work' = [work EXCEPT ![p] = w]
    BY <1>2 DEF PatchSucceeds
  <2>. HIDE DEF w
  <2>3. ~PatchFails(p, n) \/ work'[p].failed
    <3>1. SUFFICES ASSUME PatchFails(p, n) PROVE work'[p].failed
      OBVIOUS
    <3>2. work' = [work EXCEPT ![p] = [work[p] EXCEPT !.todo = Remaining(p, n), !.failed = TRUE]]
      BY <3>1 DEF PatchFails
    <3>. QED  BY <1>1, <3>2 DEF TypeOK, Work
  <2>. QED  BY <1>1, <2>1, <2>2, <2>3 DEF TypeOK
<1>3. CASE PatchFails(p, n) /\ ~PatchSucceeds(p, n)
  <2>. DEFINE w == [work[p] EXCEPT !.todo = Remaining(p, n), !.failed = TRUE]
  <2>1. /\ w \in Work
        /\ w.item = work[p].item /\ w.data = work[p].data /\ w.todo = work[p].todo \ {n}
        /\ w.failed
    BY <1>1 DEF Work, Remaining
  <2>2. work' = [work EXCEPT ![p] = w]
    BY <1>3 DEF PatchFails
  <2>. HIDE DEF w
  <2>. QED  BY <1>1, <1>3, <2>1, <2>2 DEF TypeOK
<1>. QED  BY <1>2, <1>3

\* A reconciliation that failed makes its item ready again; a full sync waits for
\* the interval, unless an event has made it ready.
LEMMA ReconcileDoneSays ==
    ASSUME TypeOK, NEW p \in Procs, ReconcileDone(p)
    PROVE  /\ work[p] \in Work
           /\ work'[p] = NoWork
           /\ \A q \in Procs \ {p} : work'[q] = work[q]
           /\ item' \in [Procs -> [Items -> Levels]]
           /\ work[p].failed => item'[p][work[p].item] = "ready"
           /\ FullSync(p) => item'[p][Master] = MasterAfter(p)
           /\ ~work[p].failed /\ ~FullSync(p) => item' = item
           /\ \A i \in Items \ {work[p].item} : item'[p][i] = item[p][i]
           /\ \A q \in Procs \ {p} : item'[q] = item[q]
<1>1. work[p] \in Work /\ work[p].item \in Items /\ work[p].failed \in BOOLEAN
  BY DEF ReconcileDone, TypeOK, Work
<1>2. /\ work'[p] = NoWork
      /\ \A q \in Procs \ {p} : work'[q] = work[q]
  BY DEF ReconcileDone, TypeOK
<1>3. item \in [Procs -> [Items -> Levels]]
  BY DEF TypeOK, Levels
<1>4. CASE work[p].failed
  <2>1. item' = Ready(p, {work[p].item})
    BY <1>4 DEF ReconcileDone
  <2>2. {work[p].item} \in SUBSET Items
    BY <1>1
  <2>. QED  BY <1>1, <1>2, <1>4, <2>1, <2>2, ReadySays DEF FullSync, Levels
<1>5. CASE ~work[p].failed /\ FullSync(p)
  <2>1. item' = [item EXCEPT ![p][Master] = MasterAfter(p)]
    BY <1>5 DEF ReconcileDone
  <2>2. MasterAfter(p) \in Levels
    BY DEF MasterAfter, Levels
  <2>3. Master \in Items /\ work[p].item = Master
    BY <1>5, ItemsDiffer DEF FullSync
  <2>4. /\ item' \in [Procs -> [Items -> Levels]]
        /\ item'[p][Master] = MasterAfter(p)
        /\ \A i \in Items \ {Master} : item'[p][i] = item[p][i]
        /\ \A q \in Procs \ {p} : item'[q] = item[q]
    BY <1>3, <2>1, <2>2, <2>3, EntrySays
  <2>. QED  BY <1>1, <1>2, <1>5, <2>3, <2>4
<1>6. CASE ~work[p].failed /\ ~FullSync(p)
  <2>1. item' = item
    BY <1>6 DEF ReconcileDone
  <2>. QED  BY <1>1, <1>2, <1>3, <1>6, <2>1
<1>. QED  BY <1>1, <1>4, <1>5, <1>6

-----------------------------------------------------------------------------
(* Type correctness. *)

\* There is a master's namespace, and the first queue has an entry for every item.
LEMMA FirstItemsType ==
    ASSUME NEW ss, NEW ups
    PROVE  FirstItems(ss, ups) \in [Items -> {"none", "ready", "delayed", "dropped"}]
BY DEF FirstItems

LEMMA InitTypeOK == Init => TypeOK
<1>. SUFFICES ASSUME Init PROVE TypeOK
  OBVIOUS
<1>1. /\ version \in 0..MaxVersions /\ faults \in 0..MaxFaults
      /\ version = 1 => 1 \in Data
  BY BoundAssumption DEF Init, Data
<1>2. nsUp \subseteq Namespaces /\ MasterNs \in nsUp
  BY NamespaceAssumption DEF Init
<1>3. secrets \in [Namespaces -> Secret \cup {NoSecret}]
  BY <1>1 DEF Init, Secret
<1>4. wire \in [Procs -> [Namespaces -> SUBSET {"create", "update", "delete"}]]
  BY DEF Init, NoEvents
<1>5. item \in [Procs -> [Items -> {"none", "ready", "delayed", "dropped"}]]
  BY DEF Init, NoItems
<1>6. seen \in [Procs -> [Namespaces -> Data \cup {NoSecret}]]
  BY DEF Init, NothingSeen
<1>. QED
  BY <1>1, <1>2, <1>3, <1>4, <1>5, <1>6 DEF Init, TypeOK

LEMMA NextTypeOK == TypeOK /\ [Next]_vars => TypeOK'
<1>. SUFFICES ASSUME TypeOK, [Next]_vars PROVE TypeOK'
  OBVIOUS
<1>. USE OthersType, DataOfType
<1>1. CASE Publish
  <2>. DEFINE s == [data |-> version + 1, ours |-> FALSE, theirs |-> TRUE]
  <2>1. version' = version + 1 /\ version' \in 0..MaxVersions /\ version + 1 \in Data
    BY <1>1, BoundAssumption DEF Publish, TypeOK, Data
  <2>2. s \in Secret
    BY <2>1 DEF Secret
  <2>3. Store(MasterNs, s)
    BY <1>1, <2>1 DEF Publish
  <2>. HIDE DEF s
  <2>. QED
    BY <1>1, <2>1, <2>2, <2>3, StoreSays DEF Publish, TypeOK, cacheVars
<1>2. CASE DeleteMaster
  BY <1>2, StoreSays, FaultType DEF DeleteMaster, TypeOK, cacheVars
<1>3. ASSUME NEW n \in Others, UserWrites(n) PROVE TypeOK'
  <2>1. [data |-> Foreign, ours |-> FALSE, theirs |-> TRUE] \in Secret
    BY DEF Secret, Data
  <2>. QED
    BY <1>3, <2>1, StoreSays, FaultType DEF UserWrites, TypeOK, cacheVars
<1>4. ASSUME NEW n \in Others, UserDeletes(n) PROVE TypeOK'
  BY <1>4, StoreSays, FaultType DEF UserDeletes, TypeOK, cacheVars
<1>5. ASSUME NEW n \in Others, CreateNamespace(n) PROVE TypeOK'
  BY <1>5, FaultType DEF CreateNamespace, TypeOK, cacheVars
<1>6. ASSUME NEW n \in Others, DeleteNamespace(n) PROVE TypeOK'
  BY <1>6, StoreSays, FaultType DEF DeleteNamespace, TypeOK, cacheVars
<1>7. ASSUME NEW c \in ConfigStates, EditConfig(c) PROVE TypeOK'
  BY <1>7, FaultType DEF EditConfig, TypeOK, cacheVars
<1>8. ASSUME NEW p \in Procs, Start(p) PROVE TypeOK'
  <2>. DEFINE cached == [n \in Namespaces |-> DataOf(secrets[n])]
  <2>1. cached \in [Namespaces -> Data \cup {NoSecret}]
    BY DEF TypeOK
  <2>2. seen' = [seen EXCEPT ![p] = cached]
    BY <1>8 DEF Start
  <2>. HIDE DEF cached
  <2>3. seen' \in [Procs -> [Namespaces -> Data \cup {NoSecret}]]
    BY <2>1, <2>2 DEF TypeOK
  <2>4. item' \in [Procs -> [Items -> {"none", "ready", "delayed", "dropped"}]]
    BY <1>8, FirstItemsType DEF Start, TypeOK
  <2>5. faults' \in 0..MaxFaults
    BY <1>8, FaultType DEF Start
  <2>. QED
    BY <1>8, <2>3, <2>4, <2>5 DEF Start, TypeOK
<1>9. ASSUME NEW p \in Procs, Stop(p) PROVE TypeOK'
  <2>1. /\ NoEvents \in [Namespaces -> SUBSET {"create", "update", "delete"}]
        /\ NothingSeen \in [Namespaces -> Data \cup {NoSecret}]
        /\ NoItems \in [Items -> {"none", "ready", "delayed", "dropped"}]
    BY DEF NoEvents, NothingSeen, NoItems
  <2>2. faults' \in 0..MaxFaults
    BY <1>9, FaultType DEF Stop
  <2>. QED
    BY <1>9, <2>1, <2>2 DEF Stop, TypeOK
<1>10. ASSUME NEW p \in Procs, NEW n \in Namespaces, SeeSecret(p, n) PROVE TypeOK'
  BY <1>10, SeeSecretSays DEF SeeSecret, TypeOK, Levels
<1>11. ASSUME NEW p \in Procs, NEW n \in Namespaces, SeeNamespace(p, n) PROVE TypeOK'
  <2>1. seenNs' \in [Procs -> SUBSET Namespaces] /\ nsWire' \in [Procs -> SUBSET Others]
    BY <1>11 DEF SeeNamespace, TypeOK
  <2>2. item' \in [Procs -> [Items -> {"none", "ready", "delayed", "dropped"}]]
    BY <1>11, SeeNamespaceSays DEF Levels
  <2>. QED
    BY <1>11, <2>1, <2>2 DEF SeeNamespace, TypeOK
<1>12. ASSUME NEW p \in Procs, NEW i \in Items, ReconcileFails(p, i) \/ ReconcileDisabled(p, i)
       PROVE  TypeOK'
  <2>1. item' \in [Procs -> [Items -> {"none", "ready", "delayed", "dropped"}]]
    BY <1>12, NotStartedSays DEF Levels
  <2>. QED
    BY <1>12, <2>1 DEF ReconcileFails, ReconcileDisabled, TypeOK, clusterVars, cacheVars
<1>13. ASSUME NEW p \in Procs, NEW i \in Items, ReconcileStarts(p, i) PROVE TypeOK'
  <2>1. /\ item' \in [Procs -> [Items -> {"none", "ready", "delayed", "dropped"}]]
        /\ work' \in [Procs -> Work \cup {NoWork}]
    BY <1>13, ReconcileStartsSays DEF Levels
  <2>. QED
    BY <1>13, <2>1 DEF ReconcileStarts, TypeOK, clusterVars, cacheVars
<1>14. ASSUME NEW p \in Procs, NEW n \in Namespaces, PatchSucceeds(p, n) PROVE TypeOK'
  <2>1. work' \in [Procs -> Work \cup {NoWork}]
    BY <1>14, TriedSays
  <2>2. Patched(p, n) \in Secret /\ Store(n, Patched(p, n))
    BY <1>14, PatchedType DEF PatchSucceeds
  <2>3. /\ secrets' \in [Namespaces -> Secret \cup {NoSecret}]
        /\ wire' \in [Procs -> [Namespaces -> SUBSET {"create", "update", "delete"}]]
    BY <2>2, StoreSays
  <2>4. removed' \subseteq Others
    BY <1>14 DEF PatchSucceeds, TypeOK
  <2>. QED
    BY <1>14, <2>1, <2>3, <2>4 DEF PatchSucceeds, TypeOK, cacheVars
<1>15. ASSUME NEW p \in Procs, NEW n \in Namespaces, PatchFails(p, n) PROVE TypeOK'
  <2>1. work' \in [Procs -> Work \cup {NoWork}]
    BY <1>15, TriedSays
  <2>2. faults' \in 0..MaxFaults
    BY <1>15, FaultType DEF PatchFails
  <2>. QED
    BY <1>15, <2>1, <2>2 DEF PatchFails, TypeOK, clusterVars, cacheVars
<1>16. ASSUME NEW p \in Procs, ReconcileDone(p) PROVE TypeOK'
  <2>1. work[p].data \in Data /\ item' \in [Procs -> [Items -> {"none", "ready", "delayed", "dropped"}]]
    BY <1>16, ReconcileDoneSays DEF Work, Levels
  <2>2. synced' \in [Procs -> Data \cup {NoSecret}]
    BY <1>16, <2>1 DEF ReconcileDone, TypeOK
  <2>3. work' \in [Procs -> Work \cup {NoWork}]
    BY <1>16 DEF ReconcileDone, TypeOK
  <2>. QED
    BY <1>16, <2>1, <2>2, <2>3 DEF ReconcileDone, TypeOK, clusterVars, cacheVars
<1>17. CASE UNCHANGED vars
  BY <1>17 DEF TypeOK, vars
<1>. QED
  BY <1>1, <1>2, <1>3, <1>4, <1>5, <1>6, <1>7, <1>8, <1>9, <1>10, <1>11, <1>12, <1>13,
     <1>14, <1>15, <1>16, <1>17
  DEF Next, Environment, See, Take, Continue

\* Every variable keeps its type, in particular: a worker works with data that
\* was a master secret (secret_controller.go:80-94) and the queue holds known items.
THEOREM TypeCorrect == Spec => []TypeOK
<1>1. Init => TypeOK
  BY InitTypeOK
<1>2. TypeOK /\ [Next]_vars => TypeOK'
  BY NextTypeOK
<1>. QED
  BY <1>1, <1>2, PTL DEF Spec

-----------------------------------------------------------------------------
(* What the controller owns, caches and works with was published once. *)

\* The data of the master secret, of what is cached of it, of the work that is
\* done with it and of every copy that was made of it is that of some version.
DataPublished ==
    /\ \A n \in Namespaces : secrets[n] # NoSecret /\ (secrets[n].ours \/ n = MasterNs)
                               => secrets[n].data \in 1..version
    /\ \A p \in Procs : seen[p][MasterNs] \in 1..version \cup {NoSecret}
    /\ \A p \in Procs : work[p] # NoWork => work[p].data \in 1..version

LEMMA InitDataPublished == Init => DataPublished
<1>. SUFFICES ASSUME Init PROVE DataPublished
  OBVIOUS
<1>1. \A n \in Namespaces : secrets[n] # NoSecret => secrets[n] = [data |-> 1, ours |-> FALSE, theirs |-> TRUE] /\ version = 1
  BY DEF Init
<1>2. \A p \in Procs : seen[p][MasterNs] = NoSecret /\ work[p] = NoWork
  BY OthersType DEF Init, NothingSeen
<1>. QED  BY <1>1, <1>2 DEF DataPublished

\* A secret that is stored as the secret of n, with data of some version if it is
\* the controller's or the master's, keeps the first part of DataPublished.
LEMMA StoredPublished ==
    ASSUME TypeOK, DataPublished, NEW n \in Namespaces, NEW s \in Secret \cup {NoSecret}, Store(n, s),
           version' \in Nat, version' >= version,
           s # NoSecret /\ (s.ours \/ n = MasterNs) => s.data \in 1..version'
    PROVE  \A k \in Namespaces : secrets'[k] # NoSecret /\ (secrets'[k].ours \/ k = MasterNs)
                                   => secrets'[k].data \in 1..version'
<1>1. secrets'[n] = s /\ \A k \in Namespaces \ {n} : secrets'[k] = secrets[k]
  BY StoreSays
<1>2. version \in Nat
  BY BoundAssumption DEF TypeOK
<1>. QED  BY <1>1, <1>2 DEF DataPublished

LEMMA NextDataPublished == TypeOK /\ TypeOK' /\ DataPublished /\ [Next]_vars => DataPublished'
<1>. SUFFICES ASSUME TypeOK, TypeOK', DataPublished, [Next]_vars PROVE DataPublished'
  OBVIOUS
<1>. USE OthersType
<1>0. version \in Nat /\ version' \in Nat
  BY BoundAssumption DEF TypeOK
<1>1. CASE Publish
  <2>. DEFINE s == [data |-> version + 1, ours |-> FALSE, theirs |-> TRUE]
  <2>1. version' = version + 1 /\ version + 1 \in Data
    BY <1>1, BoundAssumption DEF Publish, TypeOK, Data
  <2>2. s \in Secret /\ s.data \in 1..version'
    BY <1>0, <2>1 DEF Secret
  <2>3. Store(MasterNs, s)
    BY <1>1, <2>1 DEF Publish
  <2>. HIDE DEF s
  <2>4. \A k \in Namespaces : secrets'[k] # NoSecret /\ (secrets'[k].ours \/ k = MasterNs)
                                => secrets'[k].data \in 1..version'
    BY <1>0, <2>1, <2>2, <2>3, StoredPublished
  <2>. QED  BY <1>0, <1>1, <2>1, <2>4 DEF Publish, DataPublished, cacheVars
<1>2. ASSUME NEW n \in Namespaces, Store(n, NoSecret), UNCHANGED <<version, seen, work>>
      PROVE  DataPublished'
  <2>1. \A k \in Namespaces : secrets'[k] # NoSecret /\ (secrets'[k].ours \/ k = MasterNs)
                                => secrets'[k].data \in 1..version'
    BY <1>0, <1>2, StoredPublished
  <2>. QED  BY <1>2, <2>1 DEF DataPublished
<1>3. ASSUME NEW n \in Others, UserWrites(n) PROVE DataPublished'
  <2>. DEFINE s == [data |-> Foreign, ours |-> FALSE, theirs |-> TRUE]
  <2>1. s \in Secret /\ ~s.ours /\ Store(n, s)
    BY <1>3 DEF Secret, Data, UserWrites
  <2>2. n \in Namespaces /\ n # MasterNs /\ version' = version
    BY <1>3 DEF UserWrites
  <2>. HIDE DEF s
  <2>3. \A k \in Namespaces : secrets'[k] # NoSecret /\ (secrets'[k].ours \/ k = MasterNs)
                                => secrets'[k].data \in 1..version'
    BY <1>0, <2>1, <2>2, StoredPublished
  <2>. QED  BY <1>3, <2>3 DEF UserWrites, DataPublished, cacheVars
<1>4. ASSUME NEW p \in Procs, Start(p) PROVE DataPublished'
  <2>1. seen'[p][MasterNs] = DataOf(secrets[MasterNs]) /\ \A q \in Procs \ {p} : seen'[q] = seen[q]
    BY <1>4 DEF Start, TypeOK
  <2>2. DataOf(secrets[MasterNs]) \in 1..version \cup {NoSecret}
    BY DataOfType DEF TypeOK, DataPublished
  <2>. QED  BY <1>4, <2>1, <2>2 DEF Start, DataPublished
<1>5. ASSUME NEW p \in Procs, Stop(p) PROVE DataPublished'
  <2>1. seen'[p][MasterNs] = NoSecret /\ \A q \in Procs \ {p} : seen'[q] = seen[q]
    BY <1>5 DEF Stop, TypeOK, NothingSeen
  <2>2. work'[p] = NoWork /\ \A q \in Procs \ {p} : work'[q] = work[q]
    BY <1>5 DEF Stop, TypeOK
  <2>. QED  BY <1>5, <2>1, <2>2 DEF Stop, DataPublished
<1>6. ASSUME NEW p \in Procs, NEW n \in Namespaces, SeeSecret(p, n) PROVE DataPublished'
  <2>1. DataOf(secrets[MasterNs]) \in 1..version \cup {NoSecret}
    BY DataOfType DEF TypeOK, DataPublished
  <2>2. \A q \in Procs : seen'[q][MasterNs] \in {seen[q][MasterNs], DataOf(secrets[MasterNs])}
    BY <1>6, SeeSecretSays
  <2>. QED  BY <1>6, <2>1, <2>2 DEF SeeSecret, DataPublished
<1>7. ASSUME NEW p \in Procs, NEW i \in Items, ReconcileStarts(p, i) PROVE DataPublished'
  <2>1. work'[p].data = seen[p][MasterNs] /\ seen[p][MasterNs] \in Data /\ \A q \in Procs \ {p} : work'[q] = work[q]
    BY <1>7, ReconcileStartsSays
  <2>2. seen[p][MasterNs] \in 1..version
    BY <2>1, AbsenceAssumption DEF DataPublished
  <2>. QED  BY <1>7, <2>1, <2>2 DEF ReconcileStarts, DataPublished, clusterVars, cacheVars
<1>8. ASSUME NEW p \in Procs, NEW n \in Namespaces, PatchSucceeds(p, n) PROVE DataPublished'
  <2>1. Patched(p, n) \in Secret /\ Patched(p, n).data = work[p].data /\ Store(n, Patched(p, n))
    BY <1>8, PatchedType DEF PatchSucceeds
  <2>2. work[p].data \in 1..version /\ version' = version
    BY <1>8 DEF PatchSucceeds, DataPublished
  <2>3. \A k \in Namespaces : secrets'[k] # NoSecret /\ (secrets'[k].ours \/ k = MasterNs)
                                => secrets'[k].data \in 1..version'
    BY <1>0, <2>1, <2>2, StoredPublished
  <2>4. \A q \in Procs : work'[q] # NoWork => work[q] # NoWork /\ work'[q].data = work[q].data
    BY <1>8, TriedSays, AbsenceAssumption
  <2>. QED  BY <1>8, <2>2, <2>3, <2>4 DEF PatchSucceeds, DataPublished, cacheVars
<1>9. ASSUME NEW p \in Procs, NEW n \in Namespaces, PatchFails(p, n) PROVE DataPublished'
  <2>1. \A q \in Procs : work'[q] # NoWork => work[q] # NoWork /\ work'[q].data = work[q].data
    BY <1>9, TriedSays, AbsenceAssumption
  <2>. QED  BY <1>9, <2>1 DEF PatchFails, DataPublished, clusterVars, cacheVars
<1>10. ASSUME NEW p \in Procs, ReconcileDone(p) PROVE DataPublished'
  BY <1>10, ReconcileDoneSays DEF ReconcileDone, DataPublished, clusterVars, cacheVars
<1>11. CASE UNCHANGED <<version, secrets, seen, work>>
  BY <1>11 DEF DataPublished
<1>12. CASE \/ \E n \in Others : CreateNamespace(n)
            \/ \E c \in ConfigStates : EditConfig(c)
            \/ \E p \in Procs, n \in Namespaces : SeeNamespace(p, n)
            \/ \E p \in Procs, i \in Items : ReconcileFails(p, i) \/ ReconcileDisabled(p, i)
            \/ UNCHANGED vars
  BY <1>11, <1>12 DEF CreateNamespace, EditConfig, SeeNamespace, ReconcileFails, ReconcileDisabled,
                      vars, cacheVars, clusterVars
<1>13. CASE DeleteMaster \/ \E n \in Others : UserDeletes(n) \/ DeleteNamespace(n)
  BY <1>2, <1>13 DEF DeleteMaster, UserDeletes, DeleteNamespace, cacheVars
<1>. QED
  BY <1>1, <1>3, <1>4, <1>5, <1>6, <1>7, <1>8, <1>9, <1>10, <1>12, <1>13
  DEF Next, Environment, See, Take, Continue

\* The controller owns only what was published once: it copies neither a user's
\* data nor a secret it has not found (secret_controller.go:80-94, 103-113).
THEOREM OnlyPublishedCopied == Spec => []CopiesPublished
<1>1. Init => TypeOK /\ DataPublished
  BY InitTypeOK, InitDataPublished
<1>2. TypeOK /\ DataPublished /\ [Next]_vars => TypeOK' /\ DataPublished'
  BY NextTypeOK, NextDataPublished
<1>3. DataPublished => CopiesPublished
  BY DEF DataPublished, CopiesPublished
<1>. QED
  BY <1>1, <1>2, <1>3, PTL DEF Spec

-----------------------------------------------------------------------------
(* No change of the master secret passes an informer by. *)

\* An event that the predicates accept for the master secret is on its way to p.
MasterEvent(p) == wire[p][MasterNs] \cap {"create", "update"} # {}

\* A process that is not running has no informer.
DownHearsNothing == \A p \in Procs \ up : wire[p] = NoEvents

\* What an informer has not seen of the master secret is on its way to it.
MasterHeard ==
    \A p \in up : DataOf(secrets[MasterNs]) \notin {NoSecret, seen[p][MasterNs]} => MasterEvent(p)

EventsInv == DownHearsNothing /\ MasterHeard

LEMMA StoredHeard ==
    ASSUME TypeOK, EventsInv, NEW n \in Namespaces, NEW s \in Secret \cup {NoSecret}, Store(n, s),
           UNCHANGED <<up, seen>>
    PROVE  EventsInv'
<1>. USE OthersType
<1>1. /\ \A p \in Procs, k \in Namespaces : wire[p][k] \subseteq wire'[p][k]
      /\ \A p \in Procs \ up : wire'[p] = wire[p]
      /\ \A p \in up : EventKind(secrets[n], s) \subseteq wire'[p][n]
      /\ secrets'[n] = s /\ \A k \in Namespaces \ {n} : secrets'[k] = secrets[k]
  BY StoreSays
<1>2. DownHearsNothing'
  BY <1>1 DEF EventsInv, DownHearsNothing, NoEvents
<1>3. ASSUME NEW p \in up, DataOf(secrets'[MasterNs]) \notin {NoSecret, seen[p][MasterNs]}
      PROVE  MasterEvent(p)'
  <2>1. CASE DataOf(secrets'[MasterNs]) = DataOf(secrets[MasterNs])
    BY <1>1, <1>3, <2>1 DEF EventsInv, MasterHeard, MasterEvent, TypeOK
  <2>2. CASE DataOf(secrets'[MasterNs]) # DataOf(secrets[MasterNs])
    <3>1. n = MasterNs
      BY <1>1, <2>2
    <3>2. s # NoSecret /\ DataOf(s) # DataOf(secrets[n])
      BY <1>1, <1>3, <2>2, <3>1, DataOfType
    <3>3. EventKind(secrets[n], s) \cap {"create", "update"} # {}
      BY <3>2, EventKindSays DEF TypeOK
    <3>. QED  BY <1>1, <3>1, <3>3 DEF MasterEvent
  <2>. QED  BY <2>1, <2>2
<1>. QED  BY <1>2, <1>3 DEF EventsInv, MasterHeard

LEMMA NextEventsInv == TypeOK /\ TypeOK' /\ EventsInv /\ [Next]_vars => EventsInv'
<1>. SUFFICES ASSUME TypeOK, TypeOK', EventsInv, [Next]_vars PROVE EventsInv'
  OBVIOUS
<1>. USE OthersType
<1>1. ASSUME NEW n \in Namespaces, NEW s \in Secret \cup {NoSecret}, Store(n, s),
             UNCHANGED <<up, seen>>
      PROVE  EventsInv'
  BY <1>1, StoredHeard
<1>2. CASE Publish
  <2>1. secrets'[MasterNs] \in Secret \cup {NoSecret}
    BY DEF TypeOK
  <2>2. Store(MasterNs, secrets'[MasterNs])
    BY <1>2 DEF Publish, Store, TypeOK
  <2>. QED  BY <1>1, <1>2, <2>1, <2>2 DEF Publish, cacheVars
<1>3. CASE DeleteMaster \/ \E n \in Others : UserDeletes(n) \/ DeleteNamespace(n)
  BY <1>1, <1>3 DEF DeleteMaster, UserDeletes, DeleteNamespace, cacheVars
<1>4. ASSUME NEW n \in Others, UserWrites(n) PROVE EventsInv'
  <2>1. [data |-> Foreign, ours |-> FALSE, theirs |-> TRUE] \in Secret
    BY DEF Secret, Data
  <2>. QED  BY <1>1, <1>4, <2>1 DEF UserWrites, cacheVars
<1>5. ASSUME NEW p \in Procs, NEW n \in Namespaces, PatchSucceeds(p, n) PROVE EventsInv'
  BY <1>1, <1>5, PatchedType DEF PatchSucceeds, cacheVars
<1>6. ASSUME NEW p \in Procs, Start(p) PROVE EventsInv'
  <2>1. seen'[p][MasterNs] = DataOf(secrets[MasterNs]) /\ \A q \in Procs \ {p} : seen'[q] = seen[q]
    BY <1>6 DEF Start, TypeOK
  <2>. QED  BY <1>6, <2>1 DEF Start, EventsInv, DownHearsNothing, MasterHeard, MasterEvent, NoEvents, TypeOK
<1>7. ASSUME NEW p \in Procs, Stop(p) PROVE EventsInv'
  <2>1. /\ wire'[p] = NoEvents
        /\ \A q \in Procs \ {p} : wire'[q] = wire[q] /\ seen'[q] = seen[q]
        /\ up' = up \ {p} /\ secrets' = secrets
    BY <1>7 DEF Stop, TypeOK
  <2>. QED  BY <2>1 DEF EventsInv, DownHearsNothing, MasterHeard, MasterEvent, NoEvents, TypeOK
<1>8. ASSUME NEW p \in Procs, NEW n \in Namespaces, SeeSecret(p, n) PROVE EventsInv'
  <2>1. p \in up
    BY <1>8 DEF SeeSecret, EventsInv, DownHearsNothing, NoEvents
  <2>2. /\ seen'[p][n] = DataOf(secrets[n])
        /\ \A k \in Namespaces \ {n} : seen'[p][k] = seen[p][k] /\ wire'[p][k] = wire[p][k]
        /\ \A q \in Procs \ {p} : seen'[q] = seen[q] /\ wire'[q] = wire[q]
    BY <1>8, SeeSecretSays, ZenonT(40)
  <2>3. up' = up /\ secrets' = secrets
    BY <1>8 DEF SeeSecret
  <2>4. DownHearsNothing'
    BY <2>1, <2>2, <2>3 DEF EventsInv, DownHearsNothing, NoEvents
  <2>5. MasterHeard'
    BY <2>2, <2>3, ZenonT(40) DEF EventsInv, MasterHeard, MasterEvent, TypeOK
  <2>. QED  BY <2>4, <2>5 DEF EventsInv
<1>9. CASE UNCHANGED <<secrets, up, wire, seen>>
  BY <1>9 DEF EventsInv, DownHearsNothing, MasterHeard, MasterEvent, NoEvents
<1>10. CASE \/ \E n \in Others : CreateNamespace(n)
            \/ \E c \in ConfigStates : EditConfig(c)
            \/ \E p \in Procs, n \in Namespaces : SeeNamespace(p, n) \/ PatchFails(p, n)
            \/ \E p \in Procs, i \in Items : Take(p, i)
            \/ \E p \in Procs : ReconcileDone(p)
            \/ UNCHANGED vars
  BY <1>9, <1>10, ZenonT(40)
     DEF CreateNamespace, EditConfig, SeeNamespace, PatchFails, Take, ReconcileFails,
         ReconcileDisabled, ReconcileStarts, ReconcileDone, vars, cacheVars, clusterVars
<1>. QED
  BY <1>2, <1>3, <1>4, <1>5, <1>6, <1>7, <1>8, <1>10 DEF Next, Environment, See, Continue

-----------------------------------------------------------------------------
(* The full sync is never lost, nor a change of the master secret. *)

\* What holds of the full sync of p: it is never lost, and what it has not synced is
\* in its queue or its work.  A change that is seen while a sync runs makes the next
\* one ready: this is what the sync that ends relies on.
SyncOf(p) ==
    /\ seen[p][MasterNs] # NoSecret => item[p][Master] # "none" \/ Syncing(p)
    /\ seen[p][MasterNs] \notin {NoSecret, synced[p]} =>
         \/ item[p][Master] \in {"ready", "dropped"}
         \/ Syncing(p) /\ work[p].data = seen[p][MasterNs]
    /\ Syncing(p) => /\ item[p][Master] \in {"none", "ready"}
                     /\ seen[p][MasterNs] \notin {NoSecret, work[p].data} => item[p][Master] = "ready"

SyncInv == \A p \in Procs : SyncOf(p)

LEMMA InitSyncInv == Init => SyncInv
<1>1. Init => \A p \in Procs : seen[p][MasterNs] = NoSecret /\ work[p] = NoWork
  <2>1. Init => seen = [p \in Procs |-> NothingSeen] /\ work = [p \in Procs |-> NoWork]
    BY DEF Init
  <2>2. NothingSeen[MasterNs] = NoSecret
    BY OthersType DEF NothingSeen
  <2>. QED  BY <2>1, <2>2
<1>. QED  BY <1>1 DEF SyncInv, SyncOf, Syncing

\* What the others do does not change the sync of q.
LEMMA SyncFrame ==
    ASSUME SyncInv, NEW q \in Procs, seen'[q][MasterNs] = seen[q][MasterNs],
           item'[q][Master] = item[q][Master] \/ item'[q][Master] = "ready",
           work'[q] = work[q], synced'[q] = synced[q]
    PROVE  SyncOf(q)'
BY DEF SyncInv, SyncOf, Syncing

LEMMA NextSyncInv == TypeOK /\ EventsInv /\ SyncInv /\ [Next]_vars => SyncInv'
<1>. SUFFICES ASSUME TypeOK, EventsInv, SyncInv, [Next]_vars, NEW r \in Procs PROVE SyncOf(r)'
  BY DEF SyncInv
<1>. USE OthersType, ItemsDiffer
<1>1. CASE UNCHANGED <<seen, item, work, synced>>
  BY <1>1, SyncFrame
<1>2. CASE \/ Publish \/ DeleteMaster
           \/ \E n \in Others : UserWrites(n) \/ UserDeletes(n) \/ CreateNamespace(n) \/ DeleteNamespace(n)
           \/ \E c \in ConfigStates : EditConfig(c)
           \/ UNCHANGED vars
  BY <1>1, <1>2 DEF Publish, DeleteMaster, UserWrites, UserDeletes, CreateNamespace, DeleteNamespace,
                    EditConfig, vars, cacheVars
<1>3. ASSUME NEW p \in Procs, Start(p) PROVE SyncOf(r)'
  <2>1. CASE r = p
    <3>1. seen'[p][MasterNs] = DataOf(secrets[MasterNs])
      BY <1>3 DEF Start, TypeOK
    <3>2. secrets[MasterNs] # NoSecret => item'[p][Master] = "ready"
      BY <1>3 DEF Start, TypeOK, FirstItems
    <3>3. item'[p][Master] \in {"none", "ready"}
      BY <1>3 DEF Start, TypeOK, FirstItems
    <3>4. seen'[p][MasterNs] # NoSecret => item'[p][Master] = "ready"
      BY <3>1, <3>2, DataOfType DEF TypeOK
    <3>. QED  BY <2>1, <3>3, <3>4 DEF SyncOf, Syncing
  <2>2. CASE r # p
    BY <1>3, <2>2, SyncFrame DEF Start, TypeOK
  <2>. QED  BY <2>1, <2>2
<1>4. ASSUME NEW p \in Procs, Stop(p) PROVE SyncOf(r)'
  <2>1. CASE r = p
    <3>1. seen'[p][MasterNs] = NoSecret /\ work'[p] = NoWork
      BY <1>4 DEF Stop, TypeOK, NothingSeen
    <3>. QED  BY <2>1, <3>1 DEF SyncOf, Syncing
  <2>2. CASE r # p
    BY <1>4, <2>2, SyncFrame DEF Stop, TypeOK
  <2>. QED  BY <2>1, <2>2
<1>5. ASSUME NEW p \in Procs, NEW n \in Namespaces, SeeSecret(p, n) PROVE SyncOf(r)'
  <2>1. work' = work /\ synced' = synced
    BY <1>5 DEF SeeSecret
  <2>2. item'[r][Master] \in {item[r][Master], "ready"}
    BY <1>5, SeeSecretSays
  <2>3. CASE seen'[r][MasterNs] = seen[r][MasterNs]
    BY <2>1, <2>2, <2>3, SyncFrame
  <2>4. CASE r = p /\ n = MasterNs /\ seen'[r][MasterNs] # seen[r][MasterNs]
    <3>1. p \in up /\ seen'[p][MasterNs] = DataOf(secrets[MasterNs])
      BY <1>5, <2>4, SeeSecretSays DEF SeeSecret, EventsInv, DownHearsNothing, NoEvents
    <3>2. CASE seen'[p][MasterNs] = NoSecret
      <4>1. item'[p][Master] \in {"none", "ready"} \/ ~Syncing(p)
        BY <2>2, <2>4 DEF SyncInv, SyncOf
      <4>. QED  BY <2>1, <2>4, <3>2, <4>1 DEF SyncOf, Syncing
    <3>3. CASE seen'[p][MasterNs] # NoSecret
      <4>1. MasterEvent(p)
        BY <2>4, <3>1, <3>3 DEF EventsInv, MasterHeard
      <4>2. item'[p][Master] = "ready"
        BY <1>5, <2>4, <4>1, SeeSecretSays DEF MasterEvent
      <4>. QED  BY <2>1, <2>4, <4>2 DEF SyncOf, Syncing
    <3>. QED  BY <3>2, <3>3
  <2>5. r # p \/ n # MasterNs => seen'[r][MasterNs] = seen[r][MasterNs]
    <3>1. \A q \in Procs \ {p} : seen'[q] = seen[q]
      BY <1>5, SeeSecretSays
    <3>2. \A k \in Namespaces : k # n => seen'[p][k] = seen[p][k]
      <4>1. seen' = [seen EXCEPT ![p][n] = DataOf(secrets[n])]
        BY <1>5 DEF SeeSecret
      <4>. QED  BY <4>1 DEF TypeOK
    <3>. QED  BY <3>1, <3>2
  <2>. QED  BY <2>3, <2>4, <2>5
<1>6. ASSUME NEW p \in Procs, NEW n \in Namespaces, SeeNamespace(p, n) PROVE SyncOf(r)'
  <2>1. seen' = seen /\ work' = work /\ synced' = synced
    BY <1>6 DEF SeeNamespace
  <2>2. item'[r][Master] = item[r][Master]
    BY <1>6, SeeNamespaceSays
  <2>. QED  BY <2>1, <2>2, SyncFrame
<1>7. ASSUME NEW p \in Procs, NEW i \in Items, ReconcileFails(p, i) \/ ReconcileDisabled(p, i)
      PROVE  SyncOf(r)'
  <2>1. seen' = seen /\ work' = work /\ synced' = synced /\ work[p] = NoWork
    BY <1>7 DEF ReconcileFails, ReconcileDisabled, Takes, cacheVars
  <2>2. CASE r = p /\ i = Master
    <3>1. item'[r][Master] \in {"ready", "dropped"}
      BY <1>7, <2>2, NotStartedSays
    <3>. QED  BY <2>1, <2>2, <3>1 DEF SyncOf, Syncing
  <2>3. CASE r # p \/ i # Master
    <3>1. item'[r][Master] = item[r][Master]
      BY <1>7, <2>3, NotStartedSays
    <3>. QED  BY <2>1, <3>1, SyncFrame
  <2>. QED  BY <2>2, <2>3
<1>8. ASSUME NEW p \in Procs, NEW i \in Items, ReconcileStarts(p, i) PROVE SyncOf(r)'
  <2>1. seen' = seen /\ synced' = synced
    BY <1>8 DEF ReconcileStarts, cacheVars
  <2>2. CASE r # p
    BY <1>8, <2>1, <2>2, SyncFrame, ReconcileStartsSays
  <2>3. CASE r = p /\ i = Master
    <3>1. /\ Syncing(p)' /\ item'[p][Master] = "none"
          /\ work'[p].data = seen[p][MasterNs]
      BY <1>8, <2>3, ReconcileStartsSays, AbsenceAssumption DEF Syncing
    <3>. QED  BY <2>1, <2>3, <3>1 DEF SyncOf
  <2>4. CASE r = p /\ i # Master
    <3>1. ~Syncing(p) /\ ~Syncing(p)' /\ item'[p][Master] = item[p][Master]
      BY <1>8, <2>4, ReconcileStartsSays DEF Syncing
    <3>. QED  BY <2>1, <2>4, <3>1 DEF SyncInv, SyncOf
  <2>. QED  BY <2>2, <2>3, <2>4
<1>9. ASSUME NEW p \in Procs, NEW n \in Namespaces, PatchSucceeds(p, n) \/ PatchFails(p, n)
      PROVE  SyncOf(r)'
  <2>1. seen' = seen /\ synced' = synced /\ item' = item
    BY <1>9 DEF PatchSucceeds, PatchFails, cacheVars
  <2>2. CASE r # p
    BY <1>9, <2>1, <2>2, SyncFrame, TriedSays
  <2>3. CASE r = p
    <3>1. (Syncing(p)' <=> Syncing(p)) /\ work'[p].data = work[p].data
      BY <1>9, TriedSays, AbsenceAssumption DEF Syncing
    <3>. QED  BY <2>1, <2>3, <3>1 DEF SyncInv, SyncOf
  <2>. QED  BY <2>2, <2>3
<1>10. ASSUME NEW p \in Procs, ReconcileDone(p) PROVE SyncOf(r)'
  <2>1. seen' = seen
    BY <1>10 DEF ReconcileDone, cacheVars
  <2>2. synced' = IF FullSync(p) THEN [synced EXCEPT ![p] = work[p].data] ELSE synced
    BY <1>10 DEF ReconcileDone
  <2>3. CASE r # p
    <3>1. synced'[r] = synced[r]
      BY <2>2, <2>3 DEF TypeOK
    <3>. QED  BY <1>10, <2>1, <2>3, <3>1, SyncFrame, ReconcileDoneSays
  <2>4. CASE r = p /\ FullSync(p)
    <3>1. synced'[p] = work[p].data
      BY <2>2, <2>4 DEF TypeOK
    <3>2. Syncing(p) /\ ~Syncing(p)'
      BY <1>10, <2>4, ReconcileDoneSays DEF Syncing, FullSync, ReconcileDone
    <3>3. item'[p][Master] = IF item[p][Master] = "ready" THEN "ready" ELSE "delayed"
      BY <1>10, <2>4, ReconcileDoneSays DEF MasterAfter
    <3>. QED  BY <2>1, <2>4, <3>1, <3>2, <3>3 DEF SyncInv, SyncOf
  <2>5. CASE r = p /\ Syncing(p) /\ ~FullSync(p)
    <3>1. work[p].failed /\ item'[p][Master] = "ready" /\ ~Syncing(p)'
      BY <1>10, <2>5, ReconcileDoneSays DEF Syncing, FullSync
    <3>. QED  BY <2>5, <3>1 DEF SyncOf
  <2>6. CASE r = p /\ ~Syncing(p)
    <3>1. work[p] # NoWork /\ work[p].item # Master /\ ~FullSync(p) /\ ~Syncing(p)'
      BY <1>10, <2>6, ReconcileDoneSays DEF Syncing, FullSync, ReconcileDone
    <3>2. item'[p][Master] = item[p][Master] /\ synced' = synced
      BY <1>10, <2>2, <3>1, ReconcileDoneSays
    <3>. QED  BY <2>1, <2>6, <3>1, <3>2 DEF SyncInv, SyncOf
  <2>. QED  BY <2>3, <2>4, <2>5, <2>6
<1>. QED
  BY <1>2, <1>3, <1>4, <1>5, <1>6, <1>7, <1>8, <1>9, <1>10
  DEF Next, Environment, See, Take, Continue

LEMMA InitEventsInv == Init => EventsInv
BY DEF Init, EventsInv, DownHearsNothing, MasterHeard

LEMMA SyncInvariant == Spec => [](TypeOK /\ EventsInv /\ SyncInv)
<1>1. Init => TypeOK /\ EventsInv /\ SyncInv
  BY InitTypeOK, InitEventsInv, InitSyncInv
<1>2. TypeOK /\ EventsInv /\ SyncInv /\ [Next]_vars => TypeOK' /\ EventsInv' /\ SyncInv'
  BY NextTypeOK, NextEventsInv, NextSyncInv
<1>. QED  BY <1>1, <1>2, PTL DEF Spec

\* A full sync is never lost: while the informer holds the master secret, the item is
\* in the queue or worked on (secret_controller.go:57-63, 123-130).
THEOREM FullSyncNeverLost == Spec => []MasterAttended
<1>1. SyncInv => MasterAttended
  BY DEF SyncInv, SyncOf, MasterAttended
<1>. QED  BY <1>1, SyncInvariant, PTL

\* A change of the master secret that arrives during a sync with the former one is
\* synced next, without waiting for the interval: whatever the order of events,
\* caches and requeues (secret_controller.go:123-130).
THEOREM ChangeNotAbsorbed == Spec => []SyncCurrent
<1>1. SyncInv => SyncCurrent
  BY DEF SyncInv, SyncOf, SyncCurrent
<1>. QED  BY <1>1, SyncInvariant, PTL

-----------------------------------------------------------------------------
(* The master secret is not set back. *)

\* Only the full sync works on another namespace than that of its item.
TodoOfItem ==
    \A p \in Procs : work[p] # NoWork /\ work[p].item # Master => work[p].todo \subseteq {work[p].item[2]}

LEMMA NextTodoOfItem == TypeOK /\ TodoOfItem /\ [Next]_vars => TodoOfItem'
<1>. SUFFICES ASSUME TypeOK, TodoOfItem, [Next]_vars PROVE TodoOfItem'
  OBVIOUS
<1>1. CASE UNCHANGED work
  BY <1>1 DEF TodoOfItem
<1>2. ASSUME NEW p \in Procs, work'[p] = NoWork, \A q \in Procs \ {p} : work'[q] = work[q]
      PROVE  TodoOfItem'
  BY <1>2 DEF TodoOfItem
<1>3. ASSUME NEW p \in Procs, NEW i \in Items, ReconcileStarts(p, i) PROVE TodoOfItem'
  <2>1. i # Master => ToPatch(p, i) = {i[2]}
    BY DEF ToPatch
  <2>. QED  BY <1>3, <2>1, ReconcileStartsSays DEF TodoOfItem
<1>4. ASSUME NEW p \in Procs, NEW n \in Namespaces, PatchSucceeds(p, n) \/ PatchFails(p, n)
      PROVE  TodoOfItem'
  BY <1>4, TriedSays, AbsenceAssumption DEF TodoOfItem
<1>5. ASSUME NEW p \in Procs, ReconcileDone(p) \/ Stop(p) PROVE TodoOfItem'
  <2>1. work'[p] = NoWork /\ \A q \in Procs \ {p} : work'[q] = work[q]
    BY <1>5 DEF ReconcileDone, Stop, TypeOK
  <2>. QED  BY <1>2, <2>1
<1>6. CASE \/ Publish \/ DeleteMaster
           \/ \E n \in Others : UserWrites(n) \/ UserDeletes(n) \/ CreateNamespace(n) \/ DeleteNamespace(n)
           \/ \E c \in ConfigStates : EditConfig(c)
           \/ \E p \in Procs : Start(p)
           \/ \E p \in Procs, n \in Namespaces : See(p, n)
           \/ \E p \in Procs, i \in Items : ReconcileFails(p, i) \/ ReconcileDisabled(p, i)
           \/ UNCHANGED vars
  BY <1>1, <1>6 DEF Publish, DeleteMaster, UserWrites, UserDeletes, CreateNamespace, DeleteNamespace,
                    EditConfig, Start, See, SeeSecret, SeeNamespace, ReconcileFails, ReconcileDisabled, vars
<1>. QED
  BY <1>3, <1>4, <1>5, <1>6 DEF Next, Environment, Take, Continue

\* What a step does to the master secret of its publisher: nothing, unless it is
\* published or deleted, or a patch repeats its data.
LEMMA MasterKept ==
    ASSUME TypeOK, TypeOK', TodoOfItem, [Next]_vars, secrets[MasterNs] # NoSecret, secrets[MasterNs].theirs
    PROVE  \/ Publish \/ DeleteMaster
           \/ secrets'[MasterNs] # NoSecret /\ secrets'[MasterNs].data = secrets[MasterNs].data
<1>. USE OthersType
<1>1. ASSUME NEW n \in Others, UserWrites(n) \/ UserDeletes(n) \/ DeleteNamespace(n)
      PROVE  secrets'[MasterNs] = secrets[MasterNs]
  <2>1. PICK s : secrets' = [secrets EXCEPT ![n] = s]
    BY <1>1 DEF UserWrites, UserDeletes, DeleteNamespace, Store
  <2>. QED  BY <2>1 DEF TypeOK
<1>2. ASSUME NEW p \in Procs, NEW n \in Namespaces, PatchSucceeds(p, n)
      PROVE  secrets'[MasterNs] # NoSecret /\ secrets'[MasterNs].data = secrets[MasterNs].data
  <2>1. CASE n # MasterNs
    BY <1>2, <2>1 DEF PatchSucceeds, Store, TypeOK
  <2>2. CASE n = MasterNs
    <3>1. work[p] \in Work /\ MasterNs \in work[p].todo /\ work[p] # NoWork
      BY <1>2, <2>2, TriedSays DEF PatchSucceeds
    <3>2. work[p].item = Master
      <4>1. SUFFICES ASSUME work[p].item # Master PROVE FALSE
        OBVIOUS
      <4>2. MasterNs = work[p].item[2]
        BY <3>1, <4>1 DEF TodoOfItem
      <4>. QED  BY <3>1, <4>1, <4>2, ItemsDiffer DEF Work
    <3>3. ~Forced(work[p].item)
      BY <3>2, ItemsDiffer DEF Forced
    <3>4. secrets[MasterNs].data = work[p].data
      BY <1>2, <2>2, <3>3 DEF PatchSucceeds, Conflict
    <3>5. secrets'[MasterNs] = Patched(p, MasterNs)
      BY <1>2, <2>2 DEF PatchSucceeds, Store, TypeOK
    <3>6. Patched(p, MasterNs) \in Secret /\ Patched(p, MasterNs).data = work[p].data
      BY <3>1, PatchedType
    <3>. QED  BY <3>4, <3>5, <3>6, AbsenceAssumption
  <2>. QED  BY <2>1, <2>2
<1>3. CASE UNCHANGED secrets
  BY <1>3
<1>4. CASE \/ \E n \in Others : CreateNamespace(n)
           \/ \E c \in ConfigStates : EditConfig(c)
           \/ \E p \in Procs : Start(p) \/ Stop(p) \/ ReconcileDone(p)
           \/ \E p \in Procs, n \in Namespaces : See(p, n) \/ PatchFails(p, n)
           \/ \E p \in Procs, i \in Items : Take(p, i)
           \/ UNCHANGED vars
  BY <1>3, <1>4, ZenonT(40)
     DEF CreateNamespace, EditConfig, Start, Stop, See, SeeSecret, SeeNamespace, PatchFails, Take,
         ReconcileFails, ReconcileDisabled, ReconcileStarts, ReconcileDone, vars, clusterVars
<1>. QED
  BY <1>1, <1>2, <1>4 DEF Next, Environment, Continue

LEMMA InitTodoOfItem == Init => TodoOfItem
BY DEF Init, TodoOfItem

\* However old the cache of a process is, it never sets the master secret back to an
\* older version while its publisher owns the data: the patch of the full sync is
\* not forced (secret_controller.go:103-113).
THEOREM MasterSafe == Spec => MasterNeverSetBack
<1>. DEFINE Inv == TypeOK /\ DataPublished /\ TodoOfItem
<1>. DEFINE Kept == /\ secrets[MasterNs] # NoSecret
                    /\ secrets[MasterNs].theirs
                    /\ secrets'[MasterNs] # NoSecret
                    => secrets'[MasterNs].data >= secrets[MasterNs].data
<1>1. Init => Inv
  BY InitTypeOK, InitDataPublished, InitTodoOfItem
<1>2. Inv /\ [Next]_vars => Inv'
  BY NextTypeOK, NextDataPublished, NextTodoOfItem
<1>3. Inv /\ Inv' /\ [Next]_vars => Kept
  <2>. SUFFICES ASSUME Inv, Inv', [Next]_vars,
                       secrets[MasterNs] # NoSecret, secrets[MasterNs].theirs, secrets'[MasterNs] # NoSecret
                PROVE  secrets'[MasterNs].data >= secrets[MasterNs].data
    OBVIOUS
  <2>. USE OthersType
  <2>1. secrets[MasterNs].data \in 1..version /\ version \in Nat
    BY BoundAssumption DEF TypeOK, DataPublished
  <2>2. CASE Publish
    <3>1. version' = version + 1 /\ secrets' = [secrets EXCEPT ![MasterNs] = [data |-> version', ours |-> FALSE, theirs |-> TRUE]]
      BY <2>2 DEF Publish, Store
    <3>2. secrets'[MasterNs].data = version + 1
      BY <3>1 DEF TypeOK
    <3>. QED  BY <2>1, <3>2
  <2>3. CASE DeleteMaster
    BY <2>3 DEF DeleteMaster, Store, TypeOK
  <2>4. CASE secrets'[MasterNs].data = secrets[MasterNs].data
    BY <2>1, <2>4
  <2>. QED  BY <2>2, <2>3, <2>4, MasterKept
<1>. HIDE DEF Kept, Inv
<1>4. Spec => [][Kept]_vars
  BY <1>1, <1>2, <1>3, PTL DEF Spec
<1>. QED  BY <1>4 DEF Kept, MasterNeverSetBack

-----------------------------------------------------------------------------
(* Every stale copy is somebody's debt. *)

\* An informer knows of every namespace or will hear of it.
NamespacesHeard == \A p \in up : nsUp \ {MasterNs} \subseteq seenNs[p] \cup nsWire[p]

LEMMA NextNamespacesHeard == TypeOK /\ NamespacesHeard /\ [Next]_vars => NamespacesHeard'
<1>. SUFFICES ASSUME TypeOK, NamespacesHeard, [Next]_vars PROVE NamespacesHeard'
  OBVIOUS
<1>1. CASE UNCHANGED <<up, nsUp, seenNs, nsWire>>
  BY <1>1 DEF NamespacesHeard
<1>2. ASSUME NEW n \in Others, CreateNamespace(n) PROVE NamespacesHeard'
  BY <1>2 DEF CreateNamespace, NamespacesHeard, TypeOK, cacheVars
<1>3. ASSUME NEW n \in Others, DeleteNamespace(n) PROVE NamespacesHeard'
  BY <1>3 DEF DeleteNamespace, NamespacesHeard, cacheVars
<1>4. ASSUME NEW p \in Procs, Start(p) PROVE NamespacesHeard'
  BY <1>4 DEF Start, NamespacesHeard, TypeOK
<1>5. ASSUME NEW p \in Procs, Stop(p) PROVE NamespacesHeard'
  BY <1>5 DEF Stop, NamespacesHeard, TypeOK
<1>6. ASSUME NEW p \in Procs, NEW n \in Namespaces, SeeNamespace(p, n) PROVE NamespacesHeard'
  <2>1. /\ seenNs'[p] = (seenNs[p] \ {n}) \cup (nsUp \cap {n})
        /\ nsWire'[p] = nsWire[p] \ {n}
        /\ \A q \in Procs \ {p} : seenNs'[q] = seenNs[q] /\ nsWire'[q] = nsWire[q]
        /\ up' = up /\ nsUp' = nsUp
    BY <1>6 DEF SeeNamespace, TypeOK
  <2>. QED  BY <2>1 DEF NamespacesHeard, TypeOK
<1>7. CASE \/ Publish \/ DeleteMaster
           \/ \E n \in Others : UserWrites(n) \/ UserDeletes(n)
           \/ \E c \in ConfigStates : EditConfig(c)
           \/ UNCHANGED vars
  BY <1>1, <1>7 DEF Publish, DeleteMaster, UserWrites, UserDeletes, EditConfig, vars, cacheVars
<1>8. ASSUME NEW p \in Procs, NEW n \in Namespaces, SeeSecret(p, n) \/ PatchSucceeds(p, n) \/ PatchFails(p, n)
      PROVE  UNCHANGED <<up, nsUp, seenNs, nsWire>>
  BY <1>8 DEF SeeSecret, PatchSucceeds, PatchFails, cacheVars, clusterVars
<1>9. ASSUME NEW p \in Procs, ReconcileDone(p) \/ \E i \in Items : Take(p, i)
      PROVE  UNCHANGED <<up, nsUp, seenNs, nsWire>>
  BY <1>9 DEF Take, ReconcileFails, ReconcileDisabled, ReconcileStarts, ReconcileDone, cacheVars, clusterVars
<1>. QED
  BY <1>1, <1>2, <1>3, <1>4, <1>5, <1>6, <1>7, <1>8, <1>9 DEF Next, Environment, See, Continue

\* The items whose reconciliation patches the namespace n.
ItemsOf(n) == {Master, <<"copy", n>>, <<"namespace", n>>}

\* p works on an item of n, and will patch n with the data of the master or try again.
WorksOn(p, n) ==
    /\ work[p] # NoWork
    /\ work[p].item \in ItemsOf(n)
    /\ work[p].failed \/ (work[p].data = secrets[MasterNs].data /\ n \in work[p].todo)

\* What p has to see or to do yet makes it patch n with the data of the master, unless
\* the feature was off when it came to that.
Owed(p, n) ==
    \/ MasterEvent(p)
    \/ "update" \in wire[p][n]
    \/ n \in nsWire[p]
    \/ \E i \in ItemsOf(n) : item[p][i] \in {"ready", "dropped"}
    \/ WorksOn(p, n)

\* The debt of p towards n.
Settled(p, n) == Published => UpToDate(n) \/ n \in removed \/ Owed(p, n)

\* Whatever two processes with caches of different age have written, every process
\* that runs owes a patch to every namespace whose copy is stale.
StaleIsOwed == \A p \in up, n \in nsUp \ {MasterNs} : Settled(p, n)

LEMMA ItemsOfType ==
    ASSUME NEW n \in Others
    PROVE  ItemsOf(n) \subseteq Items
BY ItemsDiffer DEF ItemsOf

\* A debt stays when nothing of it is taken away: the events stay on their way, the
\* items in the queue, the work and the master secret as they are.
LEMMA OwedStays ==
    ASSUME NEW p \in Procs, NEW n \in Others, Owed(p, n),
           wire[p][MasterNs] \subseteq wire'[p][MasterNs],
           wire[p][n] \subseteq wire'[p][n],
           n \in nsWire[p] => n \in nsWire'[p],
           \A i \in ItemsOf(n) : item'[p][i] \in {item[p][i], "ready", "dropped"},
           WorksOn(p, n) => WorksOn(p, n)'
    PROVE  Owed(p, n)'
<1>. USE DEF Owed
<1>1. CASE MasterEvent(p)
  BY <1>1 DEF MasterEvent
<1>2. CASE "update" \in wire[p][n] \/ n \in nsWire[p]
  BY <1>2
<1>3. CASE \E i \in ItemsOf(n) : item[p][i] \in {"ready", "dropped"}
  <2>1. PICK i \in ItemsOf(n) : item[p][i] \in {"ready", "dropped"}
    BY <1>3
  <2>2. item'[p][i] \in {"ready", "dropped"} /\ ItemsOf(n)' = ItemsOf(n)
    BY <2>1 DEF ItemsOf, Master
  <2>. QED  BY <2>1, <2>2
<1>4. CASE WorksOn(p, n)
  BY <1>4
<1>. QED  BY <1>1, <1>2, <1>3, <1>4

\* The work stays when neither it nor the data of the master changes.
LEMMA WorkStays ==
    ASSUME NEW p \in Procs, NEW n \in Others, work'[p] = work[p],
           secrets'[MasterNs].data = secrets[MasterNs].data
    PROVE  WorksOn(p, n) => WorksOn(p, n)'
BY DEF WorksOn, ItemsOf, Master

LEMMA NextStaleIsOwed ==
    TypeOK /\ TypeOK' /\ DataPublished /\ EventsInv /\ SyncInv /\ TodoOfItem /\ NamespacesHeard
      /\ StaleIsOwed /\ [Next]_vars => StaleIsOwed'
<1>. SUFFICES ASSUME TypeOK, TypeOK', DataPublished, EventsInv, SyncInv, TodoOfItem, NamespacesHeard,
                     StaleIsOwed, [Next]_vars,
                     NEW r \in up', NEW n \in nsUp' \ {MasterNs}, Published'
              PROVE  (UpToDate(n) \/ n \in removed \/ Owed(r, n))'
  BY DEF StaleIsOwed, Settled
<1>. USE OthersType
<1>0. r \in Procs /\ n \in Others
  BY DEF TypeOK, Others
<1>a. ItemsOf(n) \subseteq Items
  BY <1>0, ItemsOfType
\* Nothing about n and r changes but for the worse, and the master secret stays.
<1>b. ASSUME r \in up, n \in nsUp, secrets'[MasterNs] = secrets[MasterNs],
             UpToDate(n) => UpToDate(n)', n \in removed => n \in removed' \/ UpToDate(n)',
             Owed(r, n) => Owed(r, n)'
      PROVE  (UpToDate(n) \/ n \in removed \/ Owed(r, n))'
  BY <1>b DEF StaleIsOwed, Settled, Published
<1>c. ASSUME r \in up, n \in nsUp, UNCHANGED <<secrets, wire, removed>>,
             n \in nsWire[r] => n \in nsWire'[r],
             \A i \in ItemsOf(n) : item'[r][i] \in {item[r][i], "ready", "dropped"},
             WorksOn(r, n) => WorksOn(r, n)'
      PROVE  (UpToDate(n) \/ n \in removed \/ Owed(r, n))'
  <2>1. UpToDate(n) => UpToDate(n)'
    BY <1>c DEF UpToDate
  <2>2. Owed(r, n) => Owed(r, n)'
    BY <1>0, <1>c, OwedStays
  <2>. QED  BY <1>b, <1>c, <2>1, <2>2
<1>1. CASE Publish
  <2>. DEFINE s == [data |-> version + 1, ours |-> FALSE, theirs |-> TRUE]
  <2>1. version' = version + 1 /\ version + 1 \in Data /\ version \in Nat /\ up' = up
    BY <1>1, BoundAssumption DEF Publish, TypeOK, Data
  <2>2. s \in Secret /\ s # NoSecret /\ Store(MasterNs, s)
    <3>1. s \in Secret
      BY <2>1 DEF Secret
    <3>2. Store(MasterNs, s)
      BY <1>1, <2>1 DEF Publish
    <3>. QED  BY <3>1, <3>2, AbsenceAssumption
  <2>3. DataOf(secrets[MasterNs]) \in 1..version \cup {NoSecret} /\ DataOf(s) = version + 1
    BY <2>2, DataOfType DEF TypeOK, DataPublished
  <2>4. DataOf(s) # DataOf(secrets[MasterNs])
    BY <2>1, <2>3, AbsenceAssumption
  <2>. HIDE DEF s
  <2>5. EventKind(secrets[MasterNs], s) \cap {"create", "update"} # {}
    BY <2>2, <2>4, EventKindSays DEF TypeOK
  <2>6. MasterEvent(r)'
    BY <2>1, <2>2, <2>5, StoreSays DEF MasterEvent
  <2>. QED  BY <2>6 DEF Owed
<1>2. CASE DeleteMaster
  BY <1>2 DEF DeleteMaster, Store, TypeOK, Published
<1>3. ASSUME NEW m \in Others, NEW s \in Secret \cup {NoSecret}, Store(m, s), m # n,
             UNCHANGED <<up, nsWire, item, work>>, n \in nsUp, n \in removed => n \in removed'
      PROVE  (UpToDate(n) \/ n \in removed \/ Owed(r, n))'
  <2>1. /\ secrets'[MasterNs] = secrets[MasterNs] /\ secrets'[n] = secrets[n]
        /\ wire[r][MasterNs] \subseteq wire'[r][MasterNs] /\ wire[r][n] \subseteq wire'[r][n]
    BY <1>0, <1>3, StoreSays
  <2>2. Owed(r, n) => Owed(r, n)'
    BY <1>0, <1>3, <2>1, OwedStays, WorkStays
  <2>3. UpToDate(n) => UpToDate(n)'
    BY <2>1 DEF UpToDate
  <2>. QED  BY <1>b, <1>3, <2>1, <2>2, <2>3
<1>4. ASSUME NEW m \in Others, UserWrites(m) PROVE (UpToDate(n) \/ n \in removed \/ Owed(r, n))'
  <2>. DEFINE s == [data |-> Foreign, ours |-> FALSE, theirs |-> TRUE]
  <2>1. s \in Secret /\ s # NoSecret /\ Store(m, s)
    <3>1. s \in Secret
      BY DEF Secret, Data
    <3>2. Store(m, s)
      BY <1>4 DEF UserWrites
    <3>. QED  BY <3>1, <3>2, AbsenceAssumption
  <2>2. s.data = Foreign
    OBVIOUS
  <2>3. UNCHANGED <<up, nsWire, item, work, nsUp, removed>> /\ DataOf(secrets[m]) # Foreign
    BY <1>4 DEF UserWrites
  <2>. HIDE DEF s
  <2>4. CASE m # n
    BY <1>3, <2>1, <2>3, <2>4
  <2>5. CASE m = n /\ secrets[n] # NoSecret
    <3>1. "update" \in EventKind(secrets[n], s)
      BY <1>0, <2>1, <2>2, <2>3, <2>5, EventKindSays, DataOfType DEF TypeOK
    <3>2. "update" \in wire'[r][n]
      BY <1>0, <2>1, <2>3, <2>5, <3>1, StoreSays
    <3>. QED  BY <3>2 DEF Owed
  <2>6. CASE m = n /\ secrets[n] = NoSecret
    <3>1. /\ secrets'[MasterNs] = secrets[MasterNs]
          /\ wire[r][MasterNs] \subseteq wire'[r][MasterNs] /\ wire[r][n] \subseteq wire'[r][n]
      BY <1>0, <2>1, <2>6, StoreSays
    <3>2. Owed(r, n) => Owed(r, n)'
      BY <1>0, <2>3, <3>1, OwedStays, WorkStays
    <3>3. ~UpToDate(n)
      BY <2>6 DEF UpToDate
    <3>. QED  BY <1>b, <2>3, <3>1, <3>2, <3>3
  <2>. QED  BY <2>4, <2>5, <2>6
<1>5. ASSUME NEW m \in Others, UserDeletes(m) PROVE (UpToDate(n) \/ n \in removed \/ Owed(r, n))'
  <2>1. CASE m = n
    BY <1>5, <2>1 DEF UserDeletes
  <2>2. CASE m # n
    BY <1>3, <1>5, <2>2 DEF UserDeletes
  <2>. QED  BY <2>1, <2>2
<1>6. ASSUME NEW m \in Others, DeleteNamespace(m) PROVE (UpToDate(n) \/ n \in removed \/ Owed(r, n))'
  BY <1>3, <1>6 DEF DeleteNamespace
<1>7. ASSUME NEW m \in Others, CreateNamespace(m) PROVE (UpToDate(n) \/ n \in removed \/ Owed(r, n))'
  <2>1. /\ UNCHANGED <<secrets, wire, removed, up, item, work>>
        /\ nsUp' = nsUp \cup {m} /\ nsWire'[r] = nsWire[r] \cup {m}
    BY <1>0, <1>7 DEF CreateNamespace
  <2>2. CASE m = n
    BY <2>1, <2>2 DEF Owed
  <2>3. CASE m # n
    BY <1>0, <1>c, <2>1, <2>3, WorkStays
  <2>. QED  BY <2>2, <2>3
<1>8. CASE (\E c \in ConfigStates : EditConfig(c)) \/ UNCHANGED vars
  <2>1. UNCHANGED <<secrets, wire, removed, up, nsUp, nsWire, item, work>>
    BY <1>8 DEF EditConfig, vars
  <2>. QED  BY <1>0, <1>c, <2>1, WorkStays
<1>9. ASSUME NEW p \in Procs, Start(p) PROVE (UpToDate(n) \/ n \in removed \/ Owed(r, n))'
  <2>1. UNCHANGED <<secrets, wire, removed, nsUp, nsWire, work>> /\ up' = up \cup {p}
    BY <1>9 DEF Start
  <2>2. CASE r = p
    <3>1. item'[p][Master] = "ready"
      BY <1>9, <2>1, ItemsDiffer DEF Start, FirstItems, Published, TypeOK
    <3>. QED  BY <2>2, <3>1 DEF Owed, ItemsOf, Master
  <2>3. CASE r # p
    <3>1. item'[r] = item[r]
      BY <1>0, <1>9, <2>3 DEF Start, TypeOK
    <3>. QED  BY <1>0, <1>c, <2>1, <2>3, <3>1, WorkStays
  <2>. QED  BY <2>2, <2>3
<1>10. ASSUME NEW p \in Procs, Stop(p) PROVE (UpToDate(n) \/ n \in removed \/ Owed(r, n))'
  <2>1. UNCHANGED <<secrets, removed, nsUp>> /\ up' = up \ {p}
    BY <1>10 DEF Stop
  <2>2. wire'[r] = wire[r] /\ nsWire'[r] = nsWire[r] /\ item'[r] = item[r] /\ work'[r] = work[r]
    BY <1>0, <1>10, <2>1 DEF Stop, TypeOK
  <2>3. Owed(r, n) => Owed(r, n)'
    BY <1>0, <2>1, <2>2, OwedStays, WorkStays
  <2>4. UpToDate(n) => UpToDate(n)'
    BY <2>1 DEF UpToDate
  <2>. QED  BY <1>b, <2>1, <2>3, <2>4
<1>11. ASSUME NEW p \in Procs, NEW k \in Namespaces, SeeSecret(p, k)
       PROVE  (UpToDate(n) \/ n \in removed \/ Owed(r, n))'
  <2>1. UNCHANGED <<secrets, removed, up, nsUp, nsWire, work>>
    BY <1>11 DEF SeeSecret
  <2>2. UpToDate(n) => UpToDate(n)'
    BY <2>1 DEF UpToDate
  <2>3. \A i \in ItemsOf(n) : item'[r][i] \in {item[r][i], "ready", "dropped"}
    BY <1>0, <1>a, <1>11, SeeSecretSays
  <2>4. CASE r # p \/ (k # MasterNs /\ k # n)
    <3>1. wire'[r][MasterNs] = wire[r][MasterNs] /\ wire'[r][n] = wire[r][n]
      BY <1>0, <1>11, <2>4 DEF SeeSecret, TypeOK
    <3>2. Owed(r, n) => Owed(r, n)'
      BY <1>0, <2>1, <2>3, <3>1, OwedStays, WorkStays
    <3>. QED  BY <1>b, <2>1, <2>2, <3>2
  <2>5. CASE r = p /\ k = MasterNs
    <3>1. CASE MasterEvent(p)
      <4>1. item'[p][Master] = "ready"
        BY <1>11, <2>5, <3>1, SeeSecretSays DEF MasterEvent
      <4>. QED  BY <2>5, <4>1 DEF Owed, ItemsOf, Master
    <3>2. CASE ~MasterEvent(p)
      <4>1. wire'[p][n] = wire[p][n]
        BY <1>0, <1>11, <2>5 DEF SeeSecret, TypeOK
      <4>2. Owed(r, n) => Owed(r, n)'
        <5>1. CASE "update" \in wire[p][n] \/ n \in nsWire[p]
          BY <2>1, <2>5, <4>1, <5>1 DEF Owed
        <5>2. CASE \E i \in ItemsOf(n) : item[p][i] \in {"ready", "dropped"}
          BY <2>3, <2>5, <5>2 DEF Owed, ItemsOf, Master
        <5>3. CASE WorksOn(p, n)
          BY <1>0, <2>1, <2>5, <5>3, WorkStays DEF Owed
        <5>. QED  BY <2>5, <3>2, <5>1, <5>2, <5>3 DEF Owed
      <4>. QED  BY <1>b, <2>1, <2>2, <4>2
    <3>. QED  BY <3>1, <3>2
  <2>6. CASE r = p /\ k = n
    <3>1. CASE "update" \in wire[p][n]
      <4>1. item'[p][<<"copy", n>>] = "ready"
        BY <1>0, <1>11, <2>6, <3>1, SeeSecretSays
      <4>. QED  BY <2>6, <4>1 DEF Owed, ItemsOf, Master
    <3>2. CASE "update" \notin wire[p][n]
      <4>1. wire'[p][MasterNs] = wire[p][MasterNs]
        BY <1>0, <1>11, <2>6 DEF SeeSecret, TypeOK
      <4>2. Owed(r, n) => Owed(r, n)'
        <5>1. CASE MasterEvent(p)
          BY <2>6, <4>1, <5>1 DEF Owed, MasterEvent
        <5>2. CASE n \in nsWire[p]
          BY <2>1, <2>6, <5>2 DEF Owed
        <5>3. CASE \E i \in ItemsOf(n) : item[p][i] \in {"ready", "dropped"}
          BY <2>3, <2>6, <5>3 DEF Owed, ItemsOf, Master
        <5>4. CASE WorksOn(p, n)
          BY <1>0, <2>1, <2>6, <5>4, WorkStays DEF Owed
        <5>. QED  BY <2>6, <3>2, <5>1, <5>2, <5>3, <5>4 DEF Owed
      <4>. QED  BY <1>b, <2>1, <2>2, <4>2
    <3>. QED  BY <3>1, <3>2
  <2>. QED  BY <2>4, <2>5, <2>6
<1>12. ASSUME NEW p \in Procs, NEW k \in Namespaces, SeeNamespace(p, k)
       PROVE  (UpToDate(n) \/ n \in removed \/ Owed(r, n))'
  <2>1. UNCHANGED <<secrets, wire, removed, up, nsUp, work>>
    BY <1>12 DEF SeeNamespace
  <2>2. CASE r = p /\ k = n /\ n \in nsWire[p]
    <3>1. item'[p][<<"namespace", n>>] = "ready"
      BY <1>12, <2>2, SeeNamespaceSays
    <3>. QED  BY <2>2, <3>1 DEF Owed, ItemsOf, Master
  <2>3. CASE ~(r = p /\ k = n /\ n \in nsWire[p])
    <3>1. n \in nsWire[r] => n \in nsWire'[r]
      BY <1>0, <1>12, <2>3 DEF SeeNamespace, TypeOK
    <3>2. \A i \in ItemsOf(n) : item'[r][i] \in {item[r][i], "ready", "dropped"}
      BY <1>0, <1>a, <1>12, SeeNamespaceSays
    <3>. QED  BY <1>0, <1>c, <2>1, <3>1, <3>2, WorkStays
  <2>. QED  BY <2>2, <2>3
<1>13. ASSUME NEW p \in Procs, NEW i \in Items, ReconcileFails(p, i) \/ ReconcileDisabled(p, i)
       PROVE  (UpToDate(n) \/ n \in removed \/ Owed(r, n))'
  <2>1. UNCHANGED <<secrets, wire, removed, up, nsUp, nsWire, work>>
    BY <1>13 DEF ReconcileFails, ReconcileDisabled, clusterVars, cacheVars
  <2>2. \A j \in Items : item'[r][j] \in {item[r][j], "ready", "dropped"}
    BY <1>0, <1>13, NotStartedSays
  <2>. QED  BY <1>0, <1>a, <1>c, <2>1, <2>2, WorkStays
<1>14. ASSUME NEW p \in Procs, NEW i \in Items, ReconcileStarts(p, i)
       PROVE  (UpToDate(n) \/ n \in removed \/ Owed(r, n))'
  <2>1. UNCHANGED <<secrets, wire, removed, up, nsUp, nsWire, seen, seenNs>>
    BY <1>14 DEF ReconcileStarts, clusterVars, cacheVars
  <2>2. CASE r # p
    <3>1. item'[r] = item[r] /\ work'[r] = work[r]
      BY <1>0, <1>14, <2>2, ReconcileStartsSays
    <3>. QED  BY <1>0, <1>c, <2>1, <3>1, WorkStays
  <2>3. CASE r = p /\ i \notin ItemsOf(n)
    <3>1. \A j \in ItemsOf(n) : item'[p][j] = item[p][j]
      BY <1>a, <1>14, <2>3, ReconcileStartsSays
    <3>2. ~WorksOn(p, n)
      BY <1>14, ReconcileStartsSays DEF WorksOn
    <3>. QED  BY <1>c, <2>1, <2>3, <3>1, <3>2
  <2>4. CASE r = p /\ i \in ItemsOf(n)
    <3>1. CASE n \in nsWire[p] \/ MasterEvent(p)
      BY <2>1, <2>4, <3>1 DEF Owed, MasterEvent
    <3>2. CASE n \notin nsWire[p] /\ ~MasterEvent(p)
      <4>1. n \in ToPatch(p, i)
        <5>1. n \in seenNs[p]
          BY <2>1, <2>4, <3>2 DEF NamespacesHeard
        <5>. QED  BY <2>4, <5>1 DEF ToPatch, ItemsOf
      <4>2. seen[p][MasterNs] = secrets[MasterNs].data
        <5>1. seen[p][MasterNs] # NoSecret /\ secrets[MasterNs] # NoSecret
          BY <1>14, <2>1 DEF ReconcileStarts, MasterFound, Published
        <5>2. DataOf(secrets[MasterNs]) = seen[p][MasterNs]
          BY <2>1, <2>4, <3>2, <5>1, DataOfType DEF EventsInv, MasterHeard, TypeOK
        <5>. QED  BY <5>1, <5>2, DataOfType DEF TypeOK
      <4>3. /\ work'[p] \in Work /\ work'[p].item = i /\ work'[p].data = seen[p][MasterNs]
            /\ work'[p].todo = ToPatch(p, i)
        BY <1>14, ReconcileStartsSays
      <4>4. work'[p] # NoWork /\ ItemsOf(n)' = ItemsOf(n)
        BY <4>3, AbsenceAssumption DEF ItemsOf, Master
      <4>5. WorksOn(p, n)'
        BY <2>1, <2>4, <4>1, <4>2, <4>3, <4>4 DEF WorksOn
      <4>. QED  BY <2>4, <4>5 DEF Owed
    <3>. QED  BY <3>1, <3>2
  <2>. QED  BY <2>2, <2>3, <2>4
<1>15. ASSUME NEW p \in Procs, NEW k \in Namespaces, PatchSucceeds(p, k)
       PROVE  (UpToDate(n) \/ n \in removed \/ Owed(r, n))'
  <2>1. UNCHANGED <<up, nsUp, nsWire, item>>
    BY <1>15 DEF PatchSucceeds
  <2>2. /\ work[p] # NoWork /\ work[p] \in Work /\ work'[p] \in Work /\ work'[p].item = work[p].item
        /\ work'[p].data = work[p].data /\ work'[p].todo = work[p].todo \ {k}
        /\ work'[p].failed = work[p].failed
        /\ \A q \in Procs \ {p} : work'[q] = work[q]
    BY <1>15, TriedSays, AbsenceAssumption
  <2>3. /\ Patched(p, k) \in Secret /\ Patched(p, k) # NoSecret
        /\ Patched(p, k).data = work[p].data
        /\ Patched(p, k).theirs => /\ secrets[k] # NoSecret
                                   /\ secrets[k].theirs
                                   /\ secrets[k].data = work[p].data
    BY <2>2, PatchedType, AbsenceAssumption
  <2>4. Store(k, Patched(p, k))
    BY <1>15 DEF PatchSucceeds
  <2>5. /\ secrets'[k] = Patched(p, k)
        /\ \A j \in Namespaces \ {k} : secrets'[j] = secrets[j]
        /\ wire[r][MasterNs] \subseteq wire'[r][MasterNs] /\ wire[r][n] \subseteq wire'[r][n]
        /\ EventKind(secrets[k], Patched(p, k)) \subseteq wire'[r][k]
    BY <1>0, <2>1, <2>3, <2>4, StoreSays
  <2>6. Published /\ secrets'[MasterNs].data = secrets[MasterNs].data
    BY <2>3, <2>5 DEF Published
  <2>7. removed' = IF work[p].data = secrets[MasterNs].data THEN removed \ {k} ELSE removed
    BY <1>15, <2>6 DEF PatchSucceeds, Published, DataOf
  \* The debt stays, unless it was this patch.
  <2>8. ASSUME Owed(r, n), r # p \/ k # n \/ work[p].data # secrets[MasterNs].data PROVE Owed(r, n)'
    <3>1. WorksOn(r, n) => WorksOn(r, n)'
      <4>1. CASE r # p
        BY <1>0, <2>2, <2>6, <4>1, WorkStays
      <4>2. CASE r = p
        <5>1. work'[p] # NoWork /\ ItemsOf(n)' = ItemsOf(n)
          BY <2>2, AbsenceAssumption DEF ItemsOf, Master
        <5>. QED  BY <2>2, <2>6, <2>8, <4>2, <5>1 DEF WorksOn
      <4>. QED  BY <4>1, <4>2
    <3>. QED  BY <1>0, <2>1, <2>5, <2>8, <3>1, OwedStays
  <2>9. UpToDate(n) \/ n \in removed \/ Owed(r, n)
    BY <2>1, <2>6 DEF StaleIsOwed, Settled
  <2>10. CASE k # n
    <3>1. secrets'[n] = secrets[n] /\ (n \in removed => n \in removed')
      BY <1>0, <2>5, <2>7, <2>10
    <3>2. UpToDate(n) => UpToDate(n)'
      BY <2>6, <3>1 DEF UpToDate
    <3>. QED  BY <2>8, <2>9, <2>10, <3>1, <3>2
  <2>11. CASE k = n /\ work[p].data = secrets[MasterNs].data
    BY <2>3, <2>5, <2>6, <2>11 DEF UpToDate
  <2>12. CASE k = n /\ work[p].data # secrets[MasterNs].data
    <3>1. CASE secrets[n] # NoSecret /\ secrets[n].data # work[p].data
      <4>1. "update" \in EventKind(secrets[k], Patched(p, k))
        BY <1>0, <2>3, <2>12, <3>1, EventKindSays DEF TypeOK
      <4>. QED  BY <2>5, <2>12, <4>1 DEF Owed
    <3>2. CASE secrets[n] = NoSecret \/ secrets[n].data = work[p].data
      <4>1. ~UpToDate(n) /\ removed' = removed
        BY <2>7, <2>12, <3>2 DEF UpToDate
      <4>. QED  BY <2>8, <2>9, <2>12, <4>1
    <3>. QED  BY <3>1, <3>2
  <2>. QED  BY <2>10, <2>11, <2>12
<1>16. ASSUME NEW p \in Procs, NEW k \in Namespaces, PatchFails(p, k)
       PROVE  (UpToDate(n) \/ n \in removed \/ Owed(r, n))'
  <2>1. UNCHANGED <<secrets, wire, removed, up, nsUp, nsWire, item>>
    BY <1>16 DEF PatchFails, clusterVars
  <2>2. WorksOn(r, n) => WorksOn(r, n)'
    <3>1. CASE r # p
      BY <1>0, <1>16, <2>1, <3>1, TriedSays, WorkStays
    <3>2. CASE r = p
      <4>1. work'[p] # NoWork /\ work'[p].item = work[p].item /\ work'[p].failed /\ ItemsOf(n)' = ItemsOf(n)
        BY <1>16, TriedSays, AbsenceAssumption DEF ItemsOf, Master
      <4>. QED  BY <3>2, <4>1 DEF WorksOn
    <3>. QED  BY <3>1, <3>2
  <2>. QED  BY <1>c, <2>1, <2>2
<1>17. ASSUME NEW p \in Procs, ReconcileDone(p) PROVE (UpToDate(n) \/ n \in removed \/ Owed(r, n))'
  <2>1. UNCHANGED <<secrets, wire, removed, up, nsUp, nsWire>> /\ work[p] # NoWork /\ work[p].todo = {}
    BY <1>17 DEF ReconcileDone, clusterVars
  <2>2. CASE r # p
    <3>1. item'[r] = item[r] /\ work'[r] = work[r]
      BY <1>0, <1>17, <2>2, ReconcileDoneSays
    <3>. QED  BY <1>0, <1>c, <2>1, <3>1, WorkStays
  <2>3. CASE r = p /\ WorksOn(p, n)
    <3>1. work[p].failed /\ work[p].item \in ItemsOf(n)
      BY <2>1, <2>3 DEF WorksOn
    <3>2. item'[p][work[p].item] = "ready"
      BY <1>17, <3>1, ReconcileDoneSays
    <3>. QED  BY <2>3, <3>1, <3>2 DEF Owed, ItemsOf, Master
  <2>4. CASE r = p /\ ~WorksOn(p, n)
    <3>1. \A i \in ItemsOf(n) : item[p][i] \in {"ready", "dropped"} => item'[p][i] \in {"ready", "dropped"}
      <4>. SUFFICES ASSUME NEW i \in ItemsOf(n), item[p][i] \in {"ready", "dropped"}
                    PROVE  item'[p][i] \in {"ready", "dropped"}
        OBVIOUS
      <4>0. i \in Items
        BY <1>a
      <4>1. CASE work[p].failed
        BY <1>17, <4>0, <4>1, ReconcileDoneSays
      <4>2. CASE ~work[p].failed /\ ~FullSync(p)
        BY <1>17, <4>0, <4>2, ReconcileDoneSays
      <4>3. CASE FullSync(p)
        <5>1. Syncing(p) /\ work[p].item = Master
          BY <2>1, <4>3 DEF Syncing, FullSync
        <5>2. item[p][Master] \in {"none", "ready"}
          BY <5>1 DEF SyncInv, SyncOf
        <5>3. item'[p][Master] = IF item[p][Master] = "ready" THEN "ready" ELSE "delayed"
          BY <1>17, <4>3, ReconcileDoneSays DEF MasterAfter
        <5>4. i # Master => item'[p][i] = item[p][i]
          BY <1>17, <4>0, <5>1, ReconcileDoneSays
        <5>. QED  BY <5>2, <5>3, <5>4
      <4>. QED  BY <4>1, <4>2, <4>3
    <3>2. Owed(r, n) => Owed(r, n)'
      <4>1. CASE MasterEvent(p) \/ "update" \in wire[p][n] \/ n \in nsWire[p]
        BY <2>1, <2>4, <4>1 DEF Owed, MasterEvent
      <4>2. CASE \E i \in ItemsOf(n) : item[p][i] \in {"ready", "dropped"}
        BY <2>4, <3>1, <4>2 DEF Owed, ItemsOf, Master
      <4>. QED  BY <2>4, <4>1, <4>2 DEF Owed
    <3>3. UpToDate(n) => UpToDate(n)'
      BY <2>1 DEF UpToDate
    <3>. QED  BY <1>b, <2>1, <3>2, <3>3
  <2>. QED  BY <2>2, <2>3, <2>4
<1>. QED
  BY <1>1, <1>2, <1>4, <1>5, <1>6, <1>7, <1>8, <1>9, <1>10, <1>11, <1>12, <1>13, <1>14, <1>15, <1>16, <1>17
  DEF Next, Environment, See, Take, Continue

\* When no process has anything left to do, the copies are those of the master,
\* whichever process wrote last (master_secret_predicate.go:45-63): a stale copy
\* would be a debt of every process.
THEOREM QuietMeansCurrent == Spec => []QuietIsCurrent
<1>. DEFINE Inv == /\ TypeOK /\ DataPublished /\ EventsInv /\ SyncInv /\ TodoOfItem
                   /\ NamespacesHeard /\ StaleIsOwed
<1>1. Init => Inv
  <2>1. Init => NamespacesHeard /\ StaleIsOwed
    BY DEF Init, NamespacesHeard, StaleIsOwed
  <2>. QED  BY <2>1, InitTypeOK, InitDataPublished, InitEventsInv, InitSyncInv, InitTodoOfItem
<1>2. Inv /\ [Next]_vars => Inv'
  BY NextTypeOK, NextDataPublished, NextEventsInv, NextSyncInv, NextTodoOfItem, NextNamespacesHeard,
     NextStaleIsOwed
<1>3. Inv => QuietIsCurrent
  <2>. SUFFICES ASSUME Inv, up # {}, \A p \in up : Quiet(p), Published, NEW n \in nsUp \ {MasterNs}
                PROVE  UpToDate(n) \/ n \in removed
    BY DEF QuietIsCurrent
  <2>1. PICK p \in up : Quiet(p)
    OBVIOUS
  <2>2. n \in Others
    BY DEF TypeOK, Others
  <2>3. ~Owed(p, n)
    <3>1. wire[p][MasterNs] = {} /\ wire[p][n] = {} /\ nsWire[p] = {} /\ work[p] = NoWork
      BY <2>1, <2>2, OthersType DEF Quiet, NoEvents
    <3>2. \A i \in ItemsOf(n) : item[p][i] \in {"none", "delayed"}
      BY <2>1, <2>2, ItemsOfType DEF Quiet
    <3>. QED  BY <3>1, <3>2 DEF Owed, MasterEvent, WorksOn
  <2>. QED  BY <2>3 DEF StaleIsOwed, Settled
<1>. HIDE DEF Inv
<1>. QED
  BY <1>1, <1>2, <1>3, PTL DEF Spec

=============================================================================
