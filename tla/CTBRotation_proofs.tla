------------------------ MODULE CTBRotation_proofs ------------------------
(* Theorems about CTBRotation, for every value of its constants. *)
EXTENDS CTBRotation, TLAPS

-----------------------------------------------------------------------------
(* What the definitions the actions are built from return. *)

\* The live content is a content (restarter and watcher never see anything else).
LEMMA LiveType ==
    ASSUME TypeOK
    PROVE  Live \in Bundles \cup {Gone}
BY DEF TypeOK, Live

\* So is what an informer has cached.
LEMMA CachedType ==
    ASSUME TypeOK, NEW p \in Procs
    PROVE  Cached(p) \in Bundles \cup {Gone}
BY DEF TypeOK, Cached

\* Hashes are hashes of contents, never the empty hash.
LEMMA HashType ==
    /\ \A b \in Bundles : SHA256(b) \in Hashes
    /\ NoHash \notin Hashes
BY AbsenceAssumption DEF Hashes

\* The webhook makes a pod of a template.
LEMMA DefaultedType ==
    ASSUME NEW s \in Slots, NEW h \in Hashes \cup {NoHash}
    PROVE  Defaulted(s, h) \in Pod /\ Unmodified(s) \in Pod
<1>1. Workload[s].ctb \in CTBValues
  BY WorkloadAssumption DEF WorkloadType
<1>2. Unmodified(s) \in Pod
  BY <1>1 DEF Unmodified, Pod
<1>3. [Unmodified(s) EXCEPT !.hash = h, !.mounted = TRUE] \in Pod
  BY <1>1 DEF Unmodified, Pod
<1>. QED  BY <1>2, <1>3 DEF Defaulted

\* Vanish changes the passes of the type to passes of the type, and no other
\* field than vanished.
LEMMA VanishType ==
    ASSUME NEW s \in Slots, NEW passes \in [Procs -> Pass \cup {NoPass}]
    PROVE  /\ Vanish(s, passes) \in [Procs -> Pass \cup {NoPass}]
           /\ \A p \in Procs : (Vanish(s, passes)[p] = NoPass) <=> (passes[p] = NoPass)
<1>. DEFINE q(p) == [passes[p] EXCEPT !.vanished = @ \cup {s}]
<1>1. ASSUME NEW p \in Procs, passes[p] # NoPass PROVE q(p) \in Pass
  BY <1>1 DEF Pass
<1>2. Vanish(s, passes) = [p \in Procs |-> IF passes[p] # NoPass /\ s \in passes[p].victims
                                          THEN q(p) ELSE passes[p]]
  BY DEF Vanish
<1>. HIDE DEF q
<1>. QED  BY <1>1, <1>2, AbsenceAssumption

-----------------------------------------------------------------------------
(* Type correctness. *)

LEMMA InitTypeOK == Init => TypeOK
<1>. SUFFICES ASSUME Init PROVE TypeOK
  OBVIOUS
<1>1. bundle \in Seq(Bundles \cup {Gone}) /\ Len(bundle) = 1
  BY DEF Init
<1>. QED
  BY <1>1, BoundAssumption DEF Init, TypeOK

LEMMA NextTypeOK == TypeOK /\ [Next]_vars => TypeOK'
<1>. SUFFICES ASSUME TypeOK, [Next]_vars PROVE TypeOK'
  OBVIOUS
<1>. USE LiveType, CachedType, HashType, DefaultedType, AbsenceAssumption, BoundAssumption
<1>1. ASSUME NEW b \in Bundles \cup {Gone}, RotateBundle(b) PROVE TypeOK'
  BY <1>1 DEF RotateBundle, TypeOK, procVars
<1>2. ASSUME NEW s \in Slots, Evict(s) PROVE TypeOK'
  <2>1. /\ Vanish(s, pass) \in [Procs -> Pass \cup {NoPass}]
        /\ \A p \in Procs : (Vanish(s, pass)[p] = NoPass) <=> (pass[p] = NoPass)
    BY VanishType DEF TypeOK
  <2>. QED
    BY <1>2, <2>1 DEF Evict, Fault, TypeOK
<1>3. ASSUME NEW s \in Slots, NEW v \in CTBValues, Annotate(s, v) PROVE TypeOK'
  <2>. DEFINE q == [pods[s] EXCEPT !.ctb = v]
  <2>1. pods[s] \in Pod
    BY <1>3 DEF Annotate, TypeOK
  <2>2. q \in Pod
    BY <2>1 DEF Pod
  <2>3. pods' = [pods EXCEPT ![s] = q]
    BY <1>3 DEF Annotate
  <2>. HIDE DEF q
  <2>4. pods' \in [Slots -> Pod \cup {NoPod}]
    BY <2>2, <2>3 DEF TypeOK
  <2>. QED
    BY <1>3, <2>4 DEF Annotate, Fault, TypeOK, procVars
<1>4. ASSUME NEW p \in Procs, Crash(p) PROVE TypeOK'
  BY <1>4 DEF Crash, Fault, TypeOK
<1>5. ASSUME NEW p \in Procs, NEW s \in Slots, Admit(p, s) PROVE TypeOK'
  BY <1>5 DEF Admit, TypeOK, procVars
<1>6. ASSUME NEW s \in Slots, AdmitExcluded(s) PROVE TypeOK'
  BY <1>6 DEF AdmitExcluded, TypeOK, procVars
<1>7. ASSUME NEW s \in Slots, AdmitUnreached(s) PROVE TypeOK'
  BY <1>7 DEF AdmitUnreached, Fault, TypeOK, procVars
<1>8. ASSUME NEW s \in Slots, Persist(s) PROVE TypeOK'
  BY <1>8 DEF Persist, TypeOK, procVars
<1>9. ASSUME NEW p \in Procs, Start(p) PROVE TypeOK'
  <2>1. PreComputeHash \in Hashes \cup {NoHash}
    BY DEF PreComputeHash
  <2>2. holder' \in [Procs -> Hashes \cup {NoHash}]
    BY <1>9, <2>1 DEF Start, TypeOK
  <2>3. faults' \in 0..MaxFaults
    BY <1>9 DEF Start, Fault, TypeOK
  <2>4. \A r \in Procs \ up' : holder'[r] = NoHash
    BY <1>9 DEF Start, TypeOK
  <2>. QED
    BY <1>9, <2>2, <2>3, <2>4 DEF Start, TypeOK
<1>10. ASSUME NEW p \in Procs, Watch(p) PROVE TypeOK'
  BY <1>10 DEF Watch, InformerSees, TypeOK
<1>11. ASSUME NEW p \in Procs, ReconcileMissing(p) PROVE TypeOK'
  BY <1>11 DEF ReconcileMissing, TakeItem, NewHash, TypeOK, serverVars
<1>12. ASSUME NEW p \in Procs, ReconcileFound(p) PROVE TypeOK'
  BY <1>12 DEF ReconcileFound, TakeItem, DesiredHash, NewHash, TypeOK, Pass, serverVars
<1>13. ASSUME NEW p \in Procs, NEW n \in Namespaces, NEW listed \in SUBSET Slots,
              NextNamespace(p, n, listed)
       PROVE  TypeOK'
  <2>. DEFINE q == [pass[p] EXCEPT !.todo = pass[p].todo \ {n}, !.victims = listed, !.vanished = {},
                            !.anyDeleted = pass[p].anyDeleted \/ pass[p].nsDeleted,
                            !.nsDeleted = FALSE]
  <2>1. pass[p] \in Pass
    BY <1>13 DEF NextNamespace, TypeOK
  <2>2. q \in Pass
    BY <2>1 DEF Pass
  <2>3. pass' = [pass EXCEPT ![p] = q]
    BY <1>13 DEF NextNamespace
  <2>. HIDE DEF q
  <2>. QED
    BY <1>13, <2>2, <2>3 DEF NextNamespace, TypeOK, serverVars
<1>14. ASSUME NEW p \in Procs, NEW n \in Namespaces, ListPods(p, n) \/ ListForbidden(p, n)
       PROVE  TypeOK'
  <2>1. Stale(n, pass[p].desired) \in SUBSET Slots /\ {} \in SUBSET Slots
    BY DEF Stale
  <2>. QED
    BY <1>13, <1>14, <2>1 DEF ListPods, ListForbidden
<1>15. ASSUME NEW p \in Procs, NEW s \in Slots, DeletePod(p, s) PROVE TypeOK'
  <2>. DEFINE gone == Vanish(s, pass)
              q    == [gone[p] EXCEPT !.victims = pass[p].victims \ {s}, !.nsDeleted = TRUE]
  <2>1. /\ gone \in [Procs -> Pass \cup {NoPass}]
        /\ \A r \in Procs : (gone[r] = NoPass) <=> (pass[r] = NoPass)
    BY VanishType DEF TypeOK
  <2>2. gone[p] \in Pass /\ pass[p] \in Pass
    BY <1>15, <2>1 DEF DeletePod, TypeOK
  <2>3. q \in Pass
    <3>. HIDE DEF gone
    <3>. QED  BY <2>2 DEF Pass
  <2>4. pass' = [gone EXCEPT ![p] = q]
    BY <1>15 DEF DeletePod
  <2>. HIDE DEF gone, q
  <2>5. pass' \in [Procs -> Pass \cup {NoPass}]
    BY <2>1, <2>3, <2>4
  <2>6. \A r \in Procs \ up' : pass'[r] = NoPass
    BY <1>15, <2>1, <2>4 DEF DeletePod, TypeOK
  <2>. QED
    BY <1>15, <2>5, <2>6 DEF DeletePod, TypeOK
<1>16. ASSUME NEW p \in Procs, NEW s \in Slots, DeleteNotFound(p, s) PROVE TypeOK'
  <2>. DEFINE q == [pass[p] EXCEPT !.victims = pass[p].victims \ {s}, !.nsDeleted = TRUE]
  <2>1. pass[p] \in Pass
    BY <1>16 DEF DeleteNotFound, TypeOK
  <2>2. q \in Pass
    BY <2>1 DEF Pass
  <2>3. pass' = [pass EXCEPT ![p] = q]
    BY <1>16 DEF DeleteNotFound
  <2>. HIDE DEF q
  <2>. QED
    BY <1>16, <2>2, <2>3 DEF DeleteNotFound, TypeOK, serverVars
<1>17. ASSUME NEW p \in Procs, NEW s \in Slots, DeleteForbidden(p, s) PROVE TypeOK'
  <2>. DEFINE q == [pass[p] EXCEPT !.victims = {}, !.nsDeleted = FALSE]
  <2>1. pass[p] \in Pass
    BY <1>17 DEF DeleteForbidden, TypeOK
  <2>2. q \in Pass
    BY <2>1 DEF Pass
  <2>3. pass' = [pass EXCEPT ![p] = q]
    BY <1>17 DEF DeleteForbidden
  <2>. HIDE DEF q
  <2>. QED
    BY <1>17, <2>2, <2>3 DEF DeleteForbidden, TypeOK, serverVars
<1>18. ASSUME NEW p \in Procs, PassFails(p) PROVE TypeOK'
  BY <1>18 DEF PassFails, Fault, ItemAfterError, TypeOK
<1>21. ASSUME NEW p \in Procs, NEW s \in Slots, DeleteFails(p, s) PROVE TypeOK'
  BY <1>21 DEF DeleteFails, ItemAfterError, TypeOK, serverVars
<1>19. ASSUME NEW p \in Procs, PassDone(p) PROVE TypeOK'
  BY <1>19 DEF PassDone, ItemAfter, ItemDelayed, TypeOK, serverVars
<1>20. CASE UNCHANGED vars
  BY <1>20 DEF vars, TypeOK
<1>. QED
  BY <1>1, <1>2, <1>3, <1>4, <1>5, <1>6, <1>7, <1>8, <1>9, <1>10, <1>11, <1>12,
     <1>14, <1>15, <1>16, <1>17, <1>18, <1>19, <1>20, <1>21
     DEF Next, Environment, Create, Reconcile, RestartStep

\* Every variable always has its type, and a process that is down has no state.
THEOREM TypeCorrect == Spec => []TypeOK
<1>. QED  BY InitTypeOK, NextTypeOK, PTL DEF Spec

-----------------------------------------------------------------------------
(* The watcher: what it has cached, what it holds and what is left to do. *)

\* A pass that goes on keeps its desired hash, and nothing else of the process
\* changes.
PassGoesOn ==
    /\ UNCHANGED <<bundle, up, holder, seen, item>>
    /\ \A p \in Procs : (pass'[p] = NoPass) <=> (pass[p] = NoPass)
    /\ \A p \in Procs : pass[p] # NoPass => pass'[p].desired = pass[p].desired

LEMMA VanishKeepsDesired ==
    ASSUME TypeOK, NEW s \in Slots, NEW p \in Procs, pass[p] # NoPass
    PROVE  /\ Vanish(s, pass)[p].desired = pass[p].desired
           /\ Vanish(s, pass)[p].victims = pass[p].victims
           /\ pass[p].vanished \subseteq Vanish(s, pass)[p].vanished
           /\ s \in pass[p].victims => s \in Vanish(s, pass)[p].vanished
<1>1. pass[p] \in Pass
  BY DEF TypeOK
<1>2. [pass[p] EXCEPT !.vanished = @ \cup {s}].desired = pass[p].desired
  BY <1>1 DEF Pass
<1>3. [pass[p] EXCEPT !.vanished = @ \cup {s}].victims = pass[p].victims
  BY <1>1 DEF Pass
<1>4. [pass[p] EXCEPT !.vanished = @ \cup {s}].vanished = pass[p].vanished \cup {s}
  BY <1>1 DEF Pass
<1>. QED  BY <1>2, <1>3, <1>4 DEF Vanish

LEMMA PassStepsGoOn ==
    ASSUME TypeOK
    PROVE  /\ \A s \in Slots : Evict(s) => PassGoesOn
           /\ \A p \in Procs, n \in Namespaces, listed \in SUBSET Slots :
                NextNamespace(p, n, listed) => PassGoesOn
           /\ \A p \in Procs, s \in Slots :
                DeletePod(p, s) \/ DeleteNotFound(p, s) \/ DeleteForbidden(p, s)
                => PassGoesOn
<1>. USE AbsenceAssumption
<1>1. ASSUME NEW s \in Slots
      PROVE  /\ Vanish(s, pass) \in [Procs -> Pass \cup {NoPass}]
             /\ \A r \in Procs : (Vanish(s, pass)[r] = NoPass) <=> (pass[r] = NoPass)
  BY VanishType DEF TypeOK
<1>2. ASSUME NEW s \in Slots, Evict(s) PROVE PassGoesOn
  BY <1>1, <1>2, VanishKeepsDesired DEF Evict, PassGoesOn
<1>3. ASSUME NEW p \in Procs, NEW n \in Namespaces, NEW listed \in SUBSET Slots,
             NextNamespace(p, n, listed)
      PROVE  PassGoesOn
  <2>. DEFINE q == [pass[p] EXCEPT !.todo = pass[p].todo \ {n}, !.victims = listed, !.vanished = {},
                            !.anyDeleted = pass[p].anyDeleted \/ pass[p].nsDeleted,
                            !.nsDeleted = FALSE]
  <2>1. pass[p] \in Pass
    BY <1>3 DEF NextNamespace, TypeOK
  <2>2. q \in Pass /\ q.desired = pass[p].desired
    BY <2>1 DEF Pass
  <2>3. pass' = [pass EXCEPT ![p] = q]
    BY <1>3 DEF NextNamespace
  <2>. HIDE DEF q
  <2>. QED
    BY <1>3, <2>1, <2>2, <2>3 DEF NextNamespace, TypeOK, PassGoesOn, serverVars
<1>4. ASSUME NEW p \in Procs, NEW s \in Slots, DeletePod(p, s) PROVE PassGoesOn
  <2>. DEFINE gone == Vanish(s, pass)
              q    == [gone[p] EXCEPT !.victims = pass[p].victims \ {s}, !.nsDeleted = TRUE]
  <2>1. gone[p] \in Pass /\ pass[p] \in Pass
    BY <1>1, <1>4 DEF DeletePod, TypeOK
  <2>2. \A r \in Procs : pass[r] # NoPass => gone[r].desired = pass[r].desired
    BY VanishKeepsDesired
  <2>3. q \in Pass /\ q.desired = gone[p].desired
    <3>. HIDE DEF gone
    <3>. QED  BY <2>1 DEF Pass
  <2>4. pass' = [gone EXCEPT ![p] = q]
    BY <1>4 DEF DeletePod
  <2>. HIDE DEF gone, q
  <2>. QED
    BY <1>1, <1>4, <2>1, <2>2, <2>3, <2>4 DEF DeletePod, PassGoesOn, gone
<1>5. ASSUME NEW p \in Procs, NEW s \in Slots, DeleteNotFound(p, s) PROVE PassGoesOn
  <2>. DEFINE q == [pass[p] EXCEPT !.victims = pass[p].victims \ {s}, !.nsDeleted = TRUE]
  <2>1. pass[p] \in Pass
    BY <1>5 DEF DeleteNotFound, TypeOK
  <2>2. q \in Pass /\ q.desired = pass[p].desired
    BY <2>1 DEF Pass
  <2>3. pass' = [pass EXCEPT ![p] = q]
    BY <1>5 DEF DeleteNotFound
  <2>. HIDE DEF q
  <2>. QED
    BY <1>5, <2>1, <2>2, <2>3 DEF DeleteNotFound, TypeOK, PassGoesOn, serverVars
<1>6. ASSUME NEW p \in Procs, NEW s \in Slots, DeleteForbidden(p, s) PROVE PassGoesOn
  <2>. DEFINE q == [pass[p] EXCEPT !.victims = {}, !.nsDeleted = FALSE]
  <2>1. pass[p] \in Pass
    BY <1>6 DEF DeleteForbidden, TypeOK
  <2>2. q \in Pass /\ q.desired = pass[p].desired
    BY <2>1 DEF Pass
  <2>3. pass' = [pass EXCEPT ![p] = q]
    BY <1>6 DEF DeleteForbidden
  <2>. HIDE DEF q
  <2>. QED
    BY <1>6, <2>1, <2>2, <2>3 DEF DeleteForbidden, TypeOK, PassGoesOn, serverVars
<1>. QED  BY <1>2, <1>3, <1>4, <1>5, <1>6

\* The inductive invariant: the three properties of the watcher need each other
\* and the blank state of a process that is down.
WatcherInv == TypeOK /\ PassMatchesHolder /\ NeverUnattended /\ HolderTracksCache

LEMMA InitWatcherInv == Init => WatcherInv
BY InitTypeOK DEF Init, WatcherInv, PassMatchesHolder, NeverUnattended,
   HolderTracksCache, Cached

LEMMA NextWatcherInv == WatcherInv /\ [Next]_vars => WatcherInv'
<1>. SUFFICES ASSUME WatcherInv, [Next]_vars PROVE WatcherInv'
  OBVIOUS
<1>. USE AbsenceAssumption
<1>t. TypeOK /\ TypeOK'
  BY NextTypeOK DEF WatcherInv
<1>. DEFINE Rest == PassMatchesHolder /\ NeverUnattended /\ HolderTracksCache
<1>r. Rest
  BY DEF WatcherInv
<1>1. ASSUME NEW b \in Bundles \cup {Gone}, RotateBundle(b) PROVE Rest'
  <2>1. \A p \in Procs : Cached(p)' = Cached(p)
    BY <1>1, <1>t DEF RotateBundle, TypeOK, Cached, procVars
  <2>. QED
    BY <1>1, <1>r, <2>1 DEF RotateBundle, procVars, PassMatchesHolder,
       NeverUnattended, HolderTracksCache
<1>2. ASSUME PassGoesOn PROVE Rest'
  <2>1. \A p \in Procs : Cached(p)' = Cached(p)
    BY <1>2 DEF PassGoesOn, Cached
  <2>. QED
    BY <1>2, <1>r, <2>1 DEF PassGoesOn, PassMatchesHolder, NeverUnattended,
       HolderTracksCache
<1>3. ASSUME UNCHANGED <<bundle, procVars>> PROVE Rest'
  BY <1>3, <1>r DEF procVars, PassMatchesHolder, NeverUnattended, HolderTracksCache, Cached
<1>4. ASSUME NEW p \in Procs, Crash(p) PROVE Rest'
  BY <1>4, <1>t, <1>r DEF Crash, TypeOK, PassMatchesHolder, NeverUnattended,
     HolderTracksCache, Cached
<1>5. ASSUME NEW p \in Procs, Start(p) PROVE Rest'
  <2>1. \A r \in Procs : /\ Cached(r)' = Cached(r)
                         /\ r # p => holder'[r] = holder[r]
    BY <1>5, <1>t DEF Start, TypeOK, Cached
  <2>2. Cached(p) = Gone /\ pass[p] = NoPass
    BY <1>5, <1>t DEF Start, TypeOK, Cached
  <2>. QED
    BY <1>5, <1>r, <2>1, <2>2 DEF Start, PassMatchesHolder, NeverUnattended,
       HolderTracksCache
<1>6. ASSUME NEW p \in Procs, Watch(p) PROVE Rest'
  <2>1. PICK v \in 1..MaxVersions : InformerSees(p, v)
    BY <1>6 DEF Watch
  <2>2. \A r \in Procs \ {p} : Cached(r)' = Cached(r) /\ item'[r] = item[r]
    BY <2>1, <1>t DEF InformerSees, TypeOK, Cached
  <2>3. Cached(p)' # Gone => item'[p] = "ready"
    BY <2>1, <1>t DEF InformerSees, TypeOK, Cached
  <2>. QED
    BY <2>1, <1>r, <2>2, <2>3 DEF InformerSees, PassMatchesHolder, NeverUnattended,
       HolderTracksCache
<1>7. ASSUME NEW p \in Procs, ReconcileMissing(p) PROVE Rest'
  <2>1. \A r \in Procs : Cached(r)' = Cached(r) /\ holder'[r] = holder[r]
    BY <1>7, <1>t DEF ReconcileMissing, NewHash, serverVars, TypeOK, Cached
  <2>. QED
    BY <1>7, <1>t, <1>r, <2>1 DEF ReconcileMissing, TakeItem, TypeOK, PassMatchesHolder,
       NeverUnattended, HolderTracksCache
<1>8. ASSUME NEW p \in Procs, ReconcileFound(p) PROVE Rest'
  <2>. DEFINE q == [desired |-> DesiredHash(p), todo |-> Namespaces,
                    victims |-> {}, vanished |-> {},
                    nsDeleted |-> FALSE, anyDeleted |-> FALSE]
  <2>1. \A r \in Procs : Cached(r)' = Cached(r)
    BY <1>8 DEF ReconcileFound, serverVars, Cached
  <2>2. pass' = [pass EXCEPT ![p] = q] /\ q.desired = SHA256(Cached(p))
    BY <1>8 DEF ReconcileFound, DesiredHash, NewHash
  <2>3. q # NoPass
    <3>1. SHA256(Cached(p)) \in Hashes
      BY <1>8, <1>t, CachedType, HashType DEF ReconcileFound
    <3>2. q \in Pass
      BY <3>1, <1>8 DEF Pass, ReconcileFound, DesiredHash, NewHash
    <3>. QED  BY <3>2
  <2>4. holder' = [holder EXCEPT ![p] = SHA256(Cached(p))]
    BY <1>8 DEF ReconcileFound, NewHash
  <2>5. item' = [item EXCEPT ![p] = "none"]
    BY <1>8 DEF ReconcileFound, TakeItem
  <2>. HIDE DEF q
  <2>. QED
    BY <1>t, <1>r, <2>1, <2>2, <2>3, <2>4, <2>5 DEF TypeOK, PassMatchesHolder,
       NeverUnattended, HolderTracksCache
<1>9. ASSUME NEW p \in Procs, PassFails(p) \/ \E s \in Slots : DeleteFails(p, s) PROVE Rest'
  <2>1. /\ pass' = [pass EXCEPT ![p] = NoPass]
        /\ item' = [item EXCEPT ![p] = "ready"]
        /\ UNCHANGED <<bundle, up, holder, seen>>
    BY <1>9 DEF PassFails, DeleteFails, ItemAfterError, serverVars
  <2>. QED
    BY <2>1, <1>t, <1>r DEF TypeOK, PassMatchesHolder, NeverUnattended, HolderTracksCache, Cached
<1>10. ASSUME NEW p \in Procs, PassDone(p) PROVE Rest'
  BY <1>10, <1>t, <1>r DEF PassDone, ItemAfter, ItemDelayed, serverVars, TypeOK,
     PassMatchesHolder, NeverUnattended, HolderTracksCache, Cached
<1>11. ASSUME NEW p \in Procs, RestartStep(p) PROVE Rest'
  <2>1. \A n \in Namespaces : Stale(n, pass[p].desired) \in SUBSET Slots /\ {} \in SUBSET Slots
    BY DEF Stale
  <2>2. ASSUME NEW n \in Namespaces, ListPods(p, n) \/ ListForbidden(p, n) PROVE PassGoesOn
    <3>1. PICK listed \in SUBSET Slots : NextNamespace(p, n, listed)
      BY <2>1, <2>2 DEF ListPods, ListForbidden
    <3>. QED  BY <1>t, <3>1, PassStepsGoOn
  <2>. QED
    BY <1>11, <1>t, <1>2, <1>9, <1>10, <2>2, PassStepsGoOn DEF RestartStep
<1>12. ASSUME UNCHANGED vars PROVE Rest'
  BY <1>12, <1>3 DEF vars, procVars
<1>13. ASSUME NEW s \in Slots, Evict(s) PROVE Rest'
  BY <1>13, <1>t, <1>2, PassStepsGoOn
<1>14. ASSUME NEW s \in Slots,
              \/ \E v \in CTBValues : Annotate(s, v)
              \/ Create(s) \/ Persist(s)
       PROVE  Rest'
  BY <1>14, <1>3 DEF Annotate, Create, Admit, AdmitExcluded, AdmitUnreached, Persist
<1>15. Rest'
  BY <1>1, <1>4, <1>5, <1>6, <1>7, <1>8, <1>9, <1>11, <1>12, <1>13, <1>14
     DEF Next, Environment, Reconcile
<1>. QED  BY <1>15, <1>t DEF Rest, WatcherInv

\* A restart pass always compares the pods with the hash the webhook of its
\* process stamps (watcher.go:41-48).
THEOREM PassMatchesHolderAlways == Spec => []PassMatchesHolder
<1>. QED  BY InitWatcherInv, NextWatcherInv, PTL DEF Spec, WatcherInv

\* The chain of requeues never ends while the bundle is cached (watcher.go:35-56).
THEOREM NeverUnattendedAlways == Spec => []NeverUnattended
<1>. QED  BY InitWatcherInv, NextWatcherInv, PTL DEF Spec, WatcherInv

\* The holder lags behind the cache only while the work item is ready.
THEOREM HolderTracksCacheAlways == Spec => []HolderTracksCache
<1>. QED  BY InitWatcherInv, NextWatcherInv, PTL DEF Spec, WatcherInv

\* A process that has a hash keeps one until it stops (watcher.go:35-38).
THEOREM HolderNeverEmptiedAlways == Spec => HolderNeverEmptied
<1>. DEFINE Kept == \A p \in Procs : holder[p] # NoHash /\ p \in up' => holder'[p] # NoHash
<1>1. TypeOK /\ [Next]_vars => [Kept]_vars
  <2>. SUFFICES ASSUME TypeOK, Next, NEW p \in Procs, holder[p] # NoHash, p \in up'
                PROVE  holder'[p] # NoHash
    OBVIOUS
  <2>. USE HashType
  <2>1. ASSUME NEW q \in Procs, Crash(q) PROVE holder'[p] # NoHash
    BY <2>1 DEF Crash, TypeOK
  <2>2. ASSUME NEW q \in Procs, Start(q) PROVE holder'[p] # NoHash
    BY <2>2 DEF Start, TypeOK
  <2>3. ASSUME NEW q \in Procs, ReconcileMissing(q) \/ ReconcileFound(q)
        PROVE  holder'[p] # NoHash
    <3>1. NewHash(q) = holder[q] \/ NewHash(q) \in Hashes
      BY CachedType DEF NewHash
    <3>2. holder' = [holder EXCEPT ![q] = NewHash(q)]
      BY <2>3 DEF ReconcileMissing, ReconcileFound
    <3>. QED  BY <3>1, <3>2 DEF TypeOK
  <2>4. CASE UNCHANGED holder
    BY <2>4
  <2>. QED
    BY <2>1, <2>2, <2>3, <2>4, ZenonT(40)
       DEF Next, Environment, RotateBundle, Evict, Annotate, Create, Admit, AdmitExcluded,
           AdmitUnreached, Persist, Watch, InformerSees, Reconcile, RestartStep, ListPods,
           ListForbidden, NextNamespace, DeletePod, DeleteNotFound, DeleteForbidden,
           DeleteFails, PassDone, PassFails, procVars, serverVars
<1>. QED  BY <1>1, TypeCorrect, PTL DEF Spec, HolderNeverEmptied

-----------------------------------------------------------------------------
(* Where the hashes come from. *)

\* A content that a cache or the live object has is among those published, and
\* publishing another one takes none away.
LEMMA PublishedContents ==
    ASSUME TypeOK
    PROVE  /\ Live # Gone => SHA256(Live) \in Published
           /\ \A p \in Procs : Cached(p) # Gone => SHA256(Cached(p)) \in Published
<1>1. \A i \in 1..Len(bundle) : bundle[i] # Gone => SHA256(bundle[i]) \in Published
  BY DEF Published
<1>2. Len(bundle) \in 1..Len(bundle)
  BY DEF TypeOK
<1>3. \A p \in Procs : seen[p] # 0 => seen[p] \in 1..Len(bundle)
  BY DEF TypeOK
<1>. QED  BY <1>1, <1>2, <1>3 DEF Live, Cached

LEMMA PublishedGrows ==
    ASSUME TypeOK, NEW b \in Bundles \cup {Gone}, RotateBundle(b)
    PROVE  Published \subseteq Published'
<1>1. Len(bundle') = Len(bundle) + 1
  BY DEF TypeOK, RotateBundle
<1>2. \A i \in 1..Len(bundle) : bundle'[i] = bundle[i]
  BY DEF TypeOK, RotateBundle
<1>3. ASSUME NEW i \in 1..Len(bundle), bundle[i] # Gone
      PROVE  i \in 1..Len(bundle') /\ bundle'[i] # Gone /\ SHA256(bundle'[i]) = SHA256(bundle[i])
  BY <1>1, <1>2, <1>3 DEF TypeOK
<1>. QED  BY <1>3 DEF Published

\* The hash of the pod the webhook makes is the holder's or none.
LEMMA DefaultedHash ==
    ASSUME NEW s \in Slots, NEW h
    PROVE  Defaulted(s, h).hash \in {h, NoHash} /\ Unmodified(s).hash = NoHash
BY DEF Defaulted, Unmodified

PodHashes == /\ \A s \in Slots : pods[s] # NoPod => pods[s].hash \in Published \cup {NoHash}
             /\ \A s \in Slots : creating[s] # NoPod => creating[s].hash \in Published \cup {NoHash}

HolderHashes == \A p \in Procs : holder[p] \in Published \cup {NoHash}
PassHashes   == \A p \in Procs : pass[p] # NoPass => pass[p].desired \in Published

LEMMA NextHolderHashes == TypeOK /\ HolderHashes /\ [Next]_vars => HolderHashes'
<1>. SUFFICES ASSUME TypeOK, HolderHashes, [Next]_vars PROVE HolderHashes'
  OBVIOUS
<1>1. ASSUME NEW b \in Bundles \cup {Gone}, RotateBundle(b) PROVE HolderHashes'
  BY <1>1, PublishedGrows DEF RotateBundle, procVars, HolderHashes
<1>2. ASSUME UNCHANGED <<bundle, holder>> PROVE HolderHashes'
  BY <1>2 DEF HolderHashes, Published
<1>3. ASSUME NEW p \in Procs, Crash(p) PROVE HolderHashes'
  BY <1>3 DEF Crash, HolderHashes, Published, TypeOK
<1>4. ASSUME NEW p \in Procs, Start(p) PROVE HolderHashes'
  <2>1. Published' = Published
    BY <1>4 DEF Start, Published
  <2>2. PreComputeHash \in Published \cup {NoHash}
    BY PublishedContents DEF PreComputeHash
  <2>. QED  BY <1>4, <2>1, <2>2 DEF Start, HolderHashes, TypeOK
<1>5. ASSUME NEW p \in Procs, ReconcileMissing(p) \/ ReconcileFound(p) PROVE HolderHashes'
  <2>1. Published' = Published
    BY <1>5 DEF ReconcileMissing, ReconcileFound, serverVars, Published
  <2>2. NewHash(p) \in Published \cup {NoHash}
    BY PublishedContents DEF NewHash, HolderHashes
  <2>3. holder' = [holder EXCEPT ![p] = NewHash(p)]
    BY <1>5 DEF ReconcileMissing, ReconcileFound
  <2>. QED  BY <2>1, <2>2, <2>3 DEF HolderHashes, TypeOK
<1>. QED
  BY <1>1, <1>2, <1>3, <1>4, <1>5, ZenonT(40)
     DEF Next, Environment, Evict, Annotate, Create, Admit, AdmitExcluded, AdmitUnreached,
         Persist, Watch, InformerSees, Reconcile, RestartStep, ListPods, ListForbidden,
         NextNamespace, DeletePod, DeleteNotFound, DeleteForbidden, DeleteFails, PassDone, PassFails,
         procVars, serverVars, vars

LEMMA NextPodHashes ==
    TypeOK /\ HolderHashes /\ PodHashes /\ [Next]_vars => PodHashes'
<1>. SUFFICES ASSUME TypeOK, HolderHashes, PodHashes, [Next]_vars PROVE PodHashes'
  OBVIOUS
<1>. USE AbsenceAssumption
<1>1. ASSUME NEW b \in Bundles \cup {Gone}, RotateBundle(b) PROVE PodHashes'
  BY <1>1, PublishedGrows DEF RotateBundle, PodHashes
<1>2. ASSUME UNCHANGED <<bundle, pods, creating>> PROVE PodHashes'
  BY <1>2 DEF PodHashes, Published
<1>3. ASSUME NEW s \in Slots, Evict(s) \/ \E p \in Procs : DeletePod(p, s) PROVE PodHashes'
  <2>1. pods' = [pods EXCEPT ![s] = NoPod] /\ UNCHANGED <<bundle, creating>>
    BY <1>3 DEF Evict, DeletePod
  <2>2. Published' = Published
    BY <2>1 DEF Published
  <2>. QED  BY <2>1, <2>2 DEF PodHashes, TypeOK
<1>4. ASSUME NEW s \in Slots, NEW v \in CTBValues, Annotate(s, v) PROVE PodHashes'
  <2>. DEFINE q == [pods[s] EXCEPT !.ctb = v]
  <2>1. pods[s] \in Pod
    BY <1>4 DEF Annotate, TypeOK
  <2>2. q.hash = pods[s].hash
    BY <2>1 DEF Pod
  <2>3. pods' = [pods EXCEPT ![s] = q]
    BY <1>4 DEF Annotate
  <2>. HIDE DEF q
  <2>. QED  BY <1>4, <2>1, <2>2, <2>3 DEF Annotate, PodHashes, Published, TypeOK
<1>5. ASSUME NEW s \in Slots, Create(s) PROVE PodHashes'
  <2>1. PICK q : /\ creating' = [creating EXCEPT ![s] = q]
                 /\ q.hash \in Published \cup {NoHash}
    BY <1>5, DefaultedHash DEF Create, Admit, AdmitExcluded, AdmitUnreached, HolderHashes
  <2>2. UNCHANGED <<bundle, pods>>
    BY <1>5 DEF Create, Admit, AdmitExcluded, AdmitUnreached
  <2>. QED  BY <2>1, <2>2 DEF PodHashes, Published, TypeOK
<1>6. ASSUME NEW s \in Slots, Persist(s) PROVE PodHashes'
  <2>1. Published' = Published
    BY <1>6 DEF Persist, Published
  <2>. QED  BY <1>6, <2>1 DEF Persist, PodHashes, TypeOK
<1>. QED
  BY <1>1, <1>2, <1>3, <1>4, <1>5, <1>6, ZenonT(40)
     DEF Next, Environment, Crash, Start, Watch, InformerSees, Reconcile, ReconcileMissing,
         ReconcileFound, RestartStep, ListPods, ListForbidden, NextNamespace,
         DeleteNotFound, DeleteForbidden, DeleteFails, PassDone, PassFails, serverVars, vars

\* The hash of a pass is the holder's, and never empty.
LEMMA PassHashesFromHolder == WatcherInv /\ HolderHashes => PassHashes
<1>. SUFFICES ASSUME WatcherInv, HolderHashes, NEW p \in Procs, pass[p] # NoPass
              PROVE  pass[p].desired \in Published
  BY DEF PassHashes
<1>1. pass[p].desired \in Hashes
  BY DEF WatcherInv, TypeOK, Pass
<1>. QED
  BY <1>1, HashType DEF WatcherInv, PassMatchesHolder, HolderHashes

\* No hash in memory or on a pod is made up: each is the hash of a content the
\* bundle has had (hash_holder.go:33-36, pod_defaulters.go:209-215).
THEOREM HashesPublishedAlways == Spec => []HashesPublished
<1>1. Init => HolderHashes /\ PodHashes
  BY AbsenceAssumption DEF Init, HolderHashes, PodHashes, Unmodified
<1>2. WatcherInv /\ HolderHashes /\ PodHashes => HashesPublished
  BY PassHashesFromHolder DEF HashesPublished, HolderHashes, PodHashes, PassHashes
<1>. QED
  BY <1>1, <1>2, InitWatcherInv, NextWatcherInv, NextHolderHashes, NextPodHashes, PTL
     DEF Spec, WatcherInv

-----------------------------------------------------------------------------
(* What a pass deletes. *)

\* A pod is not stored while another one of its slot is on its way.
OneIncarnation == \A s \in Slots : creating[s] # NoPod => pods[s] = NoPod

VictimInv == TypeOK /\ OneIncarnation /\ VictimsStale

\* The listed pods that are still there, in the pass of q.
Remaining(q) == pass[q].victims \ pass[q].vanished

\* It is enough that a pass loses victims and that the rest keep their hash.
LEMMA VictimsShrink ==
    ASSUME TypeOK, TypeOK', VictimsStale,
           \A q \in Procs : pass'[q] # NoPass /\ pass'[q] # pass[q] =>
               /\ pass[q] # NoPass
               /\ pass'[q].desired = pass[q].desired
               /\ Remaining(q)' \subseteq Remaining(q),
           \A q \in Procs, t \in Slots :
               pass'[q] # NoPass /\ t \in Remaining(q)' /\ pods[t] # NoPod =>
                   pods'[t] # NoPod /\ pods'[t].hash = pods[t].hash
    PROVE  VictimsStale'
<1>. SUFFICES ASSUME NEW q \in Procs, pass'[q] # NoPass, NEW t \in Remaining(q)'
              PROVE  pods'[t] # NoPod /\ pods'[t].hash # pass'[q].desired /\ Workload[t].owned
  BY DEF VictimsStale, Remaining
<1>1. /\ pass[q] # NoPass
      /\ pass'[q].desired = pass[q].desired
      /\ t \in Remaining(q)
  BY DEF Remaining
<1>2. t \in Slots
  BY DEF Remaining, TypeOK, Pass
<1>3. pods[t] # NoPod /\ pods[t].hash # pass[q].desired /\ Workload[t].owned
  BY <1>1, <1>2 DEF VictimsStale, Remaining
<1>. QED  BY <1>1, <1>2, <1>3

LEMMA NextVictimInv == VictimInv /\ [Next]_vars => VictimInv'
<1>. SUFFICES ASSUME VictimInv, [Next]_vars PROVE VictimInv'
  OBVIOUS
<1>. USE AbsenceAssumption
<1>t. TypeOK /\ TypeOK' /\ VictimsStale /\ OneIncarnation
  BY NextTypeOK DEF VictimInv
<1>v. \A s \in Slots, q \in Procs : pass[q] # NoPass =>
        /\ Vanish(s, pass)[q].desired = pass[q].desired
        /\ Vanish(s, pass)[q].victims = pass[q].victims
        /\ pass[q].vanished \subseteq Vanish(s, pass)[q].vanished
        /\ s \in pass[q].victims => s \in Vanish(s, pass)[q].vanished
  BY <1>t, VanishKeepsDesired
<1>n. \A s \in Slots, q \in Procs : pass[q] = NoPass => Vanish(s, pass)[q] = NoPass
  BY <1>t, VanishType DEF TypeOK
<1>1. ASSUME UNCHANGED <<pods, creating>>,
             \A q \in Procs : pass'[q] \in {pass[q], NoPass}
      PROVE  VictimInv'
  BY <1>1, <1>t, VictimsShrink DEF VictimInv, OneIncarnation, Remaining
<1>2. ASSUME NEW s \in Slots, Evict(s) PROVE VictimInv'
  <2>1. \A q \in Procs : pass'[q] # NoPass =>
          /\ pass[q] # NoPass
          /\ pass'[q].desired = pass[q].desired
          /\ Remaining(q)' \subseteq Remaining(q) \ {s}
    BY <1>2, <1>v, <1>n DEF Evict, Remaining
  <2>2. \A t \in Slots \ {s} : pods'[t] = pods[t]
    BY <1>2, <1>t DEF Evict, TypeOK
  <2>3. VictimsStale'
    BY <1>t, <2>1, <2>2, VictimsShrink
  <2>. QED  BY <1>2, <1>t, <2>3 DEF Evict, VictimInv, OneIncarnation, TypeOK
<1>3. ASSUME NEW s \in Slots, NEW v \in CTBValues, Annotate(s, v) PROVE VictimInv'
  <2>. DEFINE q == [pods[s] EXCEPT !.ctb = v]
  <2>1. pods[s] \in Pod
    BY <1>3, <1>t DEF Annotate, TypeOK
  <2>2. q \in Pod /\ q.hash = pods[s].hash
    BY <2>1 DEF Pod
  <2>3. pods' = [pods EXCEPT ![s] = q]
    BY <1>3 DEF Annotate
  <2>. HIDE DEF q
  <2>4. \A t \in Slots : pods[t] # NoPod => pods'[t] # NoPod /\ pods'[t].hash = pods[t].hash
    BY <1>t, <2>1, <2>2, <2>3 DEF TypeOK
  <2>5. UNCHANGED <<pass, creating>>
    BY <1>3 DEF Annotate, procVars
  <2>6. VictimsStale'
    BY <1>t, <2>4, <2>5, VictimsShrink
  <2>. QED  BY <1>t, <1>3, <2>3, <2>5, <2>6 DEF Annotate, VictimInv, OneIncarnation, TypeOK
<1>4. ASSUME NEW s \in Slots, Create(s) PROVE VictimInv'
  <2>1. UNCHANGED <<pods, pass>> /\ pods[s] = NoPod
    BY <1>4 DEF Create, Admit, AdmitExcluded, AdmitUnreached, Absent, procVars
  <2>2. \A t \in Slots \ {s} : creating'[t] = creating[t]
    BY <1>4, <1>t DEF Create, Admit, AdmitExcluded, AdmitUnreached, TypeOK
  <2>. QED  BY <1>t, <2>1, <2>2 DEF VictimInv, OneIncarnation, VictimsStale
<1>5. ASSUME NEW s \in Slots, Persist(s) PROVE VictimInv'
  <2>1. UNCHANGED pass /\ pods[s] = NoPod
    BY <1>5, <1>t DEF Persist, OneIncarnation, procVars
  <2>2. \A t \in Slots : pods[t] # NoPod => pods'[t] = pods[t]
    BY <1>5, <1>t, <2>1 DEF Persist, TypeOK
  <2>3. VictimsStale'
    BY <1>t, <2>1, <2>2, VictimsShrink
  <2>. QED  BY <1>5, <1>t, <2>3 DEF Persist, VictimInv, OneIncarnation, TypeOK
<1>6. ASSUME NEW p \in Procs, ReconcileFound(p) PROVE VictimInv'
  <2>1. \A q \in Procs \ {p} : pass'[q] = pass[q]
    BY <1>6, <1>t DEF ReconcileFound, TypeOK
  <2>2. pass'[p].victims = {}
    BY <1>6, <1>t DEF ReconcileFound, TypeOK
  <2>3. UNCHANGED <<pods, creating>>
    BY <1>6 DEF ReconcileFound, serverVars
  <2>. QED  BY <1>t, <2>1, <2>2, <2>3 DEF VictimInv, OneIncarnation, VictimsStale
<1>7. ASSUME NEW p \in Procs, NEW n \in Namespaces, ListPods(p, n) \/ ListForbidden(p, n)
      PROVE  VictimInv'
  <2>1. PICK listed \in {Stale(n, pass[p].desired), {}} : NextNamespace(p, n, listed)
    BY <1>7 DEF ListPods, ListForbidden
  <2>. DEFINE q == [pass[p] EXCEPT !.todo = pass[p].todo \ {n}, !.victims = listed, !.vanished = {},
                            !.anyDeleted = pass[p].anyDeleted \/ pass[p].nsDeleted,
                            !.nsDeleted = FALSE]
  <2>2. pass[p] \in Pass
    BY <2>1, <1>t DEF NextNamespace, TypeOK
  <2>3. q.desired = pass[p].desired /\ q.victims = listed
    BY <2>2 DEF Pass
  <2>4. pass' = [pass EXCEPT ![p] = q] /\ UNCHANGED <<pods, creating>>
    BY <2>1 DEF NextNamespace, serverVars
  <2>. HIDE DEF q
  <2>5. \A t \in listed : pods[t] # NoPod /\ pods[t].hash # pass[p].desired /\ Workload[t].owned
    BY <2>1 DEF Stale, Listed
  <2>6. \A r \in Procs : pass'[r] = IF r = p THEN q ELSE pass[r]
    BY <1>t, <2>4 DEF TypeOK
  <2>7. VictimsStale'
    BY <1>t, <2>3, <2>4, <2>5, <2>6 DEF VictimsStale
  <2>. QED  BY <1>t, <2>4, <2>7 DEF VictimInv, OneIncarnation
<1>8. ASSUME NEW p \in Procs, NEW s \in Slots, DeletePod(p, s) PROVE VictimInv'
  <2>. DEFINE gone == Vanish(s, pass)
              q    == [gone[p] EXCEPT !.victims = pass[p].victims \ {s}, !.nsDeleted = TRUE]
  <2>0. /\ gone \in [Procs -> Pass \cup {NoPass}]
        /\ \A r \in Procs : (gone[r] = NoPass) <=> (pass[r] = NoPass)
    BY <1>t, VanishType DEF TypeOK
  <2>1. gone \in [Procs -> Pass \cup {NoPass}] /\ gone[p] \in Pass /\ pass[p] \in Pass
    BY <1>8, <1>t, <2>0 DEF DeletePod, TypeOK
  <2>2. q.desired = gone[p].desired /\ q.vanished = gone[p].vanished
        /\ q.victims = pass[p].victims \ {s}
    <3>. HIDE DEF gone
    <3>. QED  BY <2>1 DEF Pass
  <2>3. pass' = [gone EXCEPT ![p] = q]
    BY <1>8 DEF DeletePod
  <2>4. /\ \A r \in Procs : pass[r] # NoPass =>
             /\ gone[r].desired = pass[r].desired
             /\ gone[r].victims = pass[r].victims
             /\ pass[r].vanished \subseteq gone[r].vanished
             /\ s \in pass[r].victims => s \in gone[r].vanished
        /\ \A r \in Procs : pass[r] = NoPass => gone[r] = NoPass
    BY <1>v, <1>n
  <2>. HIDE DEF gone, q
  <2>5. \A r \in Procs : pass'[r] # NoPass =>
          /\ pass[r] # NoPass
          /\ pass'[r].desired = pass[r].desired
          /\ Remaining(r)' \subseteq Remaining(r) \ {s}
    <3>. SUFFICES ASSUME NEW r \in Procs, pass'[r] # NoPass
                  PROVE  /\ pass[r] # NoPass
                         /\ pass'[r].desired = pass[r].desired
                         /\ Remaining(r)' \subseteq Remaining(r) \ {s}
      OBVIOUS
    <3>1. CASE r = p
      <4>1. pass'[p] = q
        BY <2>1, <2>3
      <4>. QED  BY <1>8, <3>1, <4>1, <2>2, <2>4 DEF DeletePod, Remaining
    <3>2. CASE r # p
      <4>1. pass'[r] = gone[r]
        BY <2>1, <2>3, <3>2
      <4>. QED  BY <4>1, <2>4 DEF Remaining
    <3>. QED  BY <3>1, <3>2
  <2>6. \A t \in Slots \ {s} : pods'[t] = pods[t]
    BY <1>8, <1>t DEF DeletePod, TypeOK
  <2>7. VictimsStale'
    BY <1>t, <2>5, <2>6, VictimsShrink
  <2>. QED  BY <1>8, <1>t, <2>7 DEF DeletePod, VictimInv, OneIncarnation, TypeOK
<1>9. ASSUME NEW p \in Procs, NEW s \in Slots, DeleteNotFound(p, s) \/ DeleteForbidden(p, s)
      PROVE  VictimInv'
  <2>1. pass[p] \in Pass
    BY <1>9, <1>t DEF DeleteNotFound, DeleteForbidden, TypeOK
  <2>2. PICK V \in {{}, pass[p].victims \ {s}}, d \in BOOLEAN :
          pass' = [pass EXCEPT ![p] = [pass[p] EXCEPT !.victims = V, !.nsDeleted = d]]
    BY <1>9 DEF DeleteNotFound, DeleteForbidden
  <2>. DEFINE q == [pass[p] EXCEPT !.victims = V, !.nsDeleted = d]
  <2>3. q.desired = pass[p].desired /\ q.vanished = pass[p].vanished /\ q.victims = V
    BY <2>1 DEF Pass
  <2>. HIDE DEF q
  <2>4. \A r \in Procs : pass'[r] = IF r = p THEN q ELSE pass[r]
    BY <1>t, <2>2 DEF TypeOK, q
  <2>5. UNCHANGED <<pods, creating>>
    BY <1>9 DEF DeleteNotFound, DeleteForbidden, serverVars
  <2>6. \A r \in Procs : pass'[r] # NoPass /\ pass'[r] # pass[r] =>
          /\ pass[r] # NoPass
          /\ pass'[r].desired = pass[r].desired
          /\ Remaining(r)' \subseteq Remaining(r)
    BY <2>1, <2>2, <2>3, <2>4 DEF Remaining
  <2>7. VictimsStale'
    BY <1>t, <2>5, <2>6, VictimsShrink
  <2>. QED  BY <1>t, <2>5, <2>7 DEF VictimInv, OneIncarnation
<1>10. ASSUME \/ \E b \in Bundles \cup {Gone} : RotateBundle(b)
              \/ \E p \in Procs : \/ Crash(p) \/ Start(p) \/ Watch(p)
                                  \/ ReconcileMissing(p) \/ PassDone(p) \/ PassFails(p)
                                  \/ \E s \in Slots : DeleteFails(p, s)
              \/ UNCHANGED vars
       PROVE  VictimInv'
  <2>1. UNCHANGED <<pods, creating>>
    BY <1>10 DEF RotateBundle, Crash, Start, Watch, InformerSees, ReconcileMissing,
                 PassDone, PassFails, DeleteFails, procVars, serverVars, vars
  <2>2. \A q \in Procs : pass'[q] \in {pass[q], NoPass}
    BY <1>10, <1>t DEF TypeOK, RotateBundle, Crash, Start, Watch, InformerSees,
                       ReconcileMissing, PassDone, PassFails, DeleteFails, procVars, serverVars,
                       vars
  <2>. QED  BY <1>1, <2>1, <2>2
<1>. QED
  BY <1>2, <1>3, <1>4, <1>5, <1>6, <1>7, <1>8, <1>9, <1>10
     DEF Next, Environment, Reconcile, RestartStep

\* The restarter deletes no pod of a generated name that carries the desired
\* hash (restarter.go:71-77).
THEOREM FreshPodsSparedAlways == Spec => FreshPodsSpared
<1>. DEFINE Spared == \A p \in Procs, s \in Slots :
         DeletePod(p, s) /\ ~Workload[s].stable => pods[s].hash # pass[p].desired
<1>1. Init => VictimInv
  BY InitTypeOK DEF Init, VictimInv, OneIncarnation, VictimsStale
<1>2. VictimInv => Spared
  BY DEF VictimInv, VictimsStale, DeletePod, Denotes
<1>3. VictimInv /\ [Next]_vars => [Spared]_vars
  BY <1>2
<1>. QED  BY <1>1, <1>3, NextVictimInv, PTL DEF Spec, FreshPodsSpared

\* A listed pod that is still there is as stale as when it was listed
\* (restarter.go:54-77).
THEOREM VictimsStaleAlways == Spec => []VictimsStale
<1>1. Init => VictimInv
  BY InitTypeOK DEF Init, VictimInv, OneIncarnation, VictimsStale
<1>. QED  BY <1>1, NextVictimInv, PTL DEF Spec, VictimInv

-----------------------------------------------------------------------------
(* The refinement of Rotation. *)

\* Every listed pod has an owner and is in a namespace with permissions.
VictimsRestartable ==
    \A p \in Procs : pass[p] # NoPass =>
        \A s \in pass[p].victims : Workload[s].owned /\ Workload[s].ns \in Permitted

\* A pod that is stamped on its way is one the webhook is called for and that opts in.
StampsRequested ==
    \A s \in Slots : creating[s] # NoPod /\ creating[s].hash # NoHash
                       => OptedIn(s) /\ ~Workload[s].excluded

LEMMA NextVictimsRestartable ==
    TypeOK /\ VictimsRestartable /\ [Next]_vars => VictimsRestartable'
<1>. SUFFICES ASSUME TypeOK, VictimsRestartable, [Next]_vars PROVE VictimsRestartable'
  OBVIOUS
<1>. USE AbsenceAssumption
<1>1. ASSUME \A q \in Procs : pass'[q] # NoPass =>
               \/ pass[q] # NoPass /\ pass'[q].victims \subseteq pass[q].victims
               \/ pass'[q].victims = {}
      PROVE  VictimsRestartable'
  BY <1>1 DEF VictimsRestartable
<1>v. \A s \in Slots, q \in Procs :
        /\ pass[q] = NoPass => Vanish(s, pass)[q] = NoPass
        /\ pass[q] # NoPass => Vanish(s, pass)[q].victims = pass[q].victims
  <2>1. \A s \in Slots, q \in Procs : pass[q] # NoPass => Vanish(s, pass)[q].victims = pass[q].victims
    BY VanishKeepsDesired
  <2>2. \A s \in Slots, q \in Procs : pass[q] = NoPass => Vanish(s, pass)[q] = NoPass
    BY VanishType DEF TypeOK
  <2>. QED  BY <2>1, <2>2
<1>2. ASSUME NEW s \in Slots, Evict(s) PROVE VictimsRestartable'
  BY <1>1, <1>2, <1>v DEF Evict
<1>3. ASSUME NEW p \in Procs, ReconcileFound(p) PROVE VictimsRestartable'
  <2>1. \A q \in Procs \ {p} : pass'[q] = pass[q]
    BY <1>3 DEF ReconcileFound, TypeOK
  <2>2. pass'[p].victims = {}
    BY <1>3 DEF ReconcileFound, TypeOK
  <2>. QED  BY <1>1, <2>1, <2>2
<1>4. ASSUME NEW p \in Procs, NEW n \in Namespaces, ListPods(p, n) \/ ListForbidden(p, n)
      PROVE  VictimsRestartable'
  <2>1. PICK listed \in SUBSET Slots :
          /\ NextNamespace(p, n, listed)
          /\ \A t \in listed : Workload[t].owned /\ Workload[t].ns \in Permitted
    BY <1>4 DEF ListPods, ListForbidden, Stale, Listed
  <2>. DEFINE q == [pass[p] EXCEPT !.todo = pass[p].todo \ {n}, !.victims = listed, !.vanished = {},
                            !.anyDeleted = pass[p].anyDeleted \/ pass[p].nsDeleted,
                            !.nsDeleted = FALSE]
  <2>2. pass[p] \in Pass
    BY <2>1 DEF NextNamespace, TypeOK
  <2>3. q.victims = listed
    BY <2>2 DEF Pass
  <2>4. pass' = [pass EXCEPT ![p] = q]
    BY <2>1 DEF NextNamespace
  <2>. HIDE DEF q
  <2>5. \A r \in Procs : pass'[r] = IF r = p THEN q ELSE pass[r]
    BY <2>4 DEF TypeOK
  <2>. QED  BY <2>1, <2>3, <2>5 DEF VictimsRestartable
<1>5. ASSUME NEW p \in Procs, NEW s \in Slots, DeletePod(p, s) PROVE VictimsRestartable'
  <2>. DEFINE gone == Vanish(s, pass)
              q    == [gone[p] EXCEPT !.victims = pass[p].victims \ {s}, !.nsDeleted = TRUE]
  <2>1. gone \in [Procs -> Pass \cup {NoPass}]
    BY VanishType DEF TypeOK
  <2>2. pass' = [gone EXCEPT ![p] = q] /\ pass[p] # NoPass
    BY <1>5 DEF DeletePod
  <2>3. gone[p] \in Pass
    <3>1. gone[p] # NoPass
      BY <1>5, VanishType DEF DeletePod, TypeOK
    <3>. QED  BY <2>1, <3>1
  <2>4. q.victims = pass[p].victims \ {s}
    <3>. HIDE DEF gone
    <3>. QED  BY <2>3 DEF Pass
  <2>5. \A r \in Procs : /\ pass[r] = NoPass => gone[r] = NoPass
                         /\ pass[r] # NoPass => gone[r].victims = pass[r].victims
    BY <1>v
  <2>. HIDE DEF gone, q
  <2>6. \A r \in Procs : pass'[r] = IF r = p THEN q ELSE gone[r]
    BY <2>1, <2>2
  <2>. QED  BY <1>1, <2>2, <2>4, <2>5, <2>6
<1>6. ASSUME NEW p \in Procs, NEW s \in Slots, DeleteNotFound(p, s) \/ DeleteForbidden(p, s)
      PROVE  VictimsRestartable'
  <2>1. pass[p] \in Pass
    BY <1>6 DEF DeleteNotFound, DeleteForbidden, TypeOK
  <2>2. PICK V \in {{}, pass[p].victims \ {s}}, d \in BOOLEAN :
          pass' = [pass EXCEPT ![p] = [pass[p] EXCEPT !.victims = V, !.nsDeleted = d]]
    BY <1>6 DEF DeleteNotFound, DeleteForbidden
  <2>. DEFINE q == [pass[p] EXCEPT !.victims = V, !.nsDeleted = d]
  <2>3. q.victims = V
    BY <2>1 DEF Pass
  <2>. HIDE DEF q
  <2>4. \A r \in Procs : pass'[r] = IF r = p THEN q ELSE pass[r]
    BY <2>2 DEF TypeOK, q
  <2>. QED  BY <1>1, <2>1, <2>2, <2>3, <2>4
<1>7. ASSUME \/ \E b \in Bundles \cup {Gone} : RotateBundle(b)
             \/ \E s \in Slots : \/ \E v \in CTBValues : Annotate(s, v)
                                 \/ Create(s) \/ Persist(s)
             \/ \E p \in Procs : \/ Crash(p) \/ Start(p) \/ Watch(p)
                                 \/ ReconcileMissing(p) \/ PassDone(p) \/ PassFails(p)
                                 \/ \E s \in Slots : DeleteFails(p, s)
             \/ UNCHANGED vars
      PROVE  VictimsRestartable'
  <2>1. \A q \in Procs : pass'[q] \in {pass[q], NoPass}
    BY <1>7 DEF TypeOK, RotateBundle, Annotate, Create, Admit, AdmitExcluded, AdmitUnreached,
         Persist, Crash, Start, Watch, InformerSees, ReconcileMissing, PassDone, PassFails,
         DeleteFails, procVars, serverVars, vars
  <2>. QED  BY <1>1, <2>1
<1>. QED
  BY <1>2, <1>3, <1>4, <1>5, <1>6, <1>7 DEF Next, Environment, Reconcile, RestartStep

LEMMA NextStampsRequested ==
    TypeOK /\ StampsRequested /\ [Next]_vars => StampsRequested'
<1>. SUFFICES ASSUME TypeOK, StampsRequested, [Next]_vars PROVE StampsRequested'
  OBVIOUS
<1>1. CASE UNCHANGED creating
  BY <1>1 DEF StampsRequested
<1>2. ASSUME NEW s \in Slots, Persist(s) PROVE StampsRequested'
  BY <1>2 DEF Persist, StampsRequested, TypeOK
<1>3. ASSUME NEW s \in Slots, Create(s) PROVE StampsRequested'
  <2>1. PICK q : /\ creating' = [creating EXCEPT ![s] = q]
                 /\ q.hash # NoHash => OptedIn(s) /\ ~Workload[s].excluded
    <3>1. Unmodified(s).hash = NoHash
      BY DEF Unmodified
    <3>2. ASSUME NEW p \in Procs, Admit(p, s)
          PROVE  /\ creating' = [creating EXCEPT ![s] = Defaulted(s, holder[p])]
                 /\ Defaulted(s, holder[p]).hash # NoHash => OptedIn(s) /\ ~Workload[s].excluded
      BY <3>1, <3>2 DEF Admit, Defaulted
    <3>. QED  BY <1>3, <3>1, <3>2 DEF Create, AdmitExcluded, AdmitUnreached
  <2>. QED  BY <2>1 DEF StampsRequested, TypeOK
<1>. QED
  BY <1>1, <1>2, <1>3, ZenonT(40)
     DEF Next, Environment, RotateBundle, Evict, Annotate, Crash, Start, Watch, InformerSees,
         Reconcile, ReconcileMissing, ReconcileFound, RestartStep, ListPods, ListForbidden,
         NextNamespace, DeletePod, DeleteNotFound, DeleteForbidden, DeleteFails, PassDone,
         PassFails, procVars, serverVars, vars

\* All that the refinement rests on.
RefinementInv == /\ WatcherInv /\ HolderHashes /\ PodHashes
                 /\ VictimInv /\ VictimsRestartable /\ StampsRequested

LEMMA InitRefinementInv == Init => RefinementInv
BY InitWatcherInv, AbsenceAssumption
   DEF Init, RefinementInv, WatcherInv, HolderHashes, PodHashes, Unmodified, VictimInv,
       OneIncarnation, VictimsStale, VictimsRestartable, StampsRequested

LEMMA NextRefinementInv == RefinementInv /\ [Next]_vars => RefinementInv'
BY NextWatcherInv, NextHolderHashes, NextPodHashes, NextVictimInv, NextVictimsRestartable,
   NextStampsRequested DEF RefinementInv, WatcherInv

\* The hashes of the pods an onlooker sees.
PodView == [s \in Slots |-> IF pods[s] = NoPod THEN NoPod ELSE pods[s].hash]

LEMMA PodViewOf ==
    ASSUME TypeOK, NEW s \in Slots
    PROVE  /\ PodView[s] = NoPod <=> pods[s] = NoPod
           /\ pods[s] # NoPod => PodView[s] = pods[s].hash
<1>1. pods[s] # NoPod => pods[s].hash \in Hashes \cup {NoHash}
  BY DEF TypeOK, Pod
<1>. QED  BY <1>1, AbsenceAssumption DEF PodView

\* A pod that leaves takes its hash away.
LEMMA PodViewWithout ==
    ASSUME TypeOK, NEW s \in Slots, pods' = [pods EXCEPT ![s] = NoPod]
    PROVE  PodView' = [PodView EXCEPT ![s] = NoPod]
BY DEF PodView, TypeOK

LEMMA InitRefines == Init => Promise!Init
<1>. SUFFICES ASSUME Init PROVE Promise!Init
  OBVIOUS
<1>1. Published \in SUBSET Hashes
  <2>1. TypeOK
    BY InitTypeOK
  <2>. QED  BY <2>1 DEF TypeOK, Published, Hashes
<1>2. \A s \in Slots : pods[s] = NoPod \/ pods[s].hash = NoHash
  BY DEF Init, Unmodified
<1>3. PodView \in [Slots -> {NoHash, NoPod}]
  BY <1>2 DEF PodView
<1>. QED  BY <1>1, <1>3 DEF Init, Promise!Init, PodView

LEMMA PublishedAfterRotation ==
    ASSUME TypeOK, NEW b \in Bundles \cup {Gone}, RotateBundle(b)
    PROVE  Published' = Published \cup (IF b = Gone THEN {} ELSE {SHA256(b)})
<1>. DEFINE Contents == {bundle[i] : i \in 1..Len(bundle)} \ {Gone}
<1>1. Published = {SHA256(c) : c \in Contents}
  BY DEF Published
<1>2. /\ Len(bundle') = Len(bundle) + 1
      /\ \A i \in 1..Len(bundle) : bundle'[i] = bundle[i]
      /\ bundle'[Len(bundle')] = b
  BY DEF TypeOK, RotateBundle
<1>3. Contents' = Contents \cup ({b} \ {Gone})
  <2>1. ASSUME NEW c \in Contents' PROVE c \in Contents \cup ({b} \ {Gone})
    <3>1. PICK i \in 1..Len(bundle') : bundle'[i] = c
      OBVIOUS
    <3>2. i \in 1..Len(bundle) \/ i = Len(bundle')
      BY <1>2 DEF TypeOK
    <3>. QED  BY <1>2, <3>1, <3>2
  <2>2. ASSUME NEW c \in Contents \cup ({b} \ {Gone}) PROVE c \in Contents'
    <3>1. 1..Len(bundle) \subseteq 1..Len(bundle') /\ Len(bundle') \in 1..Len(bundle')
      BY <1>2 DEF TypeOK
    <3>. QED  BY <1>2, <3>1
  <2>. QED  BY <2>1, <2>2
<1>4. Published' = {SHA256(c) : c \in Contents'}
  BY DEF Published
<1>. HIDE DEF Contents
<1>. QED  BY <1>1, <1>3, <1>4

LEMMA StepRefines == RefinementInv /\ [Next]_vars => [Promise!Next]_Promise!vars
<1>. SUFFICES ASSUME RefinementInv, [Next]_vars PROVE [Promise!Next]_Promise!vars
  OBVIOUS
<1>t. TypeOK
  BY DEF RefinementInv, WatcherInv
<1>. DEFINE Hidden == PodView' = PodView /\ UNCHANGED <<Published, holder>>
<1>1. ASSUME Hidden, UNCHANGED faults PROVE UNCHANGED Promise!vars
  BY <1>1 DEF Promise!vars, PodView
<1>2. ASSUME Hidden, Fault PROVE Promise!Disturb
  BY <1>2 DEF Promise!Disturb, PodView, Fault
<1>3. UNCHANGED <<pods, bundle, holder>> => Hidden
  BY DEF PodView, Published
<1>4. ASSUME NEW b \in Bundles \cup {Gone}, RotateBundle(b)
      PROVE  [Promise!Next]_Promise!vars
  <2>1. PodView' = PodView /\ UNCHANGED <<holder, faults>>
    BY <1>4 DEF RotateBundle, PodView, procVars
  <2>2. CASE b = Gone
    BY <1>1, <1>4, <1>t, <2>1, <2>2, PublishedAfterRotation
  <2>3. CASE b # Gone
    <3>1. Published' = Published \cup {SHA256(b)}
      BY <1>4, <1>t, <2>3, PublishedAfterRotation
    <3>2. Promise!Publish(SHA256(b))
      BY <2>1, <3>1 DEF Promise!Publish, PodView
    <3>3. SHA256(b) \in Hashes
      BY <2>3, HashType
    <3>. QED  BY <3>2, <3>3 DEF Promise!Next
  <2>. QED  BY <2>2, <2>3
<1>5. ASSUME NEW s \in Slots, Evict(s) PROVE Promise!Disturb
  <2>1. PodView' = [PodView EXCEPT ![s] = NoPod]
    BY <1>5, <1>t, PodViewWithout DEF Evict
  <2>. QED  BY <1>5, <2>1 DEF Promise!Disturb, Evict, Fault, PodView, Published
<1>6. ASSUME NEW s \in Slots, NEW v \in CTBValues, Annotate(s, v) PROVE Promise!Disturb
  <2>. DEFINE q == [pods[s] EXCEPT !.ctb = v]
  <2>1. pods[s] \in Pod /\ pods' = [pods EXCEPT ![s] = q]
    BY <1>6, <1>t DEF Annotate, TypeOK
  <2>2. q \in Pod /\ q.hash = pods[s].hash
    BY <2>1 DEF Pod, Annotate
  <2>. HIDE DEF q
  <2>3. PodView' = PodView
    BY <1>t, <2>1, <2>2, AbsenceAssumption DEF PodView, TypeOK
  <2>. QED  BY <1>2, <1>6, <2>3 DEF Annotate, procVars, Published
<1>7. ASSUME NEW p \in Procs, Crash(p) PROVE Promise!Disturb
  BY <1>7 DEF Promise!Disturb, Crash, Fault, PodView, Published
<1>8. ASSUME NEW s \in Slots, Create(s) PROVE [Promise!Next]_Promise!vars
  <2>1. Hidden
    BY <1>3, <1>8 DEF Create, Admit, AdmitExcluded, AdmitUnreached, procVars
  <2>2. UNCHANGED faults \/ Fault
    BY <1>8 DEF Create, Admit, AdmitExcluded, AdmitUnreached
  <2>. QED  BY <1>1, <1>2, <2>1, <2>2 DEF Promise!Next
<1>9. ASSUME NEW s \in Slots, Persist(s) PROVE [Promise!Next]_Promise!vars
  <2>0. creating[s] \in Pod
    BY <1>9, <1>t DEF Persist, TypeOK
  <2>6. PICK h \in Hashes \cup {NoHash} : h = creating[s].hash
    BY <2>0 DEF Pod
  <2>1. creating[s] \in Pod /\ pods[s] = NoPod /\ h \in Published \cup {NoHash}
    BY <1>9, <2>0, <2>6 DEF Persist, RefinementInv, VictimInv, OneIncarnation, PodHashes
  <2>2. h # NoHash => OptedIn(s) /\ ~Workload[s].excluded
    BY <1>9, <2>6 DEF Persist, RefinementInv, StampsRequested
  <2>3. PodView[s] = NoPod
    BY <1>t, <2>1, PodViewOf
  <2>4. PodView' = [PodView EXCEPT ![s] = h]
    BY <1>9, <1>t, <2>1, <2>6, AbsenceAssumption DEF Persist, PodView, TypeOK
  <2>5. UNCHANGED <<Published, holder, faults>>
    BY <1>9 DEF Persist, procVars, Published
  <2>7. Promise!Appear(s, h)
    <3>1. h = NoHash \/ (h \in Published /\ s \in {t \in Slots : OptedIn(t) /\ ~Workload[t].excluded})
      BY <2>1, <2>2
    <3>. QED  BY <2>3, <2>4, <2>5, <3>1 DEF Promise!Appear, PodView
  <2>. QED  BY <2>7 DEF Promise!Next
<1>10. ASSUME NEW p \in Procs, NEW h \in Hashes, h \in Published,
              holder' = [holder EXCEPT ![p] = h], UNCHANGED <<bundle, pods, faults>>
       PROVE  [Promise!Next]_Promise!vars
  <2>1. Promise!Adopt(p, h)
    BY <1>10 DEF Promise!Adopt, PodView, Published
  <2>. QED  BY <2>1 DEF Promise!Next
<1>11. ASSUME NEW p \in Procs, Start(p) PROVE [Promise!Next]_Promise!vars
  <2>1. UNCHANGED <<bundle, pods>>
    BY <1>11 DEF Start
  <2>2. CASE UNCHANGED holder /\ Fault
    BY <1>2, <1>3, <2>1, <2>2 DEF Promise!Next
  <2>3. CASE holder' = [holder EXCEPT ![p] = PreComputeHash] /\ UNCHANGED faults
    <3>1. CASE Live = Gone
      <4>1. UNCHANGED holder
        BY <1>11, <1>t, <2>3, <3>1 DEF Start, PreComputeHash, TypeOK
      <4>. QED  BY <1>1, <1>3, <2>1, <2>3, <4>1
    <3>2. CASE Live # Gone
      <4>1. PreComputeHash \in Published /\ PreComputeHash \in Hashes
        BY <1>t, <3>2, PublishedContents, LiveType, HashType DEF PreComputeHash
      <4>. QED  BY <1>10, <2>1, <2>3, <4>1
    <3>. QED  BY <3>1, <3>2
  <2>. QED  BY <1>11, <2>2, <2>3 DEF Start
<1>12. ASSUME NEW p \in Procs, ReconcileFound(p) PROVE [Promise!Next]_Promise!vars
  <2>1. SHA256(Cached(p)) \in Published /\ SHA256(Cached(p)) \in Hashes
    BY <1>12, <1>t, PublishedContents, CachedType, HashType DEF ReconcileFound
  <2>2. holder' = [holder EXCEPT ![p] = SHA256(Cached(p))] /\ UNCHANGED <<bundle, pods, faults>>
    BY <1>12 DEF ReconcileFound, NewHash, serverVars
  <2>. QED  BY <1>10, <2>1, <2>2
<1>13. ASSUME NEW p \in Procs, ReconcileMissing(p) PROVE UNCHANGED Promise!vars
  <2>1. UNCHANGED <<bundle, pods, holder, faults>>
    BY <1>13, <1>t DEF ReconcileMissing, NewHash, serverVars, TypeOK
  <2>. QED  BY <1>1, <1>3, <2>1
<1>14. ASSUME NEW p \in Procs, NEW s \in Slots, DeletePod(p, s) PROVE Promise!Next
  <2>1. /\ pass[p] # NoPass
        /\ s \in pass[p].victims
        /\ pods[s] # NoPod
        /\ s \in pass[p].vanished => Workload[s].stable
    BY <1>14 DEF DeletePod, Denotes
  <2>2. pass[p].desired = holder[p] /\ pass[p].desired # NoHash
    BY <1>t, <2>1, HashType DEF RefinementInv, WatcherInv, PassMatchesHolder, TypeOK, Pass
  <2>3. pods[s].hash # pass[p].desired \/ Workload[s].stable
    BY <2>1 DEF RefinementInv, VictimInv, VictimsStale
  <2>4. Workload[s].owned /\ Workload[s].ns \in Permitted
    BY <2>1 DEF RefinementInv, VictimsRestartable
  <2>5. PodView' = [PodView EXCEPT ![s] = NoPod]
    BY <1>14, <1>t, PodViewWithout DEF DeletePod
  <2>6. PodView[s] # NoPod /\ (PodView[s] # holder[p] \/ Workload[s].stable)
    BY <1>t, <2>1, <2>2, <2>3, PodViewOf
  <2>7. UNCHANGED <<Published, holder, faults>>
    BY <1>14 DEF DeletePod, Published
  <2>8. Promise!Restart(p, s)
    BY <2>2, <2>4, <2>5, <2>6, <2>7 DEF Promise!Restart, PodView
  <2>. QED  BY <2>8 DEF Promise!Next
<1>15. ASSUME NEW p \in Procs, PassFails(p) PROVE Promise!Disturb
  BY <1>2, <1>3, <1>15 DEF PassFails
<1>16. ASSUME \/ \E p \in Procs : \/ Watch(p) \/ PassDone(p)
                                  \/ \E n \in Namespaces : ListPods(p, n) \/ ListForbidden(p, n)
                                  \/ \E s \in Slots : \/ DeleteNotFound(p, s)
                                                      \/ DeleteForbidden(p, s)
                                                      \/ DeleteFails(p, s)
              \/ UNCHANGED vars
       PROVE  UNCHANGED Promise!vars
  BY <1>1, <1>3, <1>16, ZenonT(40)
     DEF Watch, InformerSees, PassDone, ListPods, ListForbidden, NextNamespace, DeleteNotFound,
         DeleteForbidden, DeleteFails, serverVars, vars
<1>17. Promise!Disturb => Promise!Next
  BY DEF Promise!Next
<1>. QED
  BY <1>4, <1>5, <1>6, <1>7, <1>8, <1>9, <1>11, <1>12, <1>13, <1>14, <1>15, <1>16, <1>17
     DEF Next, Environment, Reconcile, RestartStep

\* The rotation implements Rotation: what an onlooker sees of passes, queues and
\* admissions is atomic comparison and deletion (watcher.go:41-48, restarter.go:52-83).
THEOREM RotationImplemented == Spec => ImplementsRotation
<1>. QED
  BY InitRefinementInv, NextRefinementInv, InitRefines, StepRefines, PTL
     DEF Spec, ImplementsRotation, Promise!Spec

-----------------------------------------------------------------------------
(* No herd of restarts. *)

\* The bundle has the content it had at first.
SameBundle == \A i \in 1..Len(bundle) : bundle[i] = bundle[1]

\* A pod the webhook has seen carries a hash.
Stamped(pod) == pod # NoPod /\ pod.mounted => pod.hash # NoHash

\* As long as there is a bundle, always the same, and nothing has failed, every
\* running process has a hash, from its start on, and leaves no pod without one.
StampedFromStart ==
    faults = 0 /\ SameBundle /\ Live # Gone =>
        /\ \A p \in up : holder[p] # NoHash
        /\ \A s \in Slots : Stamped(pods[s]) /\ Stamped(creating[s])

\* A bundle that is the same after a step was so before, and the step was no change
\* of it.
LEMMA SameBundleStays ==
    ASSUME TypeOK, [Next]_vars, SameBundle'
    PROVE  bundle' = bundle
<1>1. ASSUME NEW b \in Bundles \cup {Gone}, RotateBundle(b) PROVE FALSE
  <2>1. Len(bundle) \in 1..Len(bundle) /\ 1 \in 1..Len(bundle)
    BY DEF TypeOK
  <2>2. /\ Len(bundle') = Len(bundle) + 1
        /\ bundle'[Len(bundle) + 1] = b
        /\ \A i \in 1..Len(bundle) : bundle'[i] = bundle[i]
    BY <1>1 DEF RotateBundle, TypeOK
  <2>3. \A i \in 1..(Len(bundle) + 1) : bundle'[i] = bundle'[1]
    BY <2>2 DEF SameBundle
  <2>4. b = bundle'[1] /\ bundle'[Len(bundle)] = bundle'[1]
    BY <2>1, <2>2, <2>3
  <2>. QED  BY <1>1, <2>1, <2>2, <2>4 DEF RotateBundle, Live
<1>. QED
  BY <1>1, ZenonT(40)
     DEF Next, Environment, Evict, Annotate, Crash, Create, Admit, AdmitExcluded, AdmitUnreached,
         Persist, Start, Watch, InformerSees, Reconcile, ReconcileMissing, ReconcileFound,
         RestartStep, ListPods, ListForbidden, NextNamespace, DeletePod, DeleteNotFound,
         DeleteForbidden, DeleteFails, PassDone, PassFails, serverVars, vars

LEMMA NextStampedFromStart == TypeOK /\ StampedFromStart /\ [Next]_vars => StampedFromStart'
<1>. SUFFICES ASSUME TypeOK, StampedFromStart, [Next]_vars,
                     faults' = 0, SameBundle', Live' # Gone
              PROVE  /\ \A p \in up' : holder'[p] # NoHash
                     /\ \A s \in Slots : Stamped(pods'[s]) /\ Stamped(creating'[s])
  BY DEF StampedFromStart, Stamped
<1>. USE HashType
<1>1. bundle' = bundle /\ SameBundle /\ Live # Gone
  BY SameBundleStays DEF SameBundle, Live
<1>2. ~Fault
  BY DEF Fault, TypeOK
<1>3. ASSUME faults' = faults
      PROVE  /\ \A p \in up : p \in Procs /\ holder[p] # NoHash
             /\ \A s \in Slots : Stamped(pods[s]) /\ Stamped(creating[s])
  BY <1>1, <1>3 DEF StampedFromStart, TypeOK
<1>4. \A s \in Slots : ~Unmodified(s).mounted
  BY DEF Unmodified
<1>5. Stamped(NoPod)
  BY DEF Stamped
<1>6. ASSUME UNCHANGED <<up, holder, pods, creating, faults>>
      PROVE  /\ \A p \in up' : holder'[p] # NoHash
             /\ \A s \in Slots : Stamped(pods'[s]) /\ Stamped(creating'[s])
  BY <1>3, <1>6
<1>7. ASSUME NEW p \in Procs, Start(p)
      PROVE  /\ \A q \in up' : holder'[q] # NoHash
             /\ \A s \in Slots : Stamped(pods'[s]) /\ Stamped(creating'[s])
  <2>1. holder' = [holder EXCEPT ![p] = PreComputeHash] /\ up' = up \cup {p}
        /\ UNCHANGED <<pods, creating, faults>>
    BY <1>2, <1>7 DEF Start
  <2>2. PreComputeHash # NoHash
    BY <1>1, LiveType DEF PreComputeHash
  <2>. QED  BY <1>3, <2>1, <2>2 DEF TypeOK
<1>8. ASSUME NEW p \in Procs, ReconcileMissing(p) \/ ReconcileFound(p)
      PROVE  /\ \A q \in up' : holder'[q] # NoHash
             /\ \A s \in Slots : Stamped(pods'[s]) /\ Stamped(creating'[s])
  <2>1. /\ holder' = [holder EXCEPT ![p] = NewHash(p)]
        /\ UNCHANGED <<up, pods, creating, faults>>
        /\ p \in up
    BY <1>8 DEF ReconcileMissing, ReconcileFound, TakeItem, serverVars
  <2>2. NewHash(p) # NoHash
    BY <1>3, <2>1, CachedType DEF NewHash
  <2>. QED  BY <1>3, <2>1, <2>2 DEF TypeOK
<1>9. ASSUME NEW s \in Slots, Create(s)
      PROVE  /\ \A q \in up' : holder'[q] # NoHash
             /\ \A t \in Slots : Stamped(pods'[t]) /\ Stamped(creating'[t])
  <2>1. UNCHANGED <<up, holder, pods, faults>>
    BY <1>2, <1>9 DEF Create, Admit, AdmitExcluded, AdmitUnreached, procVars
  <2>2. PICK q : creating' = [creating EXCEPT ![s] = q] /\ Stamped(q)
    <3>1. ASSUME NEW p \in Procs, Admit(p, s)
          PROVE  /\ creating' = [creating EXCEPT ![s] = Defaulted(s, holder[p])]
                 /\ Stamped(Defaulted(s, holder[p]))
      <4>1. holder[p] # NoHash
        BY <1>3, <2>1, <3>1 DEF Admit
      <4>2. [Unmodified(s) EXCEPT !.hash = holder[p], !.mounted = TRUE].hash = holder[p]
        BY DEF Unmodified
      <4>. QED  BY <1>4, <3>1, <4>1, <4>2 DEF Admit, Defaulted, Stamped
    <3>2. Stamped(Unmodified(s))
      BY <1>4 DEF Stamped
    <3>. QED  BY <1>9, <3>1, <3>2 DEF Create, AdmitExcluded, AdmitUnreached
  <2>. QED  BY <1>3, <2>1, <2>2 DEF TypeOK
<1>10. ASSUME NEW s \in Slots, Persist(s)
       PROVE  /\ \A q \in up' : holder'[q] # NoHash
              /\ \A t \in Slots : Stamped(pods'[t]) /\ Stamped(creating'[t])
  <2>1. UNCHANGED <<up, holder, faults>>
    BY <1>10 DEF Persist, procVars
  <2>. QED  BY <1>3, <1>5, <1>10, <2>1 DEF Persist, TypeOK
<1>11. ASSUME NEW p \in Procs, NEW s \in Slots, DeletePod(p, s)
       PROVE  /\ \A q \in up' : holder'[q] # NoHash
              /\ \A t \in Slots : Stamped(pods'[t]) /\ Stamped(creating'[t])
  <2>1. UNCHANGED <<up, holder, creating, faults>> /\ pods' = [pods EXCEPT ![s] = NoPod]
    BY <1>11 DEF DeletePod
  <2>. QED  BY <1>3, <1>5, <2>1 DEF TypeOK
<1>12. ASSUME NEW b \in Bundles \cup {Gone}, RotateBundle(b)
       PROVE  UNCHANGED <<up, holder, pods, creating, faults>>
  BY <1>12 DEF RotateBundle, procVars
<1>. QED
  BY <1>2, <1>6, <1>7, <1>8, <1>9, <1>10, <1>11, <1>12
     DEF Next, Environment, Evict, Annotate, Crash, Watch, InformerSees, Reconcile,
         RestartStep, ListPods, ListForbidden, NextNamespace, DeleteNotFound, DeleteForbidden,
         DeleteFails, PassDone, PassFails, serverVars, vars

\* As long as the bundle is the same, a pass deletes no pod of a generated name that
\* carries a hash and, without failures, none that the webhook has seen: there is one
\* published hash, every pass compares with it, and no process admits a pod before it
\* has that hash (cmd/main.go:292-297, restarter.go:71-77).
THEOREM NoHerdAlways == Spec => NoHerd
<1>. DEFINE Calm == \A p \in Procs, s \in Slots :
         (/\ DeletePod(p, s)
          /\ ~Workload[s].stable
          /\ \A i \in 1..Len(bundle) : bundle[i] = bundle[1])
         => /\ pods[s].hash = NoHash
            /\ faults = 0 => ~pods[s].mounted
<1>1. Init => StampedFromStart
  BY AbsenceAssumption DEF Init, StampedFromStart, Stamped, Unmodified
<1>2. RefinementInv /\ StampedFromStart => Calm
  <2>. SUFFICES ASSUME RefinementInv, StampedFromStart,
                       NEW p \in Procs, NEW s \in Slots, DeletePod(p, s), ~Workload[s].stable,
                       SameBundle
                PROVE  /\ pods[s].hash = NoHash
                       /\ faults = 0 => ~pods[s].mounted
    BY DEF SameBundle
  <2>1. TypeOK
    BY DEF RefinementInv, WatcherInv
  <2>2. Published \subseteq {SHA256(bundle[1])}
    BY DEF Published, SameBundle
  <2>3. pass[p].desired \in Published
    BY PassHashesFromHolder DEF RefinementInv, PassHashes, DeletePod
  <2>4. pods[s] # NoPod /\ pods[s].hash # pass[p].desired
    BY DEF RefinementInv, VictimInv, VictimsStale, DeletePod, Denotes
  <2>5. pods[s].hash \in Published \cup {NoHash}
    BY <2>4 DEF RefinementInv, PodHashes
  <2>6. pods[s].hash = NoHash
    BY <2>2, <2>3, <2>4, <2>5
  <2>7. Live # Gone
    <3>1. PICK i \in 1..Len(bundle) : bundle[i] # Gone
      BY <2>3 DEF Published
    <3>2. Len(bundle) \in 1..Len(bundle)
      BY <2>1 DEF TypeOK
    <3>. QED  BY <3>1, <3>2 DEF SameBundle, Live
  <2>. QED  BY <2>4, <2>6, <2>7 DEF StampedFromStart, Stamped
<1>3. RefinementInv /\ StampedFromStart /\ [Next]_vars => [Calm]_vars
  BY <1>2
<1>4. RefinementInv /\ StampedFromStart /\ [Next]_vars => StampedFromStart'
  BY NextStampedFromStart DEF RefinementInv, WatcherInv
<1>. QED
  BY <1>1, <1>3, <1>4, InitRefinementInv, NextRefinementInv, PTL DEF Spec, NoHerd
=============================================================================
