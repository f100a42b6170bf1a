-------------------------- MODULE CABundle_proofs --------------------------
(***************************************************************************)
(* Proofs about CABundle: types, that every process registers itself, and  *)
(* that no write between Get and Patch is overwritten.                     *)
(***************************************************************************)
EXTENDS CABundle, TLAPS

USE BoundAssumption DEF Versions, files, ghosts

LEMMA InitTypeOK == Init => TypeOK
<1>. SUFFICES ASSUME Init PROVE TypeOK
  OBVIOUS
<1>1. call \in [Procs -> [Versions -> Call \cup {NoCall}]]
  BY DEF Init, NoCalls
<1>2. hook \in [ca : 0..MaxVersions, rv : Nat]
  BY DEF Init
<1>3. /\ issued \in Versions
      /\ mounted \in [Procs -> Versions]
      /\ loaded \in [Procs -> Versions]
      /\ faults \in 0..MaxFaults
  BY DEF Init
<1>4. /\ status \in [Procs -> {"down", "starting", "serving", "gone"}]
      /\ watching \in [Procs -> BOOLEAN]
      /\ overlapped \in BOOLEAN /\ abandoned \in BOOLEAN
  BY DEF Init
<1>5. registered \in [Procs -> 0..MaxVersions]
  <2>1. 0 \in 0..MaxVersions /\ registered = [p \in Procs |-> 0]
    BY DEF Init
  <2>. QED  BY <2>1
<1>. QED  BY <1>1, <1>2, <1>3, <1>4, <1>5 DEF TypeOK

LEMMA NewCallType == NewCall \in Call
  BY DEF NewCall, Call

\* A callback after it has read the file.
LEMMA ReadType ==
    ASSUME NEW c \in Call, NEW m \in Versions
    PROVE  /\ [c EXCEPT !.stage = "get", !.ca = m] \in Call
           /\ [c EXCEPT !.stage = "get", !.ca = m].ca = m
<1>1. m \in 0..MaxVersions
  OBVIOUS
<1>2. [c EXCEPT !.stage = "get", !.ca = m] \in Call
  BY <1>1 DEF Call
<1>3. [c EXCEPT !.stage = "get", !.ca = m].ca = m
  BY DEF Call
<1>. QED  BY <1>2, <1>3

\* A callback there is has the type of one.
LEMMA CallType ==
    ASSUME TypeOK, NEW p \in Procs, NEW v \in Versions, call[p][v] # NoCall
    PROVE  call[p][v] \in Call
<1>1. call \in [Procs -> [Versions -> Call \cup {NoCall}]]
  BY Zenon DEF TypeOK
<1>. QED  BY <1>1

\* What To does to the callbacks of all processes.
LEMMA ToType ==
    ASSUME TypeOK, NEW p \in Procs, NEW v \in Versions, NEW c \in Call \cup {NoCall}, To(p, v, c)
    PROVE  /\ call' \in [Procs -> [Versions -> Call \cup {NoCall}]]
           /\ call'[p][v] = c
           /\ \A q \in Procs, w \in Versions : <<q, w>> # <<p, v>> => call'[q][w] = call[q][w]
  BY DEF To, TypeOK

\* What the end of a callback does to the memory of what it has registered.
LEMMA DoneType ==
    ASSUME TypeOK, NEW p \in Procs, NEW v \in Versions, Done(p, v), hook'.ca \in 0..MaxVersions
    PROVE  /\ registered' \in [Procs -> 0..MaxVersions]
           /\ registered'[p] >= registered[p] /\ registered'[p] >= hook'.ca
           /\ \A q \in Procs \ {p} : registered'[q] = registered[q]
           /\ UNCHANGED <<overlapped, abandoned>>
           /\ To(p, v, NoCall)
<1>. DEFINE n == IF registered[p] < hook'.ca THEN hook'.ca ELSE registered[p]
<1>1. registered' = [registered EXCEPT ![p] = n]
  BY DEF Done
<1>2. n \in 0..MaxVersions /\ n >= registered[p] /\ n >= hook'.ca
  BY DEF TypeOK
<1>. HIDE DEF n
<1>. QED  BY <1>1, <1>2 DEF Done, TypeOK

\* What the end of a process does to it and to the others.
LEMMA EndType ==
    ASSUME TypeOK, NEW p \in Procs, NEW next \in {"down", "gone"}, End(p, next)
    PROVE  /\ call' \in [Procs -> [Versions -> Call \cup {NoCall}]]
           /\ \A w \in Versions : call'[p][w] = NoCall
           /\ \A q \in Procs \ {p} : call'[q] = call[q] /\ status'[q] = status[q]
           /\ status'[p] = next
           /\ status' \in [Procs -> {"down", "starting", "serving", "gone"}]
           /\ watching' \in [Procs -> BOOLEAN]
           /\ registered' \in [Procs -> 0..MaxVersions]
           /\ \A q \in Procs \ {p} : registered'[q] = registered[q]
<1>1. NoCalls \in [Versions -> Call \cup {NoCall}] /\ \A w \in Versions : NoCalls[w] = NoCall
  BY DEF NoCalls
<1>2. call' = [call EXCEPT ![p] = NoCalls] /\ status' = [status EXCEPT ![p] = next]
      /\ watching' = [watching EXCEPT ![p] = FALSE]
      /\ registered' = [registered EXCEPT ![p] = 0]
  BY DEF End
<1>. QED  BY <1>1, <1>2 DEF TypeOK

LEMMA NextTypeOK == TypeOK /\ [Next]_vars => TypeOK'
<1>. SUFFICES ASSUME TypeOK, [Next]_vars PROVE TypeOK'
  OBVIOUS
<1>1. CASE Rotate
  BY <1>1 DEF Rotate, TypeOK
<1>2. CASE TouchHook
  <2>0. hook \in [ca : 0..MaxVersions, rv : Nat] /\ hook.rv + 1 \in Nat
    BY DEF TypeOK
  <2>1. [hook EXCEPT !.rv = hook.rv + 1] \in [ca : 0..MaxVersions, rv : Nat]
    BY <2>0
  <2>2. faults' \in 0..MaxFaults
    BY <1>2 DEF TouchHook, Fault, TypeOK
  <2>. QED  BY <1>2, <2>1, <2>2 DEF TouchHook, TypeOK
<1>3. ASSUME NEW p \in Procs, Mount(p) PROVE TypeOK'
  BY <1>3 DEF Mount, TypeOK
<1>a. ASSUME NEW p \in Procs PROVE LeavesBehind(p) \in BOOLEAN
  BY DEF LeavesBehind
<1>b. ASSUME NEW p \in Procs, End(p, "down") \/ End(p, "gone"), abandoned' \in BOOLEAN,
             faults' \in 0..MaxFaults
      PROVE  TypeOK'
  <2>1. PICK next \in {"down", "gone"} : End(p, next)
    BY <1>b
  <2>2. UNCHANGED <<issued, mounted, loaded, hook, overlapped>>
    BY <2>1 DEF End
  <2>. QED  BY <1>b, <2>1, <2>2, EndType DEF TypeOK
<1>4. ASSUME NEW p \in Procs, Ending(p) PROVE TypeOK'
  <2>1. faults' \in 0..MaxFaults
    BY <1>4 DEF Ending, Crash, Retire, Fault, TypeOK
  <2>2. abandoned' \in BOOLEAN
    BY <1>4, <1>a DEF Ending, Crash, Exit, Retire, TypeOK
  <2>. QED  BY <1>4, <1>b, <2>1, <2>2 DEF Ending, Crash, Exit, Retire
<1>5. ASSUME NEW p \in Procs, Start(p) PROVE TypeOK'
  BY <1>5, NewCallType DEF Start, StartCallback, TypeOK
<1>6. ASSUME NEW p \in Procs, Serve(p) \/ ServeUnwatched(p) PROVE TypeOK'
  <2>1. faults' \in 0..MaxFaults
    BY <1>6 DEF Serve, ServeUnwatched, Fault, TypeOK
  <2>2. abandoned' \in BOOLEAN
    BY <1>6, <1>a DEF Serve, ServeUnwatched, TypeOK
  <2>3. Listen(p) /\ (watching' = [watching EXCEPT ![p] = TRUE] \/ UNCHANGED watching)
    BY <1>6 DEF Serve, ServeUnwatched
  <2>. QED  BY <2>1, <2>2, <2>3 DEF Listen, TypeOK
<1>7. ASSUME NEW p \in Procs, Load(p) PROVE TypeOK'
  BY <1>7, NewCallType DEF Load, TypeOK
<1>8. ASSUME NEW p \in Procs, NEW v \in Versions, Callback(p, v) PROVE TypeOK'
  <2>0. CASE GiveUp(p, v)
    BY <2>0, <1>b DEF GiveUp, Exit, TypeOK
  <2>. SUFFICES ASSUME ~GiveUp(p, v) PROVE TypeOK'
    BY <2>0
  <2>c. call[p][v] \in Call
    <3>1. call[p][v] # NoCall
      BY <1>8 DEF Callback, ReadCA, GetHook, PatchHook, Retry, At
    <3>. QED  BY <3>1, CallType
  <2>1. CASE ReadCA(p, v)
    <3>1. [call[p][v] EXCEPT !.stage = "get", !.ca = mounted[p]] \in Call
      BY <2>c, ReadType DEF TypeOK
    <3>. QED  BY <2>1, <3>1, ToType DEF ReadCA, TypeOK
  <2>2. CASE GetHook(p, v)
    <3>1. [call[p][v] EXCEPT !.stage = "patch", !.base = hook] \in Call
      BY <2>c DEF Call, TypeOK
    <3>2. CASE UpToDate(p, v)
      <4>1. Done(p, v) /\ UNCHANGED <<files, loaded, status, watching, hook, faults>>
        BY <2>2, <3>2 DEF GetHook
      <4>2. hook'.ca \in 0..MaxVersions
        BY <4>1 DEF TypeOK
      <4>. QED  BY <4>1, <4>2, DoneType, ToType DEF TypeOK
    <3>3. CASE ~UpToDate(p, v)
      BY <2>2, <3>1, <3>3, ToType DEF GetHook, TypeOK
    <3>. QED  BY <3>2, <3>3
  <2>3. CASE PatchHook(p, v)
    <3>a. call[p][v].ca \in 0..MaxVersions
      BY <2>c DEF Call
    <3>b. hook.rv + 1 \in Nat
      BY DEF TypeOK
    <3>1. [ca |-> call[p][v].ca, rv |-> hook.rv + 1] \in [ca : 0..MaxVersions, rv : Nat]
      BY <3>a, <3>b
    <3>2. hook' \in [ca : 0..MaxVersions, rv : Nat] /\ Done(p, v)
          /\ UNCHANGED <<files, loaded, status, watching, faults>>
      BY <2>3, <3>1 DEF PatchHook
    <3>3. hook'.ca \in 0..MaxVersions
      BY <3>2
    <3>. QED  BY <3>2, <3>3, DoneType, ToType DEF TypeOK
  <2>4. CASE Retry(p, v)
    <3>0. call[p][v].tries + 1 \in 1..Steps
      BY <2>4, <2>c DEF Retry, Call
    <3>1. [call[p][v] EXCEPT !.stage = "get", !.tries = call[p][v].tries + 1] \in Call
      BY <3>0, <2>c DEF Call
    <3>. QED  BY <2>4, <3>1, ToType DEF Retry, TypeOK
  <2>. QED  BY <1>8, <2>1, <2>2, <2>3, <2>4 DEF Callback
<1>9. CASE UNCHANGED vars
  BY <1>9 DEF vars, TypeOK
<1>. QED
  BY <1>1, <1>2, <1>3, <1>4, <1>5, <1>6, <1>7, <1>8, <1>9 DEF Next, Serving

\* Type correctness, for any number of processes, certificates and attempts.
THEOREM TypeCorrect == Spec => []TypeOK
  BY InitTypeOK, NextTypeOK, PTL DEF Spec

-----------------------------------------------------------------------------
(***************************************************************************)
(* Every process registers itself.                                         *)
(***************************************************************************)
\* The files of a process are no newer than what is published.
MountedIssued == \A p \in Procs : mounted[p] <= issued

\* A callback reads the CA after the files had the certificate it is for.
CallsFollow ==
    \A p \in Procs, v \in Versions :
        call[p][v] # NoCall => /\ v <= mounted[p]
                               /\ call[p][v].stage # "read" => v <= call[p][v].ca

RegisteredInv == TypeOK /\ MountedIssued /\ CallsFollow /\ ServesRegistered

LEMMA InitRegistered == Init => RegisteredInv
<1>. SUFFICES ASSUME Init PROVE RegisteredInv
  OBVIOUS
<1>1. MountedIssued /\ CallsFollow
  BY DEF Init, NoCalls, MountedIssued, CallsFollow
<1>2. ServesRegistered
  BY DEF Init, ServesRegistered, Runs
<1>. QED  BY <1>1, <1>2, InitTypeOK DEF RegisteredInv

\* Files never become older.
LEMMA FilesForward ==
    ASSUME TypeOK, MountedIssued, [Next]_vars
    PROVE  MountedIssued' /\ \A q \in Procs : mounted[q] <= mounted'[q]
<1>1. CASE Rotate
  BY <1>1 DEF Rotate, TypeOK, MountedIssued
<1>2. ASSUME NEW p \in Procs, Mount(p)
      PROVE  MountedIssued' /\ \A q \in Procs : mounted[q] <= mounted'[q]
  BY <1>2 DEF Mount, TypeOK, MountedIssued
<1>3. CASE UNCHANGED <<issued, mounted>>
  BY <1>3 DEF TypeOK, MountedIssued
<1>4. CASE UNCHANGED vars
  BY <1>3, <1>4 DEF vars
<1>. QED
  BY <1>1, <1>2, <1>3, <1>4
     DEF Next, TouchHook, Ending, Crash, Retire, Exit, End, Serving, Start, Serve, ServeUnwatched,
         Listen, Load, Callback, ReadCA, GetHook, PatchHook, Retry, GiveUp

LEMMA CallsFollowKept == TypeOK /\ MountedIssued /\ CallsFollow /\ [Next]_vars => CallsFollow'
<1>. SUFFICES ASSUME TypeOK, MountedIssued, CallsFollow, [Next]_vars PROVE CallsFollow'
  OBVIOUS
<1>n. NewCall.stage = "read"
  BY DEF NewCall
<1>f. /\ \A q \in Procs : mounted[q] \in Nat /\ mounted'[q] \in Nat /\ mounted[q] <= mounted'[q]
      /\ \A v \in Versions : v \in Nat
  <2>1. TypeOK' /\ \A q \in Procs : mounted[q] <= mounted'[q]
    BY NextTypeOK, FilesForward
  <2>2. mounted \in [Procs -> Versions] /\ mounted' \in [Procs -> Versions]
    BY <2>1, Zenon DEF TypeOK
  <2>3. \A v \in Versions : v \in Nat
    OBVIOUS
  <2>. QED  BY <2>1, <2>2, <2>3
<1>g. ASSUME NEW q \in Procs, NEW w \in Versions, w <= mounted[q] PROVE w <= mounted'[q]
  BY <1>f, <1>g
<1>1. CASE UNCHANGED call
  BY <1>1, <1>g, Zenon DEF CallsFollow
<1>2. ASSUME NEW p \in Procs, Exit(p) \/ End(p, "down") \/ End(p, "gone") PROVE CallsFollow'
  <2>1. PICK next \in {"down", "gone"} : End(p, next)
    BY <1>2 DEF Exit
  <2>2. /\ \A w \in Versions : call'[p][w] = NoCall
        /\ \A q \in Procs \ {p} : call'[q] = call[q]
    BY <2>1, EndType
  <2>. QED  BY <1>g, <2>2, Zenon DEF CallsFollow
<1>3. ASSUME NEW p \in Procs, call' = [call EXCEPT ![p][mounted[p]] = NewCall] PROVE CallsFollow'
  <2>1. mounted \in [Procs -> Versions] /\ call \in [Procs -> [Versions -> Call \cup {NoCall}]]
    BY Zenon DEF TypeOK
  <2>2. \A q \in Procs, w \in Versions :
            IF q = p /\ w = mounted[p] THEN call'[q][w] = NewCall ELSE call'[q][w] = call[q][w]
    BY <1>3, <2>1
  <2>3. mounted[p] <= mounted[p]
    BY <1>f
  <2>. QED  BY <1>n, <1>g, <2>1, <2>2, <2>3 DEF CallsFollow
<1>4. ASSUME NEW p \in Procs, NEW v \in Versions, NEW c \in Call \cup {NoCall}, To(p, v, c),
             c = NoCall \/ v <= c.ca, call[p][v] # NoCall
      PROVE  CallsFollow'
  <2>1. /\ call'[p][v] = c
        /\ \A q \in Procs, w \in Versions : <<q, w>> # <<p, v>> => call'[q][w] = call[q][w]
    BY <1>4, ToType
  <2>. QED  BY <1>4, <1>f, <2>1 DEF CallsFollow
<1>5. ASSUME NEW p \in Procs, NEW v \in Versions, ReadCA(p, v) PROVE CallsFollow'
  <2>n. call[p][v] # NoCall
    BY <1>5 DEF ReadCA, At
  <2>1. call[p][v] \in Call /\ mounted[p] \in Versions
    BY <2>n, CallType DEF TypeOK
  <2>. DEFINE c == [call[p][v] EXCEPT !.stage = "get", !.ca = mounted[p]]
  <2>2. c \in Call /\ c.ca = mounted[p]
    BY <2>1, ReadType
  <2>3. To(p, v, c) /\ v <= mounted[p] /\ call[p][v] # NoCall
    BY <1>5 DEF ReadCA, At, CallsFollow
  <2>. HIDE DEF c
  <2>. QED  BY <1>4, <2>1, <2>2, <2>3
<1>6. ASSUME NEW p \in Procs, NEW v \in Versions, GetHook(p, v) PROVE CallsFollow'
  <2>n. call[p][v] # NoCall
    BY <1>6 DEF GetHook, At
  <2>1. call[p][v] \in Call /\ hook \in [ca : 0..MaxVersions, rv : Nat]
    BY <2>n, CallType DEF TypeOK
  <2>. DEFINE c == [call[p][v] EXCEPT !.stage = "patch", !.base = hook]
  <2>2. c \in Call /\ c.ca = call[p][v].ca
    BY <2>1 DEF Call
  <2>3. v <= call[p][v].ca /\ call[p][v] # NoCall
    BY <1>6 DEF GetHook, At, CallsFollow
  <2>4. To(p, v, NoCall) \/ To(p, v, c)
    BY <1>6 DEF GetHook, Done
  <2>. HIDE DEF c
  <2>. QED  BY <1>4, <2>2, <2>3, <2>4
<1>7. ASSUME NEW p \in Procs, NEW v \in Versions, PatchHook(p, v) PROVE CallsFollow'
  BY <1>4, <1>7 DEF PatchHook, Done, At
<1>8. ASSUME NEW p \in Procs, NEW v \in Versions, Retry(p, v) PROVE CallsFollow'
  <2>n. call[p][v] # NoCall
    BY <1>8 DEF Retry, At
  <2>1. call[p][v] \in Call
    BY <2>n, CallType
  <2>. DEFINE c == [call[p][v] EXCEPT !.stage = "get", !.tries = call[p][v].tries + 1]
  <2>0. call[p][v].tries + 1 \in 1..Steps
    BY <1>8, <2>1 DEF Retry, Call
  <2>2. c \in Call /\ c.ca = call[p][v].ca
    BY <2>0, <2>1 DEF Call
  <2>3. v <= call[p][v].ca /\ call[p][v] # NoCall /\ To(p, v, c)
    BY <1>8 DEF Retry, At, CallsFollow
  <2>. HIDE DEF c
  <2>. QED  BY <1>4, <2>2, <2>3
<1>. QED
  BY <1>1, <1>2, <1>3, <1>5, <1>6, <1>7, <1>8
     DEF Next, Rotate, TouchHook, Mount, Ending, Crash, Retire, Exit, Serving, Start, Serve,
         ServeUnwatched, Listen, Load, Callback, GiveUp, vars

\* A callback that is done has registered a CA as new as the certificate it is for.
LEMMA DoneRegisters ==
    ASSUME TypeOK, CallsFollow, NEW p \in Procs, NEW v \in Versions,
           PatchHook(p, v) \/ (GetHook(p, v) /\ UpToDate(p, v))
    PROVE  Done(p, v) /\ hook'.ca \in 0..MaxVersions /\ v <= hook'.ca
<1>0. call[p][v] # NoCall /\ call[p][v].stage # "read"
  BY DEF PatchHook, GetHook, At
<1>1. call[p][v] \in Call /\ v <= call[p][v].ca
  BY <1>0, CallType DEF CallsFollow
<1>2. hook'.ca = call[p][v].ca
  BY DEF PatchHook, GetHook, UpToDate
<1>. QED  BY <1>1, <1>2 DEF PatchHook, GetHook, Call

LEMMA ServesKept == RegisteredInv /\ [Next]_vars => ServesRegistered'
<1>. SUFFICES ASSUME RegisteredInv, [Next]_vars, NEW q \in Procs
              PROVE  /\ status'[q] = "serving" => registered'[q] # 0
                     /\ status'[q] \in {"starting", "serving"} =>
                            call'[q][loaded'[q]] # NoCall \/ registered'[q] >= loaded'[q]
  BY DEF ServesRegistered, Runs
<1>. DEFINE Registers ==
        /\ status'[q] = "serving" => registered'[q] # 0
        /\ status'[q] \in {"starting", "serving"} =>
               call'[q][loaded'[q]] # NoCall \/ registered'[q] >= loaded'[q]
<1>. USE DEF RegisteredInv
<1>h. /\ status[q] = "serving" => registered[q] # 0
      /\ status[q] \in {"starting", "serving"} =>
             call[q][loaded[q]] # NoCall \/ registered[q] >= loaded[q]
  BY DEF ServesRegistered, Runs
<1>n. NewCall # NoCall
  BY NewCallType, NoCallAssumption
<1>t. loaded[q] \in Versions /\ registered[q] \in 0..MaxVersions
  BY DEF TypeOK
<1>0. ASSUME call'[q] = call[q], status'[q] = status[q], loaded'[q] = loaded[q],
             registered'[q] = registered[q]
      PROVE  Registers
  BY <1>0, <1>h
<1>1. ASSUME NEW p \in Procs, NEW next \in {"down", "gone"}, End(p, next) PROVE Registers
  <2>1. CASE p = q
    BY <1>1, <2>1, EndType
  <2>2. CASE p # q
    BY <1>0, <1>1, <2>2, EndType DEF End
  <2>. QED  BY <2>1, <2>2
<1>2. ASSUME NEW p \in Procs, Start(p) PROVE Registers
  BY <1>0, <1>2, <1>n DEF Start, StartCallback, TypeOK
<1>3. ASSUME NEW p \in Procs, Listen(p) PROVE Registers
  <2>1. CASE p = q
    <3>1. call[q][loaded[q]] = NoCall
      BY <1>3, <1>t, <2>1 DEF Listen, Idle, NoCalls
    <3>2. registered[q] >= loaded[q]
      BY <1>3, <1>h, <2>1, <3>1 DEF Listen
    <3>3. UNCHANGED <<loaded, registered>>
      BY <1>3 DEF Listen
    <3>. QED  BY <1>t, <3>2, <3>3
  <2>2. CASE p # q
    BY <1>0, <1>3, <2>2 DEF Listen, TypeOK
  <2>. QED  BY <2>1, <2>2
<1>4. ASSUME NEW p \in Procs, Load(p) PROVE Registers
  BY <1>0, <1>4, <1>h, <1>n DEF Load, TypeOK
<1>5. ASSUME NEW p \in Procs, NEW v \in Versions, Done(p, v), hook'.ca \in 0..MaxVersions,
             v <= hook'.ca, UNCHANGED <<loaded, status>>
      PROVE  Registers
  <2>1. /\ registered'[p] >= registered[p] /\ registered'[p] >= hook'.ca
        /\ registered' \in [Procs -> 0..MaxVersions]
        /\ \A r \in Procs \ {p} : registered'[r] = registered[r]
        /\ \A r \in Procs, w \in Versions : <<r, w>> # <<p, v>> => call'[r][w] = call[r][w]
    BY <1>5, DoneType, ToType
  <2>2. CASE p = q
    <3>1. registered'[q] \in Nat /\ hook'.ca \in Nat /\ v \in Nat
      BY <1>5, <2>1
    <3>2. status'[q] = "serving" => registered'[q] # 0
      BY <1>5, <1>h, <1>t, <2>1, <2>2, <3>1
    <3>3. CASE v = loaded[q]
      BY <1>5, <2>1, <2>2, <3>1, <3>2, <3>3
    <3>4. CASE v # loaded[q]
      BY <1>5, <1>h, <1>t, <2>1, <2>2, <3>1, <3>2, <3>4
    <3>. QED  BY <3>3, <3>4
  <2>3. CASE p # q
    BY <1>5, <1>h, <1>t, <2>1, <2>3
  <2>. QED  BY <2>2, <2>3
<1>6. ASSUME NEW p \in Procs, NEW v \in Versions, NEW c \in Call, To(p, v, c),
             UNCHANGED <<loaded, status, registered>>
      PROVE  Registers
  <2>1. /\ call'[p][v] # NoCall
        /\ \A r \in Procs, w \in Versions : <<r, w>> # <<p, v>> => call'[r][w] = call[r][w]
    BY <1>6, ToType, NoCallAssumption
  <2>2. call'[q][loaded[q]] # call[q][loaded[q]] => call'[q][loaded[q]] # NoCall
    BY <1>t, <2>1
  <2>3. UNCHANGED <<loaded, status, registered>>
    BY <1>6
  <2>. QED  BY <1>h, <2>2, <2>3
<1>7. ASSUME NEW p \in Procs, NEW v \in Versions, Callback(p, v), ~GiveUp(p, v) PROVE Registers
  <2>c. call[p][v] \in Call
    <3>1. call[p][v] # NoCall
      BY <1>7 DEF Callback, ReadCA, GetHook, PatchHook, Retry, At
    <3>. QED  BY <3>1, CallType
  <2>1. CASE ReadCA(p, v)
    <3>1. [call[p][v] EXCEPT !.stage = "get", !.ca = mounted[p]] \in Call
      BY <2>c, ReadType DEF TypeOK
    <3>. QED  BY <1>6, <2>1, <3>1 DEF ReadCA
  <2>2. CASE PatchHook(p, v) \/ (GetHook(p, v) /\ UpToDate(p, v))
    <3>1. UNCHANGED <<loaded, status>>
      BY <2>2 DEF PatchHook, GetHook
    <3>. QED  BY <1>5, <2>2, <3>1, DoneRegisters
  <2>3. CASE GetHook(p, v) /\ ~UpToDate(p, v)
    <3>1. [call[p][v] EXCEPT !.stage = "patch", !.base = hook] \in Call
      BY <2>c DEF Call, TypeOK
    <3>. QED  BY <1>6, <2>3, <3>1 DEF GetHook
  <2>4. CASE Retry(p, v)
    <3>0. call[p][v].tries + 1 \in 1..Steps
      BY <2>4, <2>c DEF Retry, Call
    <3>1. [call[p][v] EXCEPT !.stage = "get", !.tries = call[p][v].tries + 1] \in Call
      BY <3>0, <2>c DEF Call
    <3>. QED  BY <1>6, <2>4, <3>1 DEF Retry
  <2>. QED  BY <1>7, <2>1, <2>2, <2>3, <2>4 DEF Callback
<1>8. ASSUME UNCHANGED <<loaded, status, call, registered>> PROVE Registers
  BY <1>0, <1>8
<1>. HIDE DEF Registers
<1>9. Registers
  BY <1>1, <1>2, <1>3, <1>4, <1>7, <1>8
     DEF Next, Rotate, TouchHook, Mount, Ending, Crash, Retire, Exit, Serving, Serve,
         ServeUnwatched, Callback, GiveUp, vars
<1>. QED  BY <1>9 DEF Registers

\* Every process registers itself: no process accepts requests before a callback of its
\* own, since its start, has found or put a CA in the configuration, and a running
\* process whose callback for the certificate it presents is not running any more has
\* found or put one there that is as new as that certificate (server.go:191, 220).
THEOREM ServesRegisteredAlways == Spec => []ServesRegistered
<1>1. RegisteredInv /\ [Next]_vars => RegisteredInv'
  BY NextTypeOK, FilesForward, CallsFollowKept, ServesKept DEF RegisteredInv
<1>2. RegisteredInv => ServesRegistered
  BY DEF RegisteredInv
<1>. QED  BY InitRegistered, <1>1, <1>2, PTL DEF Spec

-----------------------------------------------------------------------------
(***************************************************************************)
(* No write between Get and Patch is overwritten.                          *)
(***************************************************************************)
\* What a callback got is a former configuration: the resourceVersion tells whether
\* it still is the current one.
BaseFormer ==
    \A p \in Procs, v \in Versions :
        At(p, v, "patch") =>
            /\ call[p][v].base.rv \in Nat
            /\ call[p][v].base.rv <= hook.rv
            /\ call[p][v].base.rv = hook.rv => call[p][v].base.ca = hook.ca

\* The resourceVersion grows with every write.
LEMMA HookGrows ==
    TypeOK /\ [Next]_vars => \/ hook' = hook
                             \/ hook'.rv = hook.rv + 1
<1>1. TypeOK /\ TouchHook => hook'.rv = hook.rv + 1
  BY DEF TouchHook, TypeOK
<1>2. ASSUME NEW p \in Procs, NEW v \in Versions, PatchHook(p, v) PROVE hook'.rv = hook.rv + 1
  BY <1>2 DEF PatchHook
<1>. QED
  BY <1>1, <1>2
     DEF Next, Rotate, Mount, Crash, Exit, Ending, Retire, End, Serving, Start, Serve,
         ServeUnwatched, Listen, Load, Callback, ReadCA, GetHook, Retry, GiveUp, vars

\* Only Get brings a callback to its Patch.
LEMMA PatchFromGet ==
    ASSUME TypeOK, [Next]_vars, NEW q \in Procs, NEW w \in Versions, At(q, w, "patch")'
    PROVE  \/ call'[q][w] = call[q][w]
           \/ call'[q][w].base = hook /\ hook' = hook
<1>. SUFFICES ASSUME call'[q][w] # call[q][w] PROVE call'[q][w].base = hook /\ hook' = hook
  OBVIOUS
<1>1. call'[q][w] # NoCall /\ call'[q][w].stage = "patch"
  BY DEF At
<1>2. NewCall.stage = "read"
  BY DEF NewCall
<1>3. ASSUME NEW p \in Procs, Exit(p) \/ End(p, "gone") PROVE FALSE
  <2>1. PICK next \in {"down", "gone"} : End(p, next)
    BY <1>3 DEF Exit
  <2>2. call'[q][w] = NoCall \/ call'[q] = call[q]
    BY <2>1, EndType
  <2>. QED  BY <1>1, <2>2
<1>4. ASSUME NEW p \in Procs, call' = [call EXCEPT ![p][mounted[p]] = NewCall] PROVE FALSE
  BY <1>1, <1>2, <1>4 DEF TypeOK
<1>5. ASSUME NEW p \in Procs, NEW v \in Versions, NEW c \in Call \cup {NoCall}, To(p, v, c),
             c = NoCall \/ c.stage = "get"
      PROVE  FALSE
  <2>1. /\ call'[p][v] = c
        /\ \A r \in Procs, x \in Versions : <<r, x>> # <<p, v>> => call'[r][x] = call[r][x]
    BY <1>5, ToType
  <2>. QED  BY <1>1, <1>5, <2>1
<1>6. ASSUME NEW p \in Procs, NEW v \in Versions, ReadCA(p, v) PROVE FALSE
  <2>n. call[p][v] # NoCall
    BY <1>6 DEF ReadCA, At
  <2>1. call[p][v] \in Call /\ mounted[p] \in Versions
    BY <2>n, CallType DEF TypeOK
  <2>. DEFINE c == [call[p][v] EXCEPT !.stage = "get", !.ca = mounted[p]]
  <2>2. c \in Call
    BY <2>1, ReadType
  <2>3. c.stage = "get"
    BY <2>1 DEF Call
  <2>4. To(p, v, c)
    BY <1>6 DEF ReadCA
  <2>. HIDE DEF c
  <2>. QED  BY <1>5, <2>2, <2>3, <2>4
<1>7. ASSUME NEW p \in Procs, NEW v \in Versions, Retry(p, v) PROVE FALSE
  <2>n. call[p][v] # NoCall
    BY <1>7 DEF Retry, At
  <2>1. call[p][v] \in Call
    BY <2>n, CallType
  <2>2. call[p][v].tries + 1 \in 1..Steps
    BY <1>7, <2>1 DEF Retry, Call
  <2>. DEFINE c == [call[p][v] EXCEPT !.stage = "get", !.tries = call[p][v].tries + 1]
  <2>3. c \in Call /\ c.stage = "get"
    BY <2>1, <2>2 DEF Call
  <2>4. To(p, v, c)
    BY <1>7 DEF Retry
  <2>. HIDE DEF c
  <2>. QED  BY <1>5, <2>3, <2>4
<1>8. ASSUME NEW p \in Procs, NEW v \in Versions, PatchHook(p, v) PROVE FALSE
  BY <1>5, <1>8 DEF PatchHook, Done
<1>9. ASSUME NEW p \in Procs, NEW v \in Versions, GetHook(p, v)
      PROVE  call'[q][w].base = hook /\ hook' = hook
  <2>n. call[p][v] # NoCall
    BY <1>9 DEF GetHook, At
  <2>1. call[p][v] \in Call /\ hook' = hook
    BY <1>9, <2>n, CallType DEF GetHook
  <2>2. ~UpToDate(p, v)
    BY <1>5, <1>9 DEF GetHook, Done
  <2>. DEFINE c == [call[p][v] EXCEPT !.stage = "patch", !.base = hook]
  <2>3. c \in Call /\ c.base = hook
    BY <2>1 DEF Call, TypeOK
  <2>4. /\ call'[p][v] = c
        /\ \A r \in Procs, x \in Versions : <<r, x>> # <<p, v>> => call'[r][x] = call[r][x]
    BY <1>9, <2>2, <2>3, ToType DEF GetHook
  <2>. HIDE DEF c
  <2>. QED  BY <2>1, <2>3, <2>4
<1>. QED
  BY <1>3, <1>4, <1>6, <1>7, <1>8, <1>9
     DEF Next, Rotate, TouchHook, Mount, Ending, Crash, Retire, Exit, Serving, Start, Serve,
         ServeUnwatched, Listen, Load, Callback, GiveUp, vars

LEMMA BaseFormerKept == TypeOK /\ BaseFormer /\ [Next]_vars => BaseFormer'
<1>. SUFFICES ASSUME TypeOK, BaseFormer, [Next]_vars,
                     NEW q \in Procs, NEW w \in Versions, At(q, w, "patch")'
              PROVE  /\ call'[q][w].base.rv \in Nat
                     /\ call'[q][w].base.rv <= hook'.rv
                     /\ call'[q][w].base.rv = hook'.rv => call'[q][w].base.ca = hook'.ca
  BY DEF BaseFormer
<1>0. hook.rv \in Nat
  BY DEF TypeOK
<1>1. CASE call'[q][w].base = hook /\ hook' = hook
  BY <1>0, <1>1
<1>2. CASE call'[q][w] = call[q][w]
  <2>1. /\ call[q][w].base.rv \in Nat
        /\ call[q][w].base.rv <= hook.rv
        /\ call[q][w].base.rv = hook.rv => call[q][w].base.ca = hook.ca
    BY <1>2 DEF At, BaseFormer
  <2>. QED  BY <1>0, <1>2, <2>1, HookGrows
<1>. QED  BY <1>1, <1>2, PatchFromGet

\* Whatever runs side by side, a Patch replaces only the CA its callback has read:
\* an equal resourceVersion means that nobody has written since Get (callback.go:57-69).
THEOREM NoBlindOverwriteAlways == Spec => NoBlindOverwrite
<1>. DEFINE IInv == TypeOK /\ BaseFormer
<1>1. Init => IInv
  BY InitTypeOK DEF Init, NoCalls, At, BaseFormer
<1>2. IInv /\ [Next]_vars => IInv'
  BY NextTypeOK, BaseFormerKept
<1>3. IInv => \A p \in Procs, v \in Versions : PatchHook(p, v) => hook.ca = call[p][v].base.ca
  BY DEF PatchHook, Conflict, BaseFormer
<1>4. IInv /\ [Next]_vars
      => [\A p \in Procs, v \in Versions : PatchHook(p, v) => hook.ca = call[p][v].base.ca]_vars
  BY <1>3
<1>. QED  BY <1>1, <1>2, <1>4, PTL DEF Spec, NoBlindOverwrite
=============================================================================
