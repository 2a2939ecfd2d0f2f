--------------------------- MODULE WorkerPoolProofs ---------------------------
(***************************************************************************)
(* Proofs about WorkerPool, for any number of connections, workers and     *)
(* helper threads and any size of the queue, the rings and the caps: the   *)
(* pool's counts and shared blocks are right, no wakeup is lost, a late    *)
(* answer changes nobody's identity, and a late password check makes       *)
(* nobody an operator.                                                     *)
(*                                                                         *)
(* The invariant is in four layers, each proved from those before it: the  *)
(* pool itself, the wakeups, the identities and the password checks.       *)
(***************************************************************************)
EXTENDS WorkerPool, FiniteSetTheorems, SequenceTheorems, TLAPS

(***************************************************************************)
(* The pool: types, counts and references.                                 *)
(***************************************************************************)
\* The worker is between Dequeue and Push: what it has in job[w] is a job.
BusyAt == {"run", "scryptWait", "scrypt", "uncount", "spawn", "waitCall", "release", "push"}
Busy == {w \in Worker : pc[w] \in BusyAt}
Calling == {w \in Worker : pc[w] \in {"waitCall", "release"}}
PcAt(A) == {w \in Worker : pc[w] \in A}
HelperAt(A) == {h \in Call : helper[h] \in A}

Jobs ==
    /\ \A w \in Worker : IF w \in Busy THEN job[w] \in Job ELSE job[w] = NoJob
    /\ \A w \in PcAt({"scryptWait", "scrypt"}) : job[w].type = "auth"
Slots == scryptRunning = Cardinality(PcAt({"scrypt"}))
Started ==
    Cardinality(HelperAt({"resolving", "answered"})) + Cardinality(PcAt({"spawn"})) <= MaxHelpers
\* One reference for a helper that has not let go, and one for the worker that waits for it.
Holds(h) == \E w \in Calling : call[w] = h
References ==
    /\ \A w \in Calling : call[w] \in Call
    /\ \A v, w \in Calling : call[v] = call[w] => v = w
    /\ \A h \in Call :
        refs[h] = (IF helper[h] # "none" THEN 1 ELSE 0) + (IF Holds(h) THEN 1 ELSE 0)
AuthRoom == \A c \in Conn : authPending[c] => authGen[c] <= play.auths
PoolInv == TypeOK /\ Jobs /\ Slots /\ HelperCount /\ Started /\ References /\ AuthRoom

(***************************************************************************)
(* Wakeups: whoever waits for a scrypt slot is matched by a hash that runs *)
(* or by a worker that was woken and has not looked yet.                   *)
(***************************************************************************)
AuthRunners == {w \in Worker : Running(w, {"auth"})}
SlotsClaimed ==
    PcAt({"scryptWait"}) # {} => scryptRunning + Cardinality(AuthRunners) >= ScryptMax
WakeInv == QueueServed /\ SlotsClaimed /\ ResultAnnounced

(***************************************************************************)
(* Identities: a gateway's client has no lookup pending and gets no other. *)
(***************************************************************************)
IdentityInv ==
    /\ \A c \in Conn : registered[c] => got[c]
    /\ \A c \in Conn : webirc[c] => pending[c] = {} /\ conn[c] # "new"
    /\ todo # << >> => ~webirc[todo[1]]

(***************************************************************************)
(* Password checks: each is in one place only, none is ahead of its        *)
(* connection, and one that has the current number is waited for.          *)
(***************************************************************************)
Places ==
    ({"queue"} \X DOMAIN queue) \cup ({"worker"} \X Busy)
        \cup ({"ring"} \X DOMAIN ring) \cup ({"batch"} \X DOMAIN batch)
At(p) ==
    IF p[1] = "queue" THEN queue[p[2]]
    ELSE IF p[1] = "worker" THEN job[p[2]]
    ELSE IF p[1] = "ring" THEN ring[p[2]].job
    ELSE batch[p[2]].job
AuthAt(p) == At(p).type = "auth"
Unique == \A p, q \in Places : AuthAt(p) /\ At(p) = At(q) => p = q
Numbered ==
    \A p \in Places : AuthAt(p) =>
        /\ At(p).gen <= authGen[At(p).conn]
        /\ At(p).gen = authGen[At(p).conn] => authPending[At(p).conn]
AuthInv == Unique /\ Numbered

(***************************************************************************)
(* TypeOK in four parts.                                                   *)
(***************************************************************************)
LoopTypes ==
    /\ play \in Plays
    /\ conn \in [Conn -> {"new", "open", "quitting", "gone"}]
    /\ got \in [Conn -> BOOLEAN] /\ registered \in [Conn -> BOOLEAN]
    /\ webirc \in [Conn -> BOOLEAN] /\ oper \in [Conn -> BOOLEAN]
    /\ pending \in [Conn -> SUBSET Lookup] /\ identity \in [Conn -> SUBSET {"rdns", "ident"}]
    /\ authPending \in [Conn -> BOOLEAN] /\ authGen \in [Conn -> 0..(play.auths + 1)]
    /\ loop \in {"idle", "draining", "joining", "stopped"}
    /\ todo \in {<< >>} \cup (Conn \X (Seq(Lookup) \ {<< >>}))
    /\ running \in BOOLEAN
    /\ cancelled \in [0..(CancelRing - 1) -> Conn \cup {NoConn}] /\ cancelNext \in 0..(CancelRing - 1)
SeqTypes ==
    /\ batch \in Seq(Result) /\ ring \in Seq(Result) /\ Len(ring) < RingMax
    /\ queue \in Seq(Job) /\ Len(queue) <= QueueMax
    /\ woken \in BOOLEAN
Pc == {"idle", "asleep", "run", "scryptWait", "scrypt", "uncount", "spawn",
       "waitCall", "release", "push", "wake", "exited"}
WorkerTypes ==
    /\ pc \in [Worker -> Pc]
    /\ job \in [Worker -> Job \cup {NoJob}] /\ success \in [Worker -> BOOLEAN]
    /\ call \in [Worker -> Call \cup {NoCall}]
HelperTypes ==
    /\ scryptRunning \in 0..ScryptMax
    /\ helper \in [Call -> {"none", "resolving", "answered", "leaving"}]
    /\ refs \in [Call -> 0..2] /\ done \in [Call -> BOOLEAN]
    /\ dnsHelpers \in Nat

LEMMA TypeParts == TypeOK <=> LoopTypes /\ SeqTypes /\ WorkerTypes /\ HelperTypes
  BY DEF TypeOK, LoopTypes, SeqTypes, WorkerTypes, HelperTypes, Pc

(***************************************************************************)
(* Counting.                                                               *)
(***************************************************************************)
\* One worker's step changes the count of those at certain places by that worker.
LEMMA CountMoved ==
    ASSUME NEW W, IsFiniteSet(W), NEW S \in SUBSET W, NEW T \in SUBSET W, NEW w \in W,
           \A v \in W \ {w} : v \in T <=> v \in S
    PROVE  /\ Cardinality(S) \in Nat /\ Cardinality(T) \in Nat
           /\ Cardinality(T) = Cardinality(S) + (IF w \in T THEN 1 ELSE 0) - (IF w \in S THEN 1 ELSE 0)
<1>1. IsFiniteSet(S) /\ IsFiniteSet(T)  BY FS_Subset
<1>2. Cardinality(S) \in Nat /\ Cardinality(T) \in Nat  BY <1>1, FS_CardinalityType
<1>3. CASE w \in T /\ w \in S
  <2>1. T = S  BY <1>3
  <2> QED  BY <1>2, <1>3, <2>1
<1>4. CASE w \notin T /\ w \notin S
  <2>1. T = S  BY <1>4
  <2> QED  BY <1>2, <1>4, <2>1
<1>5. CASE w \in T /\ w \notin S
  <2>1. T = S \cup {w}  BY <1>5
  <2> QED  BY <1>1, <1>2, <1>5, <2>1, FS_AddElement
<1>6. CASE w \notin T /\ w \in S
  <2>1. T = S \ {w}  BY <1>6
  <2> QED  BY <1>1, <1>2, <1>6, <2>1, FS_RemoveElement
<1> QED  BY <1>3, <1>4, <1>5, <1>6

LEMMA CountEmpty ==
    ASSUME NEW W, IsFiniteSet(W), NEW S \in SUBSET W
    PROVE  Cardinality(S) \in Nat /\ (Cardinality(S) = 0 <=> S = {})
<1>1. IsFiniteSet(S)  BY FS_Subset
<1> QED  BY <1>1, FS_CardinalityType, FS_EmptySet

(***************************************************************************)
(* What the loop does to the workers: it wakes some.                       *)
(***************************************************************************)
LoopNext ==
    \/ \E c \in Conn :
        \/ Accept(c) \/ SendUser(c) \/ Webirc(c) \/ Oper(c)
        \/ RescueLookup(c) \/ RescueAuth(c) \/ Close(c)
    \/ SubmitLookup \/ Drain \/ Stop \/ Joined \/ Stopped
HelperNext == \E h \in Call : Answer(h) \/ HelperLeaves(h)
WakesOnly ==
    /\ pc' \in [Worker -> Pc]
    /\ \A w \in Worker : pc'[w] = pc[w] \/ (pc[w] = "asleep" /\ pc'[w] = "idle")

\* pthread_cond_signal moves one waiter or nobody.
LEMMA Signalled ==
    ASSUME NEW from, NEW to, NEW p, Signal(from, to, p)
    PROVE  \/ (\A w \in Worker : p[w] # from) /\ pc' = p
           \/ \E w \in Worker : p[w] = from /\ pc' = [p EXCEPT ![w] = to]
  BY DEF Signal

LEMMA SubmitWakes ==
    ASSUME WorkerTypes, NEW j, Submit(j) \/ Refused
    PROVE  WakesOnly
<1>1. CASE Refused  BY <1>1 DEF Refused, WakesOnly, WorkerTypes
<1>2. CASE Submit(j)
  <2>1. \/ pc' = pc
        \/ \E w \in Worker : pc[w] = "asleep" /\ pc' = [pc EXCEPT ![w] = "idle"]
    BY <1>2, Signalled DEF Submit, WakeWorker
  <2> QED  BY <2>1 DEF WakesOnly, WorkerTypes, Pc
<1> QED  BY <1>1, <1>2

LEMMA LoopWakes ==
    ASSUME WorkerTypes, LoopNext
    PROVE  WakesOnly /\ UNCHANGED <<job, success, call, scryptRunning, helper, refs, done, dnsHelpers>>
<1>1. CASE \E c \in Conn : \/ Accept(c) \/ SendUser(c) \/ Webirc(c)
                           \/ RescueLookup(c) \/ RescueAuth(c) \/ Close(c)
  BY <1>1 DEF Accept, SendUser, Webirc, RescueLookup, RescueAuth, Close, WakesOnly, WorkerTypes,
     workerVars, callVars, queueVars
<1>2. CASE \E c \in Conn : Oper(c)
  <2>1. PICK c \in Conn : Oper(c)  BY <1>2
  <2>2. \E j : Submit(j) \/ Refused  BY <2>1 DEF Oper
  <2> QED  BY <2>1, <2>2, SubmitWakes DEF Oper, workerVars, callVars
<1>3. CASE SubmitLookup
  <2>1. \E j : Submit(j) \/ Refused  BY <1>3 DEF SubmitLookup
  <2> QED  BY <1>3, <2>1, SubmitWakes DEF SubmitLookup, workerVars, callVars
<1>4. CASE Drain \/ Joined \/ Stopped
  BY <1>4 DEF Drain, DrainWake, TakeResults, ApplyResult, DrainEnd, Joined, Stopped, WakesOnly,
     WorkerTypes, vars, workerVars, callVars, queueVars
<1>5. CASE Stop
  <2>1. pc' = [w \in Worker |-> IF pc[w] = "asleep" THEN "idle" ELSE pc[w]]
    BY <1>5 DEF Stop, Broadcast
  <2> QED  BY <1>5, <2>1 DEF Stop, WakesOnly, WorkerTypes, Pc, workerVars, callVars
<1> QED  BY <1>1, <1>2, <1>3, <1>4, <1>5 DEF LoopNext

(***************************************************************************)
(* The connections and the loop.                                           *)
(***************************************************************************)
LEMMA Consts ==
    /\ QueueMax \in Nat /\ RingMax \in Nat \ {0} /\ CancelRing \in Nat \ {0}
    /\ ScryptMax \in Nat \ {0} /\ MaxHelpers \in Nat /\ BatchMax \in Nat \ {0}
    /\ IsFiniteSet(Worker) /\ IsFiniteSet(Call)
  BY Sizes, Sets

LEMMA PlayType ==
    ASSUME play \in Plays
    PROVE  play.auths \in Nat /\ play.lookups \in Seq(Lookup)
  BY PlaysType DEF Lookup

LEMMA LookupTypes ==
    ASSUME LoopTypes, todo # << >>
    PROVE  /\ todo[1] \in Conn /\ todo[2] \in Seq(Lookup) \ {<< >>} /\ Head(todo[2]) \in Lookup
           /\ Len(todo[2]) # 1 => Tail(todo[2]) \in Seq(Lookup) \ {<< >>}
<1>1. todo \in Conn \X (Seq(Lookup) \ {<< >>})  BY DEF LoopTypes
<1>2. todo[1] \in Conn /\ todo[2] \in Seq(Lookup) \ {<< >>}  BY <1>1
<1> DEFINE s == todo[2]
<1>3. s \in Seq(Lookup) /\ s # << >>  BY <1>2
<1> HIDE DEF s
<1>4. Head(s) \in Lookup /\ Tail(s) \in Seq(Lookup) /\ Len(Tail(s)) = Len(s) - 1 /\ Len(s) \in Nat
  BY <1>3, HeadTailProperties, LenProperties
<1>5. Len(s) # 1 => Len(Tail(s)) # 0  BY <1>4
<1>6. Len(s) # 1 => Tail(s) # << >>  BY <1>4, <1>5
<1> QED  BY <1>2, <1>4, <1>6 DEF s

\* client.c, net.c: flags, attempts and what is still to be submitted.
LEMMA LoopStepTypes ==
    ASSUME LoopTypes, SeqTypes, AuthRoom, LoopNext, play' = play
    PROVE  LoopTypes' /\ AuthRoom'
<1> USE DEF LoopTypes, AuthRoom
<1>1. play.auths \in Nat /\ play.lookups \in Seq(Lookup)  BY PlayType
<1>2. ASSUME NEW c \in Conn, Accept(c) PROVE LoopTypes' /\ AuthRoom'
  <2>1. todo' \in {<< >>} \cup (Conn \X (Seq(Lookup) \ {<< >>}))  BY <1>1, <1>2 DEF Accept
  <2> QED  BY <1>2, <2>1 DEF Accept, queueVars
<1>3. ASSUME NEW c \in Conn, SendUser(c) \/ Webirc(c) \/ RescueLookup(c) PROVE LoopTypes' /\ AuthRoom'
  <2>1. (pending[c] \cap {"rdns", "ident"} = {} /\ ~authPending[c]) \in BOOLEAN  OBVIOUS
  <2>2. Welcomed(c, PendingAfterRescue(c), authPending[c]) \in BOOLEAN  BY DEF Welcomed
  <2>3. PendingAfterRescue(c) \in SUBSET Lookup  BY DEF PendingAfterRescue
  <2>4. /\ UNCHANGED <<conn, authPending, authGen, oper, loop, todo, running, cancelled, cancelNext>>
    BY <1>3 DEF SendUser, Webirc, RescueLookup, queueVars
  <2>5. got' \in [Conn -> BOOLEAN] /\ registered' \in [Conn -> BOOLEAN] /\ webirc' \in [Conn -> BOOLEAN]
    <3> DEFINE b == pending[c] \cap {"rdns", "ident"} = {} /\ ~authPending[c]
               d == Welcomed(c, PendingAfterRescue(c), authPending[c])
    <3>1. CASE SendUser(c)
      <4>1. /\ got' = [got EXCEPT ![c] = TRUE] /\ registered' = [registered EXCEPT ![c] = b]
            /\ webirc' = webirc
        BY <3>1 DEF SendUser
      <4> HIDE DEF b
      <4> QED  BY <2>1, <4>1 DEF b
    <3>2. CASE Webirc(c)  BY <3>2 DEF Webirc
    <3>3. CASE RescueLookup(c)
      <4>1. got' = got /\ registered' = [registered EXCEPT ![c] = d] /\ webirc' = webirc
        BY <3>3 DEF RescueLookup
      <4> HIDE DEF d
      <4> QED  BY <2>2, <4>1 DEF d
    <3> QED  BY <1>3, <3>1, <3>2, <3>3
  <2>6. pending' \in [Conn -> SUBSET Lookup] /\ identity' \in [Conn -> SUBSET {"rdns", "ident"}]
    <3>1. CASE SendUser(c)  BY <3>1 DEF SendUser
    <3>2. CASE Webirc(c)  BY <3>2 DEF Webirc
    <3>3. CASE RescueLookup(c)  BY <2>3, <3>3 DEF RescueLookup
    <3> QED  BY <1>3, <3>1, <3>2, <3>3
  <2> QED  BY <2>4, <2>5, <2>6
<1>4. ASSUME NEW c \in Conn, Oper(c) PROVE LoopTypes' /\ AuthRoom'
  <2>1. authGen[c] \in Nat /\ authGen[c] + 1 <= play.auths  BY <1>1, <1>4 DEF Oper
  <2>2. /\ authGen' = [authGen EXCEPT ![c] = @ + 1]
        /\ authPending' = authPending \/ authPending' = [authPending EXCEPT ![c] = TRUE]
        /\ UNCHANGED <<conn, got, registered, pending, webirc, identity, oper, loop, todo>>
    BY <1>4 DEF Oper
  <2>3. UNCHANGED <<running, cancelled, cancelNext>>  BY <1>4 DEF Oper, Submit, Refused, queueVars
  <2> DEFINE A == play.auths
  <2>4. A \in Nat /\ authGen \in [Conn -> 0..(A + 1)] /\ authGen[c] + 1 <= A  BY <1>1, <2>1
  <2> HIDE DEF A
  <2>5. authGen' \in [Conn -> 0..(A + 1)]  BY <2>2, <2>4
  <2>6. authPending' \in [Conn -> BOOLEAN]  BY <2>2
  <2>7. \A d \in Conn : authPending'[d] => authGen'[d] <= play.auths
    BY <1>1, <2>1, <2>2
  <2> QED  BY <2>2, <2>3, <2>5, <2>6, <2>7 DEF A
<1>5. ASSUME NEW c \in Conn, RescueAuth(c) PROVE LoopTypes' /\ AuthRoom'
  <2>1. authGen[c] \in Nat /\ authGen[c] <= play.auths  BY <1>1, <1>5 DEF RescueAuth
  <2>2. /\ authGen' = [authGen EXCEPT ![c] = authGen[c] + 1] /\ authPending' = [authPending EXCEPT ![c] = FALSE]
        /\ UNCHANGED <<conn, got, registered, pending, webirc, identity, oper, loop, todo, running, cancelled, cancelNext>>
    BY <1>5 DEF RescueAuth, NextGen, queueVars
  <2>3. authGen' \in [Conn -> 0..(play.auths + 1)] /\ authPending' \in [Conn -> BOOLEAN]
    BY <1>1, <2>1, <2>2
  <2>4. \A d \in Conn : authPending'[d] => authGen'[d] <= play.auths
    BY <1>1, <2>1, <2>2
  <2> QED  BY <2>2, <2>3, <2>4
<1>6. ASSUME NEW c \in Conn, Close(c) PROVE LoopTypes' /\ AuthRoom'
  <2>1. cancelNext' \in 0..(CancelRing - 1)  BY <1>6, Consts DEF Close
  <2>2. cancelled' \in [0..(CancelRing - 1) -> Conn \cup {NoConn}] /\ conn' \in [Conn -> {"new", "open", "quitting", "gone"}]
    BY <1>6 DEF Close
  <2> QED  BY <1>6, <2>1, <2>2 DEF Close
<1>7. CASE SubmitLookup
  <2>1. /\ todo[1] \in Conn /\ Head(todo[2]) \in Lookup
        /\ todo' \in {<< >>} \cup (Conn \X (Seq(Lookup) \ {<< >>}))
    BY <1>7, LookupTypes DEF SubmitLookup
  <2>2. pending' \in [Conn -> SUBSET Lookup]
    <3>1. pending' = pending \/ pending' = [pending EXCEPT ![todo[1]] = @ \cup {Head(todo[2])}]
      BY <1>7 DEF SubmitLookup
    <3>2. pending \in [Conn -> SUBSET Lookup]  OBVIOUS
    <3> HIDE DEF LoopTypes
    <3> QED  BY <2>1, <3>1, <3>2
  <2>3. UNCHANGED <<running, cancelled, cancelNext>>
    BY <1>7 DEF SubmitLookup, Submit, Refused, queueVars
  <2> QED  BY <1>7, <2>1, <2>2, <2>3 DEF SubmitLookup
<1>8. CASE DrainWake \/ TakeResults \/ DrainEnd \/ Stop \/ Joined \/ Stopped
  <2>1. UNCHANGED <<loopVars, todo, cancelled, cancelNext>> /\ running' \in BOOLEAN
        /\ loop' \in {"idle", "draining", "joining", "stopped"}
    BY <1>8 DEF DrainWake, TakeResults, DrainEnd, Stop, Joined, Stopped, vars, queueVars
  <2> QED  BY <2>1 DEF loopVars
<1>9. CASE ApplyResult
  <2>1. UNCHANGED <<loop, todo, running, cancelled, cancelNext>>  BY <1>9 DEF ApplyResult, queueVars
  <2>2. CASE Stale(Head(batch).job)
    <3>1. UNCHANGED loopVars  BY <1>9, <2>2 DEF ApplyResult
    <3> QED  BY <2>1, <3>1 DEF loopVars
  <2>3. CASE ~Stale(Head(batch).job)
    <3> DEFINE j == Head(batch).job
               c == j.conn
               ok == Head(batch).ok
               a == authPending[c] /\ j.type # "auth"
               W == Welcomed(c, pending[c] \ {j.type}, a)
               o == oper[c] \/ (j.type = "auth" /\ ok)
    <3>1. batch # << >> /\ Head(batch) \in Result  BY <1>9 DEF ApplyResult, SeqTypes
    <3>2. j \in Job /\ c \in Conn /\ ok \in BOOLEAN  BY <3>1 DEF Result, Job
    <3>3. W \in BOOLEAN /\ a \in BOOLEAN /\ o \in BOOLEAN  BY <3>2 DEF Welcomed
    <3>4. /\ pending' = [pending EXCEPT ![c] = pending[c] \ {j.type}]
          /\ authPending' = [authPending EXCEPT ![c] = a]
          /\ oper' = [oper EXCEPT ![c] = o]
          /\ identity' = [identity EXCEPT ![c] = IF ok /\ j.type \in {"rdns", "ident"} THEN @ \cup {j.type} ELSE @]
          /\ conn' = [conn EXCEPT ![c] = IF j.type = "dnsbl" /\ ok THEN "quitting" ELSE @]
          /\ registered' = [registered EXCEPT ![c] = IF j.type = "dnsbl" THEN @ ELSE W]
          /\ UNCHANGED <<got, webirc, authGen>>
      BY <1>9, <2>3 DEF ApplyResult
    <3>5. a => authPending[c]  OBVIOUS
    <3> HIDE DEF j, c, ok, a, W, o
    <3>6. /\ pending' \in [Conn -> SUBSET Lookup] /\ authPending' \in [Conn -> BOOLEAN]
          /\ oper' \in [Conn -> BOOLEAN] /\ registered' \in [Conn -> BOOLEAN]
      BY <3>2, <3>3, <3>4
    <3>7. identity' \in [Conn -> SUBSET {"rdns", "ident"}] /\ conn' \in [Conn -> {"new", "open", "quitting", "gone"}]
      BY <3>2, <3>4
    <3>8. \A d \in Conn : authPending'[d] => authPending[d]  BY <3>2, <3>3, <3>4, <3>5
    <3> QED  BY <2>1, <3>4, <3>6, <3>7, <3>8
  <2> QED  BY <2>2, <2>3
<1> QED  BY <1>2, <1>3, <1>4, <1>5, <1>6, <1>7, <1>8, <1>9 DEF LoopNext, Drain

(***************************************************************************)
(* The queue and the ring.                                                 *)
(***************************************************************************)
LEMMA SubmitType ==
    ASSUME SeqTypes, NEW j \in Job, Submit(j) \/ Refused
    PROVE  queue' \in Seq(Job) /\ Len(queue') <= QueueMax
<1>1. CASE Refused  BY <1>1 DEF Refused, queueVars, SeqTypes
<1>2. CASE Submit(j)
  <2>1. queue \in Seq(Job) /\ Len(queue) < QueueMax /\ QueueMax \in Nat
    BY <1>2, Consts DEF Submit, Full, SeqTypes
  <2>2. queue' = <<j>> \o queue \/ queue' = Append(queue, j)  BY <1>2 DEF Submit
  <2> HIDE DEF Job
  <2>3. <<j>> \o queue \in Seq(Job) /\ Len(<<j>> \o queue) = Len(queue) + 1
    <3>1. <<j>> \in Seq(Job) /\ Len(<<j>>) = 1  OBVIOUS
    <3>2. \A s \in Seq(Job) : s \o queue \in Seq(Job) /\ Len(s \o queue) = Len(s) + Len(queue)
      BY <2>1, ConcatProperties
    <3> QED  BY <2>1, <3>1, <3>2
  <2>4. Append(queue, j) \in Seq(Job) /\ Len(Append(queue, j)) = Len(queue) + 1
    BY <2>1, AppendProperties
  <2>5. Len(queue) \in Nat /\ Len(queue) + 1 <= QueueMax  BY <2>1
  <2> QED  BY <2>2, <2>3, <2>4, <2>5
<1> QED  BY <1>1, <1>2

\* What Oper and SubmitLookup submit is a job.
LEMMA SubmittedJob ==
    ASSUME LoopTypes
    PROVE  /\ \A c \in Conn : authGen[c] < play.auths => [type |-> "auth", conn |-> c, gen |-> authGen[c] + 1] \in Job
           /\ \A c \in Conn, t \in Lookup : [type |-> t, conn |-> c, gen |-> 0] \in Job
<1>1. play.auths \in Nat  BY PlayType DEF LoopTypes
<1>2. \A c \in Conn : authGen[c] \in Nat  BY <1>1 DEF LoopTypes
<1> QED  BY <1>1, <1>2 DEF Job

LEMMA TakeTypes ==
    ASSUME SeqTypes, TakeResults
    PROVE  batch' \in Seq(Result) /\ ring' \in Seq(Result) /\ Len(ring') < RingMax
<1> DEFINE n == IF Len(ring) < BatchMax THEN Len(ring) ELSE BatchMax
<1>1. batch' = SubSeq(ring, 1, n) /\ ring' = SubSeq(ring, n + 1, Len(ring))  BY DEF TakeResults
<1>2. n \in 0..Len(ring) /\ Len(ring) \in Nat /\ ring \in Seq(Result) /\ Len(ring) < RingMax /\ RingMax \in Nat
  BY Consts DEF SeqTypes
<1> HIDE DEF n
<1>3. batch' \in Seq(Result)  BY <1>1, <1>2
<1>4. ring' \in Seq(Result) /\ Len(ring') <= Len(ring)  BY <1>1, <1>2
<1> QED  BY <1>2, <1>3, <1>4

LEMMA SeqStepTypes ==
    ASSUME PoolInv, Next
    PROVE  SeqTypes'
<1>1. LoopTypes /\ SeqTypes /\ Job' = Job /\ Result' = Result
  BY TypeParts DEF PoolInv, Next, Job, Result
<1>2. /\ batch \in Seq(Result) /\ ring \in Seq(Result) /\ Len(ring) < RingMax
      /\ queue \in Seq(Job) /\ Len(queue) <= QueueMax /\ woken \in BOOLEAN
  BY <1>1 DEF SeqTypes
<1>3. ASSUME NEW c \in Conn, Oper(c) PROVE SeqTypes'
  <2>1. queue' \in Seq(Job) /\ Len(queue') <= QueueMax
    BY <1>1, <1>3, SubmitType, SubmittedJob DEF Oper
  <2> QED  BY <1>1, <1>2, <1>3, <2>1 DEF Oper, ringVars, SeqTypes
<1>4. CASE SubmitLookup
  <2>1. queue' \in Seq(Job) /\ Len(queue') <= QueueMax
    BY <1>1, <1>4, SubmitType, SubmittedJob, LookupTypes DEF SubmitLookup
  <2> QED  BY <1>1, <1>2, <1>4, <2>1 DEF SubmitLookup, ringVars, SeqTypes
<1>5. CASE TakeResults
  BY <1>1, <1>2, <1>5, TakeTypes DEF TakeResults, queueVars, SeqTypes
<1>6. CASE ApplyResult
  BY <1>1, <1>2, <1>6 DEF ApplyResult, queueVars, ringVars, SeqTypes
<1>7. CASE Joined
  BY <1>1, <1>2, <1>7, Consts DEF Joined, ringVars, SeqTypes
<1>8. CASE DrainWake \/ DrainEnd \/ Stop \/ Stopped
  BY <1>1, <1>2, <1>8 DEF DrainWake, DrainEnd, Stop, Stopped, vars, queueVars, ringVars, SeqTypes
<1>9. ASSUME NEW c \in Conn,
             Accept(c) \/ SendUser(c) \/ Webirc(c) \/ RescueLookup(c) \/ RescueAuth(c) \/ Close(c)
      PROVE  SeqTypes'
  BY <1>1, <1>2, <1>9 DEF Accept, SendUser, Webirc, RescueLookup, RescueAuth, Close, queueVars, ringVars, SeqTypes
<1>10. ASSUME NEW w \in Worker, Dequeue(w) PROVE SeqTypes'
  <2>1. Tail(queue) \in Seq(Job) /\ Len(Tail(queue)) <= QueueMax
    BY <1>2, <1>10, Consts, HeadTailProperties, LenProperties DEF Dequeue
  <2> QED  BY <1>1, <1>2, <1>10, <2>1 DEF Dequeue, ringVars, SeqTypes
<1>11. ASSUME NEW w \in Worker, Push(w) PROVE SeqTypes'
  <2>1. job[w] \in Job /\ success[w] \in BOOLEAN
    BY <1>11 DEF Push, PoolInv, Jobs, Busy, BusyAt, TypeOK
  <2>2. [job |-> job[w], ok |-> success[w]] \in Result  BY <2>1 DEF Result
  <2>3. ring' \in Seq(Result) /\ Len(ring') < RingMax
    BY <1>2, <1>11, <2>2, Consts DEF Push, RingRoom
  <2> QED  BY <1>1, <1>2, <1>11, <2>3 DEF Push, queueVars, SeqTypes
<1>12. ASSUME NEW w \in Worker,
              \/ WaitForWork(w) \/ Ident(w) \/ ScryptEnter(w) \/ Scrypt(w) \/ CountHelper(w) \/ Uncount(w)
              \/ Spawn(w) \/ SpawnFails(w) \/ CallEnds(w) \/ ReleaseCall(w) \/ Wake(w)
       PROVE  SeqTypes'
  BY <1>1, <1>2, <1>12 DEF WaitForWork, Ident, ScryptEnter, Scrypt, CountHelper, Uncount, Spawn, SpawnFails,
     CallEnds, ReleaseCall, Wake, queueVars, ringVars, SeqTypes
<1>13. CASE HelperNext
  BY <1>1, <1>2, <1>13 DEF HelperNext, Answer, HelperLeaves, HelperUncounts, HelperReleases,
     queueVars, ringVars, SeqTypes
<1> QED  BY <1>3, <1>4, <1>5, <1>6, <1>7, <1>8, <1>9, <1>10, <1>11, <1>12, <1>13
         DEF Next, Step, Drain, WorkerStep, HelperNext

(***************************************************************************)
(* The workers and the helpers.                                            *)
(***************************************************************************)
Helping == {"none", "resolving", "answered", "leaving"}
Held ==
    /\ WorkerTypes /\ HelperTypes
    /\ Jobs /\ Slots /\ HelperCount /\ Started /\ References

LEMMA PoolParts == PoolInv <=> LoopTypes /\ SeqTypes /\ AuthRoom /\ Held
  BY TypeParts DEF PoolInv, Held

\* How many workers are at the places of A, after a step that takes only w there or away.
LEMMA MovedAt ==
    ASSUME NEW A, NEW w \in Worker, \A v \in Worker \ {w} : pc'[v] \in A <=> pc[v] \in A
    PROVE  /\ Cardinality(PcAt(A)) \in Nat /\ Cardinality(PcAt(A)') \in Nat
           /\ Cardinality(PcAt(A)') =
                Cardinality(PcAt(A)) + (IF pc'[w] \in A THEN 1 ELSE 0) - (IF pc[w] \in A THEN 1 ELSE 0)
<1> DEFINE S == PcAt(A)
           T == PcAt(A)'
<1>1. S \in SUBSET Worker /\ T \in SUBSET Worker /\ IsFiniteSet(Worker)  BY Consts DEF PcAt
<1>2. \A v \in Worker \ {w} : v \in T <=> v \in S  BY DEF PcAt
<1>3. (w \in T <=> pc'[w] \in A) /\ (w \in S <=> pc[w] \in A)  BY DEF PcAt
<1> HIDE DEF S, T
<1>4. /\ Cardinality(S) \in Nat /\ Cardinality(T) \in Nat
      /\ Cardinality(T) = Cardinality(S) + (IF w \in T THEN 1 ELSE 0) - (IF w \in S THEN 1 ELSE 0)
  BY <1>1, <1>2, CountMoved
<1> QED  BY <1>3, <1>4 DEF S, T

\* The same for the helper threads.
LEMMA MovedHelper ==
    ASSUME NEW A, NEW h \in Call, \A g \in Call \ {h} : helper'[g] \in A <=> helper[g] \in A
    PROVE  /\ Cardinality(HelperAt(A)) \in Nat /\ Cardinality(HelperAt(A)') \in Nat
           /\ Cardinality(HelperAt(A)') =
                Cardinality(HelperAt(A)) + (IF helper'[h] \in A THEN 1 ELSE 0) - (IF helper[h] \in A THEN 1 ELSE 0)
<1> DEFINE S == HelperAt(A)
           T == HelperAt(A)'
<1>1. S \in SUBSET Call /\ T \in SUBSET Call /\ IsFiniteSet(Call)  BY Consts DEF HelperAt
<1>2. \A g \in Call \ {h} : g \in T <=> g \in S  BY DEF HelperAt
<1>3. (h \in T <=> helper'[h] \in A) /\ (h \in S <=> helper[h] \in A)  BY DEF HelperAt
<1> HIDE DEF S, T
<1>4. /\ Cardinality(S) \in Nat /\ Cardinality(T) \in Nat
      /\ Cardinality(T) = Cardinality(S) + (IF h \in T THEN 1 ELSE 0) - (IF h \in S THEN 1 ELSE 0)
  BY <1>1, <1>2, CountMoved
<1> QED  BY <1>3, <1>4 DEF S, T

\* Counts of places and helpers are numbers.
LEMMA CountsAreNumbers ==
    ASSUME NEW A, NEW B
    PROVE  Cardinality(PcAt(A)) \in Nat /\ Cardinality(HelperAt(B)) \in Nat
<1>1. PcAt(A) \in SUBSET Worker /\ HelperAt(B) \in SUBSET Call  BY DEF PcAt, HelperAt
<1> QED  BY <1>1, Consts, CountEmpty

LEMMA HelpersCounted ==
    HelperCount <=> dnsHelpers = Cardinality(HelperAt({"resolving", "answered"})) + Cardinality(PcAt({"uncount", "spawn"}))
  BY DEF HelperCount, HelperAt, PcAt

\* The loop wakes sleepers: nothing the pool counts is asleep or idle.
LEMMA LoopHolds ==
    ASSUME Held, LoopNext, play' = play
    PROVE  Held'
<1> USE DEF Held
<1>1. WakesOnly /\ UNCHANGED <<job, success, call, scryptRunning, helper, refs, done, dnsHelpers>>
  BY LoopWakes
<1>2. Job' = Job  BY DEF Job
<1>3. \A w \in Worker : pc'[w] = pc[w] \/ (pc[w] = "asleep" /\ pc'[w] = "idle")  BY <1>1 DEF WakesOnly
<1>4. WorkerTypes' /\ HelperTypes'  BY <1>1, <1>2 DEF WakesOnly, WorkerTypes, HelperTypes
<1>5. /\ Busy' = Busy /\ Calling' = Calling /\ PcAt({"scryptWait", "scrypt"})' = PcAt({"scryptWait", "scrypt"})
      /\ PcAt({"scrypt"})' = PcAt({"scrypt"}) /\ PcAt({"spawn"})' = PcAt({"spawn"})
      /\ PcAt({"uncount", "spawn"})' = PcAt({"uncount", "spawn"})
  BY <1>3 DEF Busy, BusyAt, Calling, PcAt
<1>6. Jobs' /\ Slots'  BY <1>1, <1>2, <1>5 DEF Jobs, Slots
<1>7. HelperAt({"resolving", "answered"})' = HelperAt({"resolving", "answered"})  BY <1>1 DEF HelperAt
<1>8. HelperCount'  BY <1>1, <1>5, <1>7, HelpersCounted DEF HelperCount, HelperAt, PcAt
<1>9. Started'  BY <1>5, <1>7 DEF Started
<1>10. References'  BY <1>1, <1>5 DEF References, Holds
<1> QED  BY <1>4, <1>6, <1>8, <1>9, <1>10

\* dns_call_main: the helper is counted until it counts itself out, and holds the block until it leaves.
LEMMA HelperHolds ==
    ASSUME Held, HelperNext, play' = play
    PROVE  Held'
<1> USE DEF Held
<1>1. PICK h \in Call : Answer(h) \/ HelperLeaves(h)  BY DEF HelperNext
<1>2. UNCHANGED <<pc, job, success, call, scryptRunning>>
  BY <1>1 DEF Answer, HelperLeaves, HelperUncounts, HelperReleases, workerVars
<1>3. Job' = Job  BY DEF Job
<1>4. WorkerTypes' /\ Jobs' /\ Slots'
  BY <1>2, <1>3 DEF WorkerTypes, Jobs, Busy, PcAt, Slots
<1>5. \A A : PcAt(A)' = PcAt(A)  BY <1>2 DEF PcAt
<1>6. Calling' = Calling /\ \A g \in Call : Holds(g)' <=> Holds(g)  BY <1>2 DEF Calling, Holds
<1> DEFINE A == {"resolving", "answered"}
<1>7. helper \in [Call -> Helping] /\ refs \in [Call -> 0..2] /\ done \in [Call -> BOOLEAN] /\ dnsHelpers \in Nat
  BY DEF HelperTypes, Helping
<1>8. /\ helper' \in [Call -> Helping] /\ done' \in [Call -> BOOLEAN]
      /\ \A g \in Call \ {h} : helper'[g] = helper[g] /\ refs'[g] = refs[g]
  BY <1>1, <1>7 DEF Answer, HelperLeaves, HelperUncounts, HelperReleases, Helping
<1>9. /\ Cardinality(HelperAt(A)) \in Nat /\ Cardinality(HelperAt(A)') \in Nat
      /\ Cardinality(HelperAt(A)') = Cardinality(HelperAt(A))
            + (IF helper'[h] \in A THEN 1 ELSE 0) - (IF helper[h] \in A THEN 1 ELSE 0)
  BY <1>8, MovedHelper
<1>10. Cardinality(HelperAt(A)') - Cardinality(HelperAt(A)) = dnsHelpers' - dnsHelpers
  <2>1. CASE Answer(h)
    BY <1>7, <1>9, <2>1 DEF Answer
  <2>2. CASE HelperUncounts(h)
    BY <1>7, <1>9, <2>2 DEF HelperUncounts
  <2>3. CASE HelperReleases(h)
    BY <1>7, <1>9, <2>3 DEF HelperReleases
  <2> QED  BY <1>1, <2>1, <2>2, <2>3 DEF HelperLeaves
<1>11. dnsHelpers' \in Int /\ Cardinality(HelperAt(A)') <= Cardinality(HelperAt(A))
  <2>1. CASE Answer(h)
    BY <1>7, <1>9, <2>1 DEF Answer
  <2>2. CASE HelperUncounts(h)
    BY <1>7, <1>9, <2>2 DEF HelperUncounts
  <2>3. CASE HelperReleases(h)
    BY <1>7, <1>9, <2>3 DEF HelperReleases
  <2> QED  BY <1>1, <2>1, <2>2, <2>3 DEF HelperLeaves
<1> HIDE DEF A
<1>12. dnsHelpers' = Cardinality(HelperAt(A)') + Cardinality(PcAt({"uncount", "spawn"})')
  <2>1. dnsHelpers = Cardinality(HelperAt(A)) + Cardinality(PcAt({"uncount", "spawn"}))
    BY HelpersCounted DEF A
  <2>2. Cardinality(PcAt({"uncount", "spawn"})) \in Nat  BY CountsAreNumbers
  <2> QED  BY <1>5, <1>7, <1>9, <1>10, <1>11, <2>1, <2>2
<1>13. HelperCount' /\ dnsHelpers' \in Nat
  <2>1. Cardinality(PcAt({"uncount", "spawn"})) \in Nat  BY CountsAreNumbers
  <2>2. dnsHelpers' \in Nat  BY <1>5, <1>9, <1>12, <2>1
  <2>3. HelperCount'  BY <1>12 DEF A, HelperCount, HelperAt, PcAt
  <2> QED  BY <2>2, <2>3
<1>14. Started'
  <2>1. Cardinality(PcAt({"spawn"})) \in Nat  BY CountsAreNumbers
  <2> QED  BY <1>5, <1>9, <1>11, <2>1, Consts DEF Started, A
<1>15. refs' \in [Call -> Int] /\ refs'[h] = (IF helper'[h] # "none" THEN 1 ELSE 0) + (IF Holds(h) THEN 1 ELSE 0)
  <2>1. refs[h] = (IF helper[h] # "none" THEN 1 ELSE 0) + (IF Holds(h) THEN 1 ELSE 0)
    BY DEF References
  <2> DEFINE k == IF Holds(h) THEN 1 ELSE 0
  <2>2. k \in {0, 1}  OBVIOUS
  <2> HIDE DEF k
  <2>3. CASE Answer(h)
    BY <1>7, <2>1, <2>2, <2>3 DEF Answer, k
  <2>4. CASE HelperUncounts(h)
    BY <1>7, <2>1, <2>2, <2>4 DEF HelperUncounts, k
  <2>5. CASE HelperReleases(h)
    BY <1>7, <2>1, <2>2, <2>5 DEF HelperReleases, k
  <2> QED  BY <1>1, <2>3, <2>4, <2>5 DEF HelperLeaves
<1>16. References'
  <2>1. \A g \in Call : refs'[g] = (IF helper'[g] # "none" THEN 1 ELSE 0) + (IF Holds(g)' THEN 1 ELSE 0)
    BY <1>6, <1>8, <1>15 DEF References
  <2> QED  BY <1>2, <1>6, <2>1 DEF References
<1>17. refs' \in [Call -> 0..2]  BY <1>15, <1>16 DEF References
<1> QED  BY <1>2, <1>4, <1>8, <1>13, <1>14, <1>16, <1>17 DEF HelperTypes, Helping

(***************************************************************************)
(* A worker's step.                                                        *)
(***************************************************************************)
\* A step that takes only worker w somewhere keeps the counts it is not part of.
LEMMA CallsKept ==
    ASSUME References, UNCHANGED <<call, helper, refs>>, Calling' = Calling
    PROVE  References'
  BY DEF References, Holds

\* worker_main outside of the two kinds of job that count: the queue, the ident lookup and the ring.
LEMMA PlainHolds ==
    ASSUME Held, SeqTypes, play' = play, NEW w \in Worker,
           Dequeue(w) \/ WaitForWork(w) \/ Ident(w) \/ Push(w) \/ Wake(w)
    PROVE  Held'
<1> USE DEF Held
<1> DEFINE Plain == {"idle", "asleep", "run", "push", "wake", "exited"}
<1>1. Job' = Job  BY DEF Job
<1>2. UNCHANGED <<call, scryptRunning, helper, refs, done, dnsHelpers>>
  BY DEF Dequeue, WaitForWork, Ident, Push, Wake, workerVars, callVars
<1>3. pc \in [Worker -> Pc] /\ job \in [Worker -> Job \cup {NoJob}] /\ success \in [Worker -> BOOLEAN]
  BY DEF WorkerTypes
<1>4. /\ pc[w] \in Plain /\ pc'[w] \in Plain /\ pc' \in [Worker -> Pc]
      /\ \A v \in Worker \ {w} : pc'[v] = pc[v] /\ job'[v] = job[v]
      /\ success' \in [Worker -> BOOLEAN]
  BY <1>3 DEF Dequeue, WaitForWork, Ident, Push, Wake, Goto, workerVars, Running, AfterPush, Pc
<1>5. /\ Calling' = Calling /\ PcAt({"scryptWait", "scrypt"})' = PcAt({"scryptWait", "scrypt"})
      /\ PcAt({"scrypt"})' = PcAt({"scrypt"}) /\ PcAt({"spawn"})' = PcAt({"spawn"})
      /\ PcAt({"uncount", "spawn"})' = PcAt({"uncount", "spawn"})
  BY <1>4 DEF Calling, PcAt
<1>6. job' \in [Worker -> Job \cup {NoJob}] /\ (IF pc'[w] \in BusyAt THEN job'[w] \in Job ELSE job'[w] = NoJob)
  <2>1. IF pc[w] \in BusyAt THEN job[w] \in Job ELSE job[w] = NoJob  BY DEF Jobs, Busy
  <2>2. CASE Dequeue(w)
    <3>1. queue # << >> /\ queue \in Seq(Job)  BY <2>2 DEF Dequeue, SeqTypes
    <3>2. Head(queue) \in Job  BY <3>1
    <3> QED  BY <1>3, <2>1, <2>2, <3>2 DEF Dequeue, Goto, BusyAt
  <2>3. CASE WaitForWork(w) \/ Ident(w) \/ Wake(w)
    BY <1>3, <2>1, <2>3 DEF WaitForWork, Ident, Wake, Goto, workerVars, Running, BusyAt
  <2>4. CASE Push(w)
    BY <1>3, <2>1, <2>4 DEF Push, Goto, AfterPush, BusyAt
  <2> QED  BY <2>2, <2>3, <2>4
<1>7. Jobs'
  <2>1. \A v \in Worker : IF v \in Busy' THEN job'[v] \in Job' ELSE job'[v] = NoJob
    BY <1>1, <1>4, <1>6 DEF Jobs, Busy
  <2>2. \A v \in PcAt({"scryptWait", "scrypt"})' : job'[v].type = "auth"
    BY <1>4, <1>5 DEF Jobs, PcAt
  <2> QED  BY <2>1, <2>2 DEF Jobs
<1>8. WorkerTypes' /\ HelperTypes'  BY <1>1, <1>2, <1>4, <1>6 DEF WorkerTypes, HelperTypes
<1>9. Slots'  BY <1>2, <1>5 DEF Slots
<1>10. HelperAt({"resolving", "answered"})' = HelperAt({"resolving", "answered"})  BY <1>2 DEF HelperAt
<1>11. HelperCount'  BY <1>2, <1>5, <1>10, HelpersCounted DEF HelperCount, HelperAt, PcAt
<1>12. Started'  BY <1>5, <1>10 DEF Started
<1>13. References'  BY <1>2, <1>5, CallsKept
<1> QED  BY <1>7, <1>8, <1>9, <1>11, <1>12, <1>13

\* scrypt_leave: the worker moves on, and one that waits for a slot is woken, or nobody waits.
LEMMA ScryptMoves ==
    ASSUME WorkerTypes, NEW w \in Worker, Scrypt(w)
    PROVE  /\ pc' \in [Worker -> Pc] /\ pc[w] = "scrypt" /\ pc'[w] = "push"
           /\ \/ /\ \A v \in Worker \ {w} : pc'[v] = pc[v]
                 /\ \A v \in Worker : pc'[v] # "scryptWait"
              \/ \E v \in Worker \ {w} :
                    /\ pc[v] = "scryptWait" /\ pc'[v] = "run"
                    /\ \A u \in Worker \ {v, w} : pc'[u] = pc[u]
<1> DEFINE p == [pc EXCEPT ![w] = "push"]
<1>1. \/ (\A v \in Worker : p[v] # "scryptWait") /\ pc' = p
      \/ \E v \in Worker : p[v] = "scryptWait" /\ pc' = [p EXCEPT ![v] = "run"]
  <2>1. Signal("scryptWait", "run", p)  BY DEF Scrypt, LeaveScrypt
  <2> HIDE DEF p
  <2> QED  BY <2>1, Signalled
<1>2. pc \in [Worker -> Pc] /\ pc[w] = "scrypt"  BY DEF Scrypt, WorkerTypes
<1>3. p \in [Worker -> Pc] /\ p[w] = "push" /\ \A v \in Worker \ {w} : p[v] = pc[v]
  BY <1>2 DEF Pc
<1> HIDE DEF p
<1>4. CASE (\A v \in Worker : p[v] # "scryptWait") /\ pc' = p
  BY <1>2, <1>3, <1>4
<1>5. ASSUME NEW v \in Worker, p[v] = "scryptWait", pc' = [p EXCEPT ![v] = "run"]
      PROVE  /\ pc' \in [Worker -> Pc] /\ pc'[w] = "push"
             /\ v # w /\ pc[v] = "scryptWait" /\ pc'[v] = "run"
             /\ \A u \in Worker \ {v, w} : pc'[u] = pc[u]
  BY <1>3, <1>5 DEF Pc
<1> QED  BY <1>1, <1>2, <1>4, <1>5

\* scrypt_enter and scrypt_leave: the counter is the number of workers that hash.
LEMMA ScryptHolds ==
    ASSUME Held, play' = play, NEW w \in Worker, ScryptEnter(w) \/ Scrypt(w)
    PROVE  Held'
<1> USE DEF Held
<1>1. Job' = Job  BY DEF Job
<1>2. UNCHANGED <<job, call, helper, refs, done, dnsHelpers>>
  BY DEF ScryptEnter, Scrypt, workerVars, callVars
<1>3. pc \in [Worker -> Pc] /\ success \in [Worker -> BOOLEAN] /\ scryptRunning \in 0..ScryptMax
  BY DEF WorkerTypes, HelperTypes
<1>4. /\ pc' \in [Worker -> Pc] /\ success' \in [Worker -> BOOLEAN]
      /\ \A v \in Worker \ {w} : pc'[v] = pc[v] \/ (pc[v] = "scryptWait" /\ pc'[v] = "run")
      /\ \/ pc[w] = "run" /\ job[w].type = "auth" /\ pc'[w] = "scryptWait" /\ scryptRunning' = scryptRunning
         \/ /\ pc[w] = "run" /\ job[w].type = "auth" /\ pc'[w] = "scrypt"
            /\ scryptRunning' = scryptRunning + 1 /\ scryptRunning < ScryptMax
         \/ pc[w] = "scrypt" /\ pc'[w] = "push" /\ scryptRunning' = scryptRunning - 1
  <2>1. CASE ScryptEnter(w)
    BY <1>3, <2>1, Consts DEF ScryptEnter, Goto, Running, workerVars, Pc
  <2>2. CASE Scrypt(w)
    BY <1>3, <2>2, ScryptMoves DEF Scrypt
  <2> QED  BY <2>1, <2>2
<1>5. Busy' = Busy /\ Calling' = Calling
      /\ PcAt({"spawn"})' = PcAt({"spawn"}) /\ PcAt({"uncount", "spawn"})' = PcAt({"uncount", "spawn"})
  BY <1>4 DEF Busy, BusyAt, Calling, PcAt
<1>6. Jobs'
  <2>1. \A v \in PcAt({"scryptWait", "scrypt"})' : job[v].type = "auth"
    BY <1>4 DEF Jobs, PcAt
  <2> QED  BY <1>1, <1>2, <1>5, <2>1 DEF Jobs
<1>7. scryptRunning' = Cardinality(PcAt({"scrypt"})') /\ scryptRunning' \in Nat
  <2>1. /\ Cardinality(PcAt({"scrypt"})') \in Nat
        /\ Cardinality(PcAt({"scrypt"})') = Cardinality(PcAt({"scrypt"}))
              + (IF pc'[w] \in {"scrypt"} THEN 1 ELSE 0) - (IF pc[w] \in {"scrypt"} THEN 1 ELSE 0)
    BY <1>4, MovedAt
  <2> QED  BY <1>3, <1>4, <2>1 DEF Slots
<1>8. WorkerTypes' /\ HelperTypes'
  BY <1>1, <1>2, <1>3, <1>4, <1>7, Consts DEF WorkerTypes, HelperTypes
<1>9. HelperAt({"resolving", "answered"})' = HelperAt({"resolving", "answered"})  BY <1>2 DEF HelperAt
<1>10. HelperCount'  BY <1>2, <1>5, <1>9, HelpersCounted DEF HelperCount, HelperAt, PcAt
<1>11. Started'  BY <1>5, <1>9 DEF Started
<1>12. References'  BY <1>2, <1>5, CallsKept
<1>13. Slots'  BY <1>7 DEF Slots
<1> QED  BY <1>6, <1>8, <1>10, <1>11, <1>12, <1>13

\* The count of helpers goes up before the cap is checked, and down again when no helper was started.
LEMMA CountHolds ==
    ASSUME Held, play' = play, NEW w \in Worker, CountHelper(w) \/ Uncount(w) \/ SpawnFails(w)
    PROVE  Held'
<1> USE DEF Held
<1>1. Job' = Job  BY DEF Job
<1>2. UNCHANGED <<job, success, call, scryptRunning, helper, refs, done>>
  BY DEF CountHelper, Uncount, SpawnFails, workerVars, callVars
<1>3. pc \in [Worker -> Pc] /\ dnsHelpers \in Nat
  BY DEF WorkerTypes, HelperTypes
<1>4. /\ pc' \in [Worker -> Pc] /\ dnsHelpers' \in Int
      /\ \A v \in Worker \ {w} : pc'[v] = pc[v]
      /\ \/ pc[w] = "run" /\ pc'[w] = "uncount" /\ dnsHelpers' = dnsHelpers + 1
         \/ pc[w] = "run" /\ pc'[w] = "spawn" /\ dnsHelpers' = dnsHelpers + 1 /\ dnsHelpers < MaxHelpers
         \/ pc[w] = "uncount" /\ pc'[w] = "push" /\ dnsHelpers' = dnsHelpers - 1
         \/ pc[w] = "spawn" /\ pc'[w] = "uncount" /\ dnsHelpers' = dnsHelpers
  BY <1>3, Consts DEF CountHelper, Uncount, SpawnFails, Goto, Running, OverCap, CountBack, callVars, Pc
<1>5. Busy' = Busy /\ Calling' = Calling /\ PcAt({"scrypt"})' = PcAt({"scrypt"})
      /\ PcAt({"scryptWait", "scrypt"})' = PcAt({"scryptWait", "scrypt"})
  BY <1>4 DEF Busy, BusyAt, Calling, PcAt
<1>6. Jobs' /\ Slots'  BY <1>1, <1>2, <1>5 DEF Jobs, Slots
<1> DEFINE N == Cardinality(HelperAt({"resolving", "answered"}))
           U == Cardinality(PcAt({"uncount", "spawn"}))
           V == Cardinality(PcAt({"spawn"}))
<1>7. N' = N /\ N \in Nat /\ U \in Nat /\ V \in Nat
  <2>1. HelperAt({"resolving", "answered"})' = HelperAt({"resolving", "answered"})  BY <1>2 DEF HelperAt
  <2> QED  BY <2>1, CountsAreNumbers
<1>8. /\ U' \in Nat
      /\ U' = U + (IF pc'[w] \in {"uncount", "spawn"} THEN 1 ELSE 0) - (IF pc[w] \in {"uncount", "spawn"} THEN 1 ELSE 0)
  BY <1>4, MovedAt
<1>9. /\ V' \in Nat
      /\ V' = V + (IF pc'[w] \in {"spawn"} THEN 1 ELSE 0) - (IF pc[w] \in {"spawn"} THEN 1 ELSE 0)
  BY <1>4, MovedAt
<1>10. V <= U
  <2>1. PcAt({"spawn"}) \subseteq PcAt({"uncount", "spawn"}) /\ PcAt({"uncount", "spawn"}) \subseteq Worker
    BY DEF PcAt
  <2>2. IsFiniteSet(PcAt({"uncount", "spawn"}))  BY <2>1, Consts, FS_Subset
  <2> QED  BY <2>1, <2>2, FS_Subset
<1>11. dnsHelpers = N + U /\ N + V <= MaxHelpers  BY HelpersCounted DEF Started
<1> HIDE DEF N, U, V
<1>12. dnsHelpers' = N' + U' /\ dnsHelpers' \in Nat  BY <1>3, <1>4, <1>7, <1>8, <1>11
<1>13. N' + V' <= MaxHelpers  BY <1>4, <1>7, <1>9, <1>10, <1>11, Consts
<1>14. HelperCount'  BY <1>12 DEF N, U, HelperCount, HelperAt, PcAt
<1>15. Started'  BY <1>13 DEF N, V, Started
<1>16. WorkerTypes' /\ HelperTypes'  BY <1>1, <1>2, <1>4, <1>12 DEF WorkerTypes, HelperTypes
<1>17. References'  BY <1>2, <1>5, CallsKept
<1> QED  BY <1>6, <1>14, <1>15, <1>16, <1>17

\* dns_with_timeout: a worker starts a helper, waits for it, and lets go of the block.
LEMMA SpawnHolds ==
    ASSUME Held, play' = play, NEW w \in Worker, Spawn(w)
    PROVE  Held'
<1> USE DEF Held
<1>1. Job' = Job  BY DEF Job
<1>2. pc \in [Worker -> Pc] /\ call \in [Worker -> Call \cup {NoCall}] /\ helper \in [Call -> Helping]
      /\ refs \in [Call -> 0..2] /\ done \in [Call -> BOOLEAN] /\ dnsHelpers \in Nat
  BY DEF WorkerTypes, HelperTypes, Helping
<1>3. PICK h \in Call :
        /\ helper[h] = "none" /\ refs[h] = 0
        /\ helper' = [helper EXCEPT ![h] = "resolving"] /\ refs' = [refs EXCEPT ![h] = 2]
        /\ done' = [done EXCEPT ![h] = FALSE] /\ call' = [call EXCEPT ![w] = h]
        /\ pc[w] = "spawn" /\ pc' = [pc EXCEPT ![w] = "waitCall"]
        /\ UNCHANGED <<job, success, scryptRunning, dnsHelpers>>
  <2>1. FreeCall # {} /\ FreeCall \in SUBSET Call  BY DEF Spawn, FreeCall
  <2>2. (CHOOSE x \in FreeCall : TRUE) \in FreeCall  BY <2>1
  <2> DEFINE h == CHOOSE x \in FreeCall : TRUE
  <2>3. h \in Call /\ helper[h] = "none" /\ refs[h] = 0  BY <2>2 DEF FreeCall
  <2>4. /\ helper' = [helper EXCEPT ![h] = "resolving"] /\ refs' = [refs EXCEPT ![h] = 2]
        /\ done' = [done EXCEPT ![h] = FALSE] /\ call' = [call EXCEPT ![w] = h]
        /\ pc[w] = "spawn" /\ pc' = [pc EXCEPT ![w] = "waitCall"]
        /\ UNCHANGED <<job, success, scryptRunning, dnsHelpers>>
    BY DEF Spawn, Goto, InitialRefs
  <2> HIDE DEF h
  <2> QED  BY <2>3, <2>4
<1>4. WorkerTypes'  BY <1>1, <1>2, <1>3 DEF WorkerTypes, Pc
<1>5. HelperTypes'  BY <1>2, <1>3 DEF HelperTypes, Helping
<1>6. \A v \in Worker \ {w} : pc'[v] = pc[v] /\ call'[v] = call[v]  BY <1>2, <1>3
<1>7. pc'[w] = "waitCall" /\ call'[w] = h  BY <1>2, <1>3
<1>8. Busy' = Busy /\ PcAt({"scrypt"})' = PcAt({"scrypt"})
      /\ PcAt({"scryptWait", "scrypt"})' = PcAt({"scryptWait", "scrypt"})
  BY <1>3, <1>6, <1>7 DEF Busy, BusyAt, PcAt
<1>9. Jobs' /\ Slots'  BY <1>1, <1>3, <1>8 DEF Jobs, Slots
<1> DEFINE N == Cardinality(HelperAt({"resolving", "answered"}))
           U == Cardinality(PcAt({"uncount", "spawn"}))
           V == Cardinality(PcAt({"spawn"}))
<1>10. N \in Nat /\ N' = N + 1
  <2>1. \A g \in Call \ {h} : helper'[g] \in {"resolving", "answered"} <=> helper[g] \in {"resolving", "answered"}
    BY <1>2, <1>3
  <2>2. helper[h] = "none" /\ helper'[h] = "resolving"  BY <1>2, <1>3
  <2>3. /\ N \in Nat /\ N' \in Nat
        /\ N' = N + (IF helper'[h] \in {"resolving", "answered"} THEN 1 ELSE 0)
                  - (IF helper[h] \in {"resolving", "answered"} THEN 1 ELSE 0)
    BY <2>1, MovedHelper
  <2> HIDE DEF N
  <2> QED  BY <2>2, <2>3
<1>11. U \in Nat /\ U' = U - 1
  <2>1. /\ U \in Nat /\ U' \in Nat
        /\ U' = U + (IF pc'[w] \in {"uncount", "spawn"} THEN 1 ELSE 0) - (IF pc[w] \in {"uncount", "spawn"} THEN 1 ELSE 0)
    BY <1>6, MovedAt
  <2> HIDE DEF U
  <2> QED  BY <1>3, <1>7, <2>1
<1>12. V \in Nat /\ V' = V - 1
  <2>1. /\ V \in Nat /\ V' \in Nat
        /\ V' = V + (IF pc'[w] \in {"spawn"} THEN 1 ELSE 0) - (IF pc[w] \in {"spawn"} THEN 1 ELSE 0)
    BY <1>6, MovedAt
  <2> HIDE DEF V
  <2> QED  BY <1>3, <1>7, <2>1
<1>13. dnsHelpers = N + U /\ N + V <= MaxHelpers  BY HelpersCounted DEF Started
<1> HIDE DEF N, U, V
<1>14. dnsHelpers' = N' + U'  BY <1>3, <1>10, <1>11, <1>13
<1>15. N' + V' <= MaxHelpers  BY <1>10, <1>12, <1>13, Consts
<1>16. HelperCount'  BY <1>14 DEF N, U, HelperCount, HelperAt, PcAt
<1>17. Started'  BY <1>15 DEF N, V, Started
<1>18. References'
  <2>1. Calling' = Calling \cup {w} /\ w \notin Calling  BY <1>3, <1>6, <1>7 DEF Calling
  <2>2. \A v \in Calling : call[v] \in Call /\ call[v] # h
    BY <1>3 DEF References, Holds
  <2>3. \A v \in Calling : call'[v] = call[v]  BY <1>6, <2>1 DEF Calling
  <2>4. /\ \A v \in Calling' : call'[v] \in Call
        /\ \A u, v \in Calling' : call'[u] = call'[v] => u = v
    BY <1>7, <2>1, <2>2, <2>3 DEF References
  <2>5. Holds(h)' /\ \A g \in Call \ {h} : Holds(g)' <=> Holds(g)
    BY <1>7, <2>1, <2>2, <2>3 DEF Holds
  <2>6. \A g \in Call : refs'[g] = (IF helper'[g] # "none" THEN 1 ELSE 0) + (IF Holds(g)' THEN 1 ELSE 0)
    BY <1>2, <1>3, <2>5 DEF References
  <2> QED  BY <2>4, <2>6 DEF References
<1> QED  BY <1>4, <1>5, <1>9, <1>16, <1>17, <1>18

LEMMA CallHolds ==
    ASSUME Held, play' = play, NEW w \in Worker, CallEnds(w) \/ ReleaseCall(w)
    PROVE  Held'
<1> USE DEF Held
<1>1. Job' = Job  BY DEF Job
<1>2. pc \in [Worker -> Pc] /\ call \in [Worker -> Call \cup {NoCall}] /\ helper \in [Call -> Helping]
      /\ refs \in [Call -> 0..2] /\ success \in [Worker -> BOOLEAN]
  BY DEF WorkerTypes, HelperTypes, Helping
<1>3. UNCHANGED <<job, scryptRunning, helper, done, dnsHelpers>>
  BY DEF CallEnds, ReleaseCall, workerVars, callVars
<1>4. /\ pc[w] \in {"waitCall", "release"} /\ pc'[w] \in {"release", "push"} /\ pc' \in [Worker -> Pc]
      /\ \A v \in Worker \ {w} : pc'[v] = pc[v]
      /\ success' \in [Worker -> BOOLEAN]
  BY <1>2 DEF CallEnds, ReleaseCall, Goto, Pc
<1>5. Busy' = Busy /\ PcAt({"scrypt"})' = PcAt({"scrypt"}) /\ PcAt({"spawn"})' = PcAt({"spawn"})
      /\ PcAt({"uncount", "spawn"})' = PcAt({"uncount", "spawn"})
      /\ PcAt({"scryptWait", "scrypt"})' = PcAt({"scryptWait", "scrypt"})
  BY <1>4 DEF Busy, BusyAt, PcAt
<1>6. Jobs' /\ Slots'  BY <1>1, <1>3, <1>5 DEF Jobs, Slots
<1>7. HelperAt({"resolving", "answered"})' = HelperAt({"resolving", "answered"})  BY <1>3 DEF HelperAt
<1>8. HelperCount'  BY <1>3, <1>5, <1>7, HelpersCounted DEF HelperCount, HelperAt, PcAt
<1>9. Started'  BY <1>5, <1>7 DEF Started
<1>10. CASE CallEnds(w)
  <2>1. UNCHANGED <<call, refs>> /\ Calling' = Calling  BY <1>2, <1>10 DEF CallEnds, Goto, callVars, Calling
  <2>2. References'  BY <1>3, <2>1, CallsKept
  <2>3. WorkerTypes' /\ HelperTypes'  BY <1>1, <1>3, <1>4, <2>1 DEF WorkerTypes, HelperTypes
  <2> QED  BY <1>6, <1>8, <1>9, <2>2, <2>3
<1>11. CASE ReleaseCall(w)
  <2>1. PICK h \in Call : h = call[w]  BY <1>4 DEF References, Calling
  <2>2. /\ refs' = [refs EXCEPT ![h] = refs[h] - 1] /\ call' = [call EXCEPT ![w] = NoCall]
        /\ pc[w] = "release" /\ pc' = [pc EXCEPT ![w] = "push"] /\ success' = success
    BY <1>2, <1>11, <2>1 DEF ReleaseCall, Goto
  <2>3. w \in Calling /\ Calling' = Calling \ {w}  BY <1>2, <1>4, <2>2 DEF Calling
  <2>4. \A v \in Calling \ {w} : call[v] # h /\ call'[v] = call[v]
    BY <1>2, <2>1, <2>2, <2>3 DEF References, Calling
  <2>5. Holds(h) /\ ~Holds(h)' /\ \A g \in Call \ {h} : Holds(g)' <=> Holds(g)
    BY <2>1, <2>3, <2>4 DEF Holds
  <2>6. /\ \A v \in Calling' : call'[v] \in Call
        /\ \A u, v \in Calling' : call'[u] = call'[v] => u = v
    BY <2>3, <2>4 DEF References
  <2>7. \A g \in Call : refs[g] = (IF helper[g] # "none" THEN 1 ELSE 0) + (IF Holds(g) THEN 1 ELSE 0)
    BY DEF References
  <2>8. \A g \in Call : refs'[g] = (IF helper'[g] # "none" THEN 1 ELSE 0) + (IF Holds(g)' THEN 1 ELSE 0)
    <3>1. \A g \in Call \ {h} : refs'[g] = refs[g]  BY <1>2, <2>2
    <3>2. refs'[h] = refs[h] - 1  BY <1>2, <2>2
    <3>3. refs'[h] = (IF helper[h] # "none" THEN 1 ELSE 0)  BY <2>5, <2>7, <3>2
    <3> QED  BY <1>3, <2>5, <2>7, <3>1, <3>3
  <2>9. References'  BY <2>6, <2>8 DEF References
  <2>10. refs' \in [Call -> 0..2]
    <3>1. \A g \in Call : refs'[g] \in 0..2  BY <2>8
    <3>2. refs' = [g \in Call |-> refs'[g]]  BY <1>2, <2>2
    <3> QED  BY <3>1, <3>2
  <2>11. WorkerTypes' /\ HelperTypes'
    BY <1>1, <1>2, <1>3, <1>4, <2>2, <2>10 DEF WorkerTypes, HelperTypes
  <2> QED  BY <1>6, <1>8, <1>9, <2>9, <2>11
<1> QED  BY <1>10, <1>11

(***************************************************************************)
(* The pool as a whole.                                                    *)
(***************************************************************************)
LEMMA InitPool == Init => PoolInv
<1> SUFFICES ASSUME Init PROVE PoolInv
  OBVIOUS
<1> USE DEF Init
<1>1. play.auths \in Nat /\ play.lookups \in Seq(Lookup)  BY PlayType
<1>2. LoopTypes /\ AuthRoom  BY <1>1, Consts DEF LoopTypes, AuthRoom
<1>3. SeqTypes
  <2>1. batch = << >> /\ ring = << >> /\ queue = << >> /\ woken = FALSE  OBVIOUS
  <2> HIDE DEF Init
  <2>2. << >> \in Seq(Result) /\ << >> \in Seq(Job) /\ Len(<< >>) = 0  OBVIOUS
  <2>3. 0 < RingMax /\ 0 <= QueueMax  BY Consts
  <2> QED  BY <2>1, <2>2, <2>3 DEF SeqTypes
<1>4. WorkerTypes /\ HelperTypes  BY Consts DEF WorkerTypes, HelperTypes, Pc
<1>5. Busy = {} /\ Calling = {} /\ PcAt({"scryptWait", "scrypt"}) = {} /\ PcAt({"scrypt"}) = {}
      /\ PcAt({"spawn"}) = {} /\ PcAt({"uncount", "spawn"}) = {} /\ HelperAt({"resolving", "answered"}) = {}
  BY DEF Busy, BusyAt, Calling, PcAt, HelperAt
<1>6. Jobs  BY <1>5 DEF Jobs
<1> HIDE DEF Init
<1>7. /\ Cardinality(PcAt({"scrypt"})) = 0 /\ Cardinality(PcAt({"spawn"})) = 0
      /\ Cardinality(PcAt({"uncount", "spawn"})) = 0 /\ Cardinality(HelperAt({"resolving", "answered"})) = 0
  BY <1>5, FS_EmptySet
<1>8. scryptRunning = 0 /\ dnsHelpers = 0  BY DEF Init
<1>9. Slots /\ Started  BY <1>7, <1>8, Consts DEF Slots, Started
<1>10. HelperCount  BY <1>7, <1>8, HelpersCounted
<1>11. References  BY <1>5 DEF Init, References, Holds
<1> QED  BY <1>2, <1>3, <1>4, <1>6, <1>9, <1>10, <1>11, PoolParts DEF Held

\* What the workers and helpers leave alone.
LEMMA LoopUntouched ==
    ASSUME HelperNext \/ \E w \in Worker : WorkerStep(w)
    PROVE  UNCHANGED <<conn, got, registered, pending, webirc, identity, authPending, authGen, oper,
                       loop, todo, batch, running, cancelled, cancelNext>>
<1>1. CASE HelperNext
  BY <1>1 DEF HelperNext, HelperLeaves, Answer, HelperUncounts, HelperReleases, queueVars, loopVars
<1>2. ASSUME NEW w \in Worker,
             \/ Dequeue(w) \/ WaitForWork(w) \/ Ident(w) \/ ScryptEnter(w) \/ Scrypt(w) \/ Push(w) \/ Wake(w)
      PROVE  UNCHANGED <<loopVars, loop, todo, batch, running, cancelled, cancelNext>>
  BY <1>2 DEF Dequeue, WaitForWork, Ident, ScryptEnter, Scrypt, Push, Wake, queueVars
<1>3. ASSUME NEW w \in Worker,
             CountHelper(w) \/ Uncount(w) \/ Spawn(w) \/ SpawnFails(w) \/ CallEnds(w) \/ ReleaseCall(w)
      PROVE  UNCHANGED <<loopVars, loop, todo, batch, running, cancelled, cancelNext>>
  BY <1>3 DEF CountHelper, Uncount, Spawn, SpawnFails, CallEnds, ReleaseCall, queueVars
<1> QED  BY <1>1, <1>2, <1>3 DEF WorkerStep, loopVars

LEMMA LoopKept ==
    ASSUME LoopTypes, AuthRoom, play' = play, HelperNext \/ \E w \in Worker : WorkerStep(w)
    PROVE  LoopTypes' /\ AuthRoom'
  BY LoopUntouched DEF LoopTypes, AuthRoom

LEMMA PoolStep == PoolInv /\ [Next]_vars => PoolInv'
<1> SUFFICES ASSUME PoolInv, [Next]_vars PROVE PoolInv'
  OBVIOUS
<1>1. LoopTypes /\ SeqTypes /\ AuthRoom /\ Held  BY PoolParts
<1>2. CASE Next
  <2>1. play' = play /\ Step  BY <1>2 DEF Next
  <2>2. SeqTypes'  BY <1>2, SeqStepTypes
  <2>3. CASE LoopNext
    <3>1. LoopTypes' /\ AuthRoom' /\ Held'  BY <1>1, <2>1, <2>3, LoopStepTypes, LoopHolds
    <3> QED  BY <2>2, <3>1, PoolParts, PTL
  <2>4. CASE HelperNext
    <3>1. LoopTypes' /\ AuthRoom' /\ Held'  BY <1>1, <2>1, <2>4, LoopKept, HelperHolds
    <3> QED  BY <2>2, <3>1, PoolParts, PTL
  <2>5. ASSUME NEW w \in Worker, WorkerStep(w) PROVE PoolInv'
    <3>1. LoopTypes' /\ AuthRoom'  BY <1>1, <2>1, <2>5, LoopKept
    <3>2. Held'
      BY <1>1, <2>1, <2>5, PlainHolds, ScryptHolds, CountHolds, SpawnHolds, CallHolds DEF WorkerStep
    <3> QED  BY <2>2, <3>1, <3>2, PoolParts, PTL
  <2> QED  BY <2>1, <2>3, <2>4, <2>5 DEF Step, LoopNext, HelperNext
<1>3. CASE UNCHANGED vars
  <2> SUFFICES (LoopTypes /\ SeqTypes /\ AuthRoom /\ Held)'
    BY PoolParts, PTL
  <2>1. Job' = Job /\ Result' = Result  BY <1>3 DEF vars, Job, Result
  <2>2. LoopTypes' /\ AuthRoom'  BY <1>1, <1>3 DEF vars, loopVars, queueVars, LoopTypes, AuthRoom
  <2>3. SeqTypes'  BY <1>1, <1>3, <2>1 DEF vars, queueVars, ringVars, SeqTypes
  <2>4. Held'
    <3>1. Busy' = Busy /\ Calling' = Calling /\ \A A : PcAt(A)' = PcAt(A) /\ HelperAt(A)' = HelperAt(A)
      BY <1>3 DEF vars, workerVars, callVars, Busy, Calling, PcAt, HelperAt
    <3>2. WorkerTypes' /\ HelperTypes'
      BY <1>1, <1>3, <2>1 DEF vars, workerVars, callVars, WorkerTypes, HelperTypes, Held
    <3>3. Jobs' /\ Slots' /\ Started'
      BY <1>1, <1>3, <2>1, <3>1 DEF vars, workerVars, callVars, Jobs, Slots, Started, Held
    <3>4. HelperCount' /\ References'
      BY <1>1, <1>3, <3>1, CallsKept DEF vars, callVars, workerVars, HelperCount, Held
    <3> QED  BY <3>2, <3>3, <3>4 DEF Held
  <2> QED  BY <2>2, <2>3, <2>4
<1> QED  BY <1>2, <1>3

THEOREM PoolInductive == Spec => []PoolInv
  BY InitPool, PoolStep, PTL DEF Spec

\* The pool's memory and counts are right in every interleaving (worker.c): the queue and the ring
\* stay within their bounds, g_dns_helpers counts what it should and never lets more than
\* MAX_DNS_HELPERS calls block at once, and the block a worker and its helper share is freed by the
\* last of the two and never used after.
THEOREM PoolSoundHolds == Spec => []PoolSound
<1>1. PoolInv => PoolSound
  <2> SUFFICES ASSUME PoolInv PROVE PoolSound
    OBVIOUS
  <2>1. TypeOK /\ HelperCount  BY DEF PoolInv
  <2>2. HelpersCapped
    <3> DEFINE A == HelperAt({"resolving", "answered"})
               B == {h \in Call : helper[h] = "resolving"}
    <3>1. A \in SUBSET Call /\ B \subseteq A  BY DEF HelperAt
    <3>2. IsFiniteSet(A)  BY <3>1, Consts, FS_Subset
    <3>3. Cardinality(B) \in Nat /\ Cardinality(A) \in Nat /\ Cardinality(B) <= Cardinality(A)
      BY <3>1, <3>2, FS_Subset, FS_CardinalityType
    <3>4. Cardinality(A) + Cardinality(PcAt({"spawn"})) <= MaxHelpers /\ Cardinality(PcAt({"spawn"})) \in Nat
      BY CountsAreNumbers DEF PoolInv, Started
    <3> HIDE DEF A, B
    <3>5. Cardinality(B) <= MaxHelpers  BY <3>3, <3>4, Consts
    <3> QED  BY <3>5 DEF B, HelpersCapped
  <2>3. CallAlive
    <3>1. \A h \in Call : refs[h] = (IF helper[h] # "none" THEN 1 ELSE 0) + (IF Holds(h) THEN 1 ELSE 0)
      BY DEF PoolInv, References
    <3>2. \A h \in Call : helper[h] # "none" => refs[h] > 0  BY <3>1
    <3>3. \A h \in Call : Holds(h) => refs[h] > 0  BY <3>1
    <3>4. \A w \in Worker : pc[w] \in {"waitCall", "release"} => call[w] \in Call /\ Holds(call[w])
      BY DEF PoolInv, References, Calling, Holds
    <3> QED  BY <3>2, <3>3, <3>4 DEF CallAlive
  <2> QED  BY <2>1, <2>2, <2>3 DEF PoolSound
<1> QED  BY <1>1, PoolInductive, PTL

(***************************************************************************)
(* No wakeup is lost.                                                      *)
(***************************************************************************)
\* worker_submit signals g_qcond after it queues: whoever sleeps then is woken.
LEMMA QueueStep ==
    ASSUME Worker # {}, PoolInv, QueueServed, Next
    PROVE  QueueServed'
<1>1. Held /\ WorkerTypes  BY PoolParts DEF Held
<1>2. CASE LoopNext
  <2>1. \A w \in Worker : pc'[w] = pc[w] \/ (pc[w] = "asleep" /\ pc'[w] = "idle")
    BY <1>1, <1>2, LoopWakes DEF WakesOnly
  <2>2. CASE queue' # << >> => queue # << >>
    BY <2>1, <2>2 DEF QueueServed
  <2>3. CASE \E j : Submit(j)
    <3>1. \/ \A w \in Worker : pc[w] # "asleep" /\ pc' = pc
          \/ \E w \in Worker : pc[w] = "asleep" /\ pc' = [pc EXCEPT ![w] = "idle"]
      BY <2>3, Signalled DEF Submit, WakeWorker
    <3> QED  BY <1>1, <3>1 DEF QueueServed, WorkerTypes
  <2>4. (queue' # << >> => queue # << >>) \/ \E j : Submit(j)
    BY <1>2 DEF LoopNext, Accept, SendUser, Webirc, Oper, RescueLookup, RescueAuth, Close, SubmitLookup, Refused,
       Drain, DrainWake, TakeResults, ApplyResult, DrainEnd, Stop, Joined, Stopped, queueVars, vars
  <2> QED  BY <2>2, <2>3, <2>4
<1>3. CASE HelperNext
  BY <1>3 DEF HelperNext, Answer, HelperLeaves, HelperUncounts, HelperReleases, queueVars, QueueServed
<1>4. ASSUME NEW w \in Worker, WaitForWork(w) PROVE QueueServed'
  BY <1>4 DEF WaitForWork, queueVars, QueueServed
<1>5. ASSUME NEW w \in Worker, Dequeue(w) PROVE QueueServed'
  <2>1. pc'[w] \in {"idle", "run"}  BY <1>1, <1>5 DEF Dequeue, Goto, WorkerTypes
  <2> QED  BY <2>1 DEF QueueServed
<1>6. ASSUME NEW w \in Worker, Ident(w) \/ Push(w) \/ Wake(w) \/ ScryptEnter(w) PROVE QueueServed'
  <2>1. pc'[w] # "asleep"
    BY <1>1, <1>6 DEF Ident, Push, Wake, ScryptEnter, AfterPush, Goto, WorkerTypes
  <2> QED  BY <2>1 DEF QueueServed
<1>7. ASSUME NEW w \in Worker,
             CountHelper(w) \/ Uncount(w) \/ Spawn(w) \/ SpawnFails(w) \/ CallEnds(w) \/ ReleaseCall(w)
      PROVE  QueueServed'
  <2>1. pc'[w] # "asleep"
    BY <1>1, <1>7 DEF CountHelper, Uncount, Spawn, SpawnFails, CallEnds, ReleaseCall, Goto, WorkerTypes
  <2> QED  BY <2>1 DEF QueueServed
<1>8. ASSUME NEW w \in Worker, Scrypt(w) PROVE QueueServed'
  <2>1. pc'[w] = "push"  BY <1>1, <1>8, ScryptMoves
  <2> QED  BY <2>1 DEF QueueServed
<1> QED  BY <1>2, <1>3, <1>4, <1>5, <1>6, <1>7, <1>8 DEF Next, Step, LoopNext, HelperNext, WorkerStep

LEMMA SumGrows ==
    /\ \A a, b, c, m \in Nat : a + b >= m /\ c >= b => a + c >= m
    /\ \A a, c, m \in Nat : a >= m => a + c >= m
  OBVIOUS

\* scrypt_leave frees a slot and signals g_scond: for each waiter there stays a hash that runs, or a
\* worker that was woken and will look.
LEMMA SlotStep ==
    ASSUME PoolInv, SlotsClaimed, Next
    PROVE  SlotsClaimed'
<1>1. Held /\ WorkerTypes /\ HelperTypes /\ Jobs  BY PoolParts DEF Held
<1>2. scryptRunning \in Nat /\ ScryptMax \in Nat /\ pc \in [Worker -> Pc]
  BY <1>1, Consts DEF HelperTypes, WorkerTypes
<1> DEFINE R == Cardinality(AuthRunners)
<1>3. R \in Nat
  <2>1. AuthRunners \in SUBSET Worker  BY DEF AuthRunners
  <2> QED  BY <2>1, Consts, CountEmpty
<1>4. ASSUME NEW w \in Worker,
             \A v \in Worker \ {w} : v \in AuthRunners' <=> v \in AuthRunners
      PROVE  R' \in Nat /\ R' = R + (IF w \in AuthRunners' THEN 1 ELSE 0) - (IF w \in AuthRunners THEN 1 ELSE 0)
  <2>1. AuthRunners \in SUBSET Worker /\ AuthRunners' \in SUBSET Worker /\ IsFiniteSet(Worker)
    BY Consts DEF AuthRunners
  <2> QED  BY <1>4, <2>1, CountMoved
<1>5. CASE LoopNext
  <2>1. /\ \A w \in Worker : pc'[w] = pc[w] \/ (pc[w] = "asleep" /\ pc'[w] = "idle")
        /\ job' = job /\ scryptRunning' = scryptRunning
    BY <1>1, <1>5, LoopWakes DEF WakesOnly
  <2>2. PcAt({"scryptWait"})' = PcAt({"scryptWait"}) /\ AuthRunners' = AuthRunners
    BY <2>1 DEF PcAt, AuthRunners, Running
  <2> QED  BY <2>1, <2>2 DEF SlotsClaimed
<1>6. CASE HelperNext
  <2>1. UNCHANGED <<pc, job, scryptRunning>>
    BY <1>6 DEF HelperNext, Answer, HelperLeaves, HelperUncounts, HelperReleases, workerVars
  <2>2. PcAt({"scryptWait"})' = PcAt({"scryptWait"}) /\ AuthRunners' = AuthRunners
    BY <2>1 DEF PcAt, AuthRunners, Running
  <2> QED  BY <2>1, <2>2 DEF SlotsClaimed
<1>7. ASSUME NEW w \in Worker, Dequeue(w) PROVE SlotsClaimed'
  <2>1. /\ \A v \in Worker \ {w} : pc'[v] = pc[v] /\ job'[v] = job[v]
        /\ pc[w] = "idle" /\ pc'[w] \in {"idle", "run"} /\ scryptRunning' = scryptRunning
    BY <1>1, <1>7 DEF Dequeue, Goto, WorkerTypes
  <2>2. PcAt({"scryptWait"})' = PcAt({"scryptWait"})  BY <2>1 DEF PcAt
  <2>3. /\ \A v \in Worker \ {w} : v \in AuthRunners' <=> v \in AuthRunners
        /\ w \notin AuthRunners
    BY <2>1 DEF AuthRunners, Running
  <2>4. R' \in Nat /\ R' >= R
    <3>1. R' \in Nat /\ R' = R + (IF w \in AuthRunners' THEN 1 ELSE 0) - 0  BY <1>4, <2>3
    <3> HIDE DEF R
    <3> QED  BY <1>3, <3>1
  <2> HIDE DEF R
  <2>5. scryptRunning \in Nat /\ ScryptMax \in Nat /\ scryptRunning' = scryptRunning  BY <1>2, <2>1
  <2>6. scryptRunning + R >= ScryptMax => scryptRunning + R' >= ScryptMax  BY <1>3, <2>4, <2>5, SumGrows
  <2> QED  BY <2>2, <2>5, <2>6 DEF SlotsClaimed, R
<1>8. ASSUME NEW w \in Worker,
             \/ WaitForWork(w) \/ Ident(w) \/ Push(w) \/ Wake(w)
             \/ CountHelper(w) \/ Uncount(w) \/ Spawn(w) \/ SpawnFails(w) \/ CallEnds(w) \/ ReleaseCall(w)
      PROVE  SlotsClaimed'
  <2>1. /\ \A v \in Worker \ {w} : pc'[v] = pc[v] /\ job'[v] = job[v]
        /\ pc[w] # "scryptWait" /\ ~Running(w, {"auth"}) /\ pc'[w] \notin {"run", "scryptWait"}
        /\ scryptRunning' = scryptRunning
    <3>1. CASE WaitForWork(w) \/ Ident(w) \/ Push(w) \/ Wake(w)
      BY <1>1, <3>1 DEF WaitForWork, Ident, Push, Wake, Goto, Running, AfterPush, workerVars, WorkerTypes
    <3>2. CASE CountHelper(w) \/ Uncount(w) \/ Spawn(w) \/ SpawnFails(w) \/ CallEnds(w) \/ ReleaseCall(w)
      BY <1>1, <3>2 DEF CountHelper, Uncount, Spawn, SpawnFails, CallEnds, ReleaseCall, Goto, Running, workerVars,
         WorkerTypes
    <3> QED  BY <1>8, <3>1, <3>2
  <2>2. PcAt({"scryptWait"})' = PcAt({"scryptWait"}) /\ AuthRunners' = AuthRunners
    BY <2>1 DEF PcAt, AuthRunners, Running
  <2> QED  BY <2>1, <2>2 DEF SlotsClaimed
<1>9. ASSUME NEW w \in Worker, ScryptEnter(w) PROVE SlotsClaimed'
  <2>1. pc[w] = "run" /\ job[w].type = "auth" /\ job' = job  BY <1>9 DEF ScryptEnter, Running, workerVars
  <2>2. CASE scryptRunning >= ScryptMax
    <3>1. scryptRunning' = scryptRunning  BY <1>9, <2>2 DEF ScryptEnter
    <3>2. \A v \in Worker \ {w} : pc'[v] = pc[v]  BY <1>2, <1>9, <2>2 DEF ScryptEnter, Goto
    <3>3. \A v \in Worker \ {w} : v \in AuthRunners' <=> v \in AuthRunners
      BY <2>1, <3>2 DEF AuthRunners, Running
    <3>4. R' \in Nat  BY <1>4, <3>3
    <3> HIDE DEF R
    <3>5. scryptRunning \in Nat /\ ScryptMax \in Nat /\ scryptRunning' \in Nat /\ scryptRunning' >= ScryptMax
      BY <1>2, <2>2, <3>1
    <3>6. scryptRunning' + R' >= ScryptMax  BY <3>4, <3>5, SumGrows
    <3> QED  BY <3>6 DEF SlotsClaimed, R
  <2>3. CASE ~(scryptRunning >= ScryptMax)
    <3>1. scryptRunning' = scryptRunning + 1 /\ pc'[w] = "scrypt" /\ \A v \in Worker \ {w} : pc'[v] = pc[v]
      BY <1>2, <1>9, <2>3 DEF ScryptEnter, Goto
    <3>2. /\ \A v \in Worker \ {w} : v \in AuthRunners' <=> v \in AuthRunners
          /\ w \in AuthRunners /\ w \notin AuthRunners'
      BY <2>1, <3>1 DEF AuthRunners, Running
    <3>3. R' \in Nat /\ R' = R + 0 - 1  BY <1>4, <3>2
    <3>4. PcAt({"scryptWait"})' = PcAt({"scryptWait"})  BY <2>1, <3>1 DEF PcAt
    <3> HIDE DEF R
    <3>5. scryptRunning' + R' = scryptRunning + R  BY <1>2, <1>3, <3>1, <3>3
    <3> QED  BY <3>4, <3>5 DEF SlotsClaimed, R
  <2> QED  BY <2>2, <2>3
<1>10. ASSUME NEW w \in Worker, Scrypt(w) PROVE SlotsClaimed'
  <2>1. /\ pc[w] = "scrypt" /\ pc'[w] = "push" /\ scryptRunning' = scryptRunning - 1 /\ job' = job
        /\ \/ \A v \in Worker : pc'[v] # "scryptWait"
           \/ \E v \in Worker \ {w} :
                /\ pc[v] = "scryptWait" /\ pc'[v] = "run"
                /\ \A u \in Worker \ {v, w} : pc'[u] = pc[u]
    BY <1>1, <1>10, ScryptMoves DEF Scrypt
  <2>2. CASE \A v \in Worker : pc'[v] # "scryptWait"
    BY <2>2 DEF SlotsClaimed, PcAt
  <2>3. ASSUME NEW v \in Worker \ {w}, pc[v] = "scryptWait", pc'[v] = "run",
               \A u \in Worker \ {v, w} : pc'[u] = pc[u]
        PROVE  SlotsClaimed'
    <3>1. job[v].type = "auth"  BY <1>1, <2>3 DEF Jobs, PcAt
    <3>2. /\ \A u \in Worker \ {v} : u \in AuthRunners' <=> u \in AuthRunners
          /\ v \in AuthRunners' /\ v \notin AuthRunners
      BY <2>1, <2>3, <3>1 DEF AuthRunners, Running
    <3>3. R' \in Nat /\ R' = R + 1 - 0  BY <1>4, <3>2
    <3>4. PcAt({"scryptWait"}) # {}  BY <2>3 DEF PcAt
    <3> HIDE DEF R
    <3>5. scryptRunning' + R' = scryptRunning + R  BY <1>2, <1>3, <2>1, <3>3
    <3> QED  BY <3>4, <3>5 DEF SlotsClaimed, R
  <2> QED  BY <2>1, <2>2, <2>3
<1> QED  BY <1>5, <1>6, <1>7, <1>8, <1>9, <1>10 DEF Next, Step, LoopNext, HelperNext, WorkerStep

\* push_result writes to the pipe after the ring is unlocked; drain_worker_results empties the pipe
\* before it looks at the ring.
LEMMA RingStep ==
    ASSUME PoolInv, ResultAnnounced, Next
    PROVE  ResultAnnounced'
<1>1. Held /\ WorkerTypes  BY PoolParts DEF Held
<1>2. CASE LoopNext
  <2>1. \A w \in Worker : pc[w] = "wake" => pc'[w] = "wake"
    BY <1>1, <1>2, LoopWakes DEF WakesOnly
  <2>2. \/ loop' = "draining" \/ ring' = << >>
        \/ ring' = ring /\ woken' = woken /\ loop # "draining"
    BY <1>2 DEF LoopNext, Accept, SendUser, Webirc, Oper, RescueLookup, RescueAuth, Close, SubmitLookup, LoopStep,
       Drain, DrainWake, TakeResults, ApplyResult, DrainEnd, Stop, Joined, Stopped, ringVars, vars
  <2> QED  BY <2>1, <2>2 DEF ResultAnnounced
<1>3. CASE HelperNext
  BY <1>3 DEF HelperNext, Answer, HelperLeaves, HelperUncounts, HelperReleases, ringVars, ResultAnnounced
<1>4. ASSUME NEW w \in Worker, Push(w) PROVE ResultAnnounced'
  <2>1. pc'[w] = "wake"  BY <1>1, <1>4 DEF Push, AfterPush, Goto, WorkerTypes
  <2> QED  BY <2>1 DEF ResultAnnounced
<1>5. ASSUME NEW w \in Worker, Wake(w) PROVE ResultAnnounced'
  BY <1>5 DEF Wake, ResultAnnounced
<1>6. ASSUME NEW w \in Worker,
             \/ Dequeue(w) \/ WaitForWork(w) \/ Ident(w) \/ ScryptEnter(w)
             \/ CountHelper(w) \/ Uncount(w) \/ Spawn(w) \/ SpawnFails(w) \/ CallEnds(w) \/ ReleaseCall(w)
      PROVE  ResultAnnounced'
  <2>1. pc[w] # "wake" /\ \A v \in Worker \ {w} : pc'[v] = pc[v]
    BY <1>1, <1>6 DEF Dequeue, WaitForWork, Ident, ScryptEnter, CountHelper, Uncount, Spawn, SpawnFails,
       CallEnds, ReleaseCall, Goto, Running, WorkerTypes
  <2>2. UNCHANGED <<ring, woken, loop>>
    BY <1>6 DEF Dequeue, WaitForWork, Ident, ScryptEnter, CountHelper, Uncount, Spawn, SpawnFails,
       CallEnds, ReleaseCall, ringVars
  <2> QED  BY <2>1, <2>2 DEF ResultAnnounced
<1>7. ASSUME NEW w \in Worker, Scrypt(w) PROVE ResultAnnounced'
  <2>1. \A v \in Worker : pc[v] = "wake" => pc'[v] = "wake"  BY <1>1, <1>7, ScryptMoves
  <2> QED  BY <1>7, <2>1 DEF Scrypt, ringVars, ResultAnnounced
<1> QED  BY <1>2, <1>3, <1>4, <1>5, <1>6, <1>7 DEF Next, Step, LoopNext, HelperNext, WorkerStep

LEMMA WakeStep == Worker # {} /\ PoolInv /\ WakeInv /\ [Next]_vars => WakeInv'
<1> SUFFICES ASSUME Worker # {}, PoolInv, WakeInv, [Next]_vars PROVE WakeInv'
  OBVIOUS
<1>1. CASE Next
  <2>1. QueueServed' /\ SlotsClaimed' /\ ResultAnnounced'
    BY <1>1, QueueStep, SlotStep, RingStep DEF WakeInv
  <2> QED  BY <2>1 DEF WakeInv
<1>2. CASE UNCHANGED vars
  <2>1. UNCHANGED <<queue, pc, job, scryptRunning, ring, woken, loop>>
    BY <1>2 DEF vars, queueVars, workerVars, ringVars
  <2>2. PcAt({"scryptWait"})' = PcAt({"scryptWait"}) /\ AuthRunners' = AuthRunners
    BY <2>1 DEF PcAt, AuthRunners, Running
  <2> QED  BY <2>1, <2>2 DEF WakeInv, QueueServed, SlotsClaimed, ResultAnnounced
<1> QED  BY <1>1, <1>2

\* In a pool with a worker no wakeup is lost (worker_submit, scrypt_leave, push_result): a queued job
\* has a worker awake for it, a worker waits for a scrypt slot only while the slots are taken or another
\* is about to take one, and a result in the ring has been or is being announced.
THEOREM NoLostWakeupHolds ==
    ASSUME Worker # {}
    PROVE  Spec => []NoLostWakeup
<1>1. Init => WakeInv
  <2> SUFFICES ASSUME Init PROVE WakeInv
    OBVIOUS
  <2>1. queue = << >> /\ ring = << >> /\ PcAt({"scryptWait"}) = {}  BY DEF Init, PcAt
  <2> QED  BY <2>1 DEF WakeInv, QueueServed, SlotsClaimed, ResultAnnounced
<1>2. PoolInv /\ WakeInv => NoLostWakeup
  <2> SUFFICES ASSUME PoolInv, WakeInv PROVE ScryptServed
    BY DEF WakeInv, NoLostWakeup
  <2>1. scryptRunning \in 0..ScryptMax /\ ScryptMax \in Nat  BY Consts DEF PoolInv, TypeOK
  <2>2. AuthRunners \in SUBSET Worker  BY DEF AuthRunners
  <2>3. Cardinality(AuthRunners) \in Nat /\ (Cardinality(AuthRunners) = 0 <=> AuthRunners = {})
    BY <2>2, Consts, CountEmpty
  <2>4. CASE PcAt({"scryptWait"}) # {}
    <3>1. scryptRunning + Cardinality(AuthRunners) >= ScryptMax  BY <2>4 DEF WakeInv, SlotsClaimed
    <3>2. scryptRunning = ScryptMax \/ AuthRunners # {}  BY <2>1, <2>3, <3>1
    <3> QED  BY <3>2 DEF ScryptServed, AuthRunners
  <2>5. CASE PcAt({"scryptWait"}) = {}
    BY <2>5 DEF ScryptServed, PcAt
  <2> QED  BY <2>4, <2>5
<1> QED  BY <1>1, <1>2, WakeStep, PoolInductive, PTL DEF Spec

(***************************************************************************)
(* Late lookups change nobody's identity.                                  *)
(***************************************************************************)
Final(c) == registered[c] \/ webirc[c] => identity'[c] = identity[c]

LEMMA IdentityStep ==
    ASSUME PoolInv, IdentityInv, Next
    PROVE  IdentityInv' /\ \A c \in Conn : Final(c)
<1> USE DEF IdentityInv
<1>1. LoopTypes /\ SeqTypes  BY PoolParts
<1>2. /\ conn \in [Conn -> {"new", "open", "quitting", "gone"}]
      /\ got \in [Conn -> BOOLEAN] /\ registered \in [Conn -> BOOLEAN] /\ webirc \in [Conn -> BOOLEAN]
      /\ pending \in [Conn -> SUBSET Lookup] /\ identity \in [Conn -> SUBSET {"rdns", "ident"}]
      /\ authPending \in [Conn -> BOOLEAN]
  BY <1>1 DEF LoopTypes
<1>3. ASSUME NEW c \in Conn, Accept(c) PROVE IdentityInv' /\ \A d \in Conn : Final(d)
  <2>1. /\ conn[c] = "new" /\ conn' = [conn EXCEPT ![c] = "open"]
        /\ UNCHANGED <<got, registered, pending, webirc, identity>>
        /\ todo' = << >> \/ todo' = <<c, play.lookups>>
    BY <1>3 DEF Accept
  <2>2. todo' # << >> => todo'[1] = c  BY <2>1
  <2>3. ~webirc[c]  BY <2>1
  <2> QED  BY <1>2, <2>1, <2>2, <2>3 DEF Final
<1>4. ASSUME NEW c \in Conn, SendUser(c) PROVE IdentityInv' /\ \A d \in Conn : Final(d)
  <2> DEFINE b == pending[c] \cap {"rdns", "ident"} = {} /\ ~authPending[c]
  <2>1. /\ got' = [got EXCEPT ![c] = TRUE] /\ registered' = [registered EXCEPT ![c] = b]
        /\ UNCHANGED <<conn, pending, webirc, identity, todo>>
    BY <1>4 DEF SendUser
  <2> HIDE DEF b
  <2>2. \A d \in Conn : registered'[d] => got'[d]  BY <1>2, <2>1
  <2> QED  BY <1>2, <2>1, <2>2 DEF Final
<1>5. ASSUME NEW c \in Conn, Webirc(c) PROVE IdentityInv' /\ \A d \in Conn : Final(d)
  <2>1. /\ todo' = << >> /\ conn[c] = "open" /\ ~got[c] /\ ~webirc[c]
        /\ webirc' = [webirc EXCEPT ![c] = TRUE] /\ pending' = [pending EXCEPT ![c] = {}]
        /\ identity' = [identity EXCEPT ![c] = @ \ {"rdns"}]
        /\ UNCHANGED <<conn, got, registered>>
    BY <1>5 DEF Webirc, LoopStep, Readable
  <2> QED  BY <1>2, <2>1 DEF Final
<1>6. ASSUME NEW c \in Conn, RescueLookup(c) PROVE IdentityInv' /\ \A d \in Conn : Final(d)
  <2> DEFINE b == Welcomed(c, PendingAfterRescue(c), authPending[c])
  <2>1. /\ pending' = [pending EXCEPT ![c] = {}] /\ registered' = [registered EXCEPT ![c] = b]
        /\ UNCHANGED <<conn, got, webirc, identity, todo>>
    BY <1>6 DEF RescueLookup, PendingAfterRescue
  <2>2. b => got[c]  BY DEF Welcomed
  <2> HIDE DEF b
  <2>3. \A d \in Conn : registered'[d] => got'[d]  BY <1>2, <2>1, <2>2
  <2> QED  BY <1>2, <2>1, <2>3 DEF Final
<1>7. ASSUME NEW c \in Conn, Oper(c) \/ RescueAuth(c) \/ Close(c)
      PROVE  IdentityInv' /\ \A d \in Conn : Final(d)
  <2>1. /\ UNCHANGED <<got, registered, pending, webirc, identity, todo>>
        /\ \A d \in Conn : conn'[d] = conn[d] \/ conn'[d] = "gone"
    BY <1>2, <1>7 DEF Oper, RescueAuth, Close
  <2> QED  BY <2>1 DEF Final
<1>8. CASE SubmitLookup
  <2>1. todo # << >> /\ todo[1] \in Conn /\ ~webirc[todo[1]]
    BY <1>1, <1>8, LookupTypes DEF SubmitLookup
  <2>2. /\ UNCHANGED <<conn, got, registered, webirc, identity>>
        /\ pending' = pending \/ pending' = [pending EXCEPT ![todo[1]] = @ \cup {Head(todo[2])}]
        /\ todo' = << >> \/ todo' = <<todo[1], Tail(todo[2])>>
    BY <1>8 DEF SubmitLookup
  <2>3. todo' # << >> => todo'[1] = todo[1]  BY <2>2
  <2>4. \A d \in Conn : webirc[d] => pending'[d] = pending[d]  BY <1>2, <2>1, <2>2
  <2> QED  BY <2>1, <2>2, <2>3, <2>4 DEF Final
<1>9. CASE DrainWake \/ TakeResults \/ DrainEnd \/ Stop \/ Joined \/ Stopped
  BY <1>9 DEF DrainWake, TakeResults, DrainEnd, Stop, Joined, Stopped, vars, loopVars, Final
<1>10. CASE ApplyResult
  <2>1. todo' = todo  BY <1>10 DEF ApplyResult
  <2>2. CASE Stale(Head(batch).job)
    <3>1. UNCHANGED loopVars  BY <1>10, <2>2 DEF ApplyResult
    <3> QED  BY <2>1, <3>1 DEF loopVars, Final
  <2>3. CASE ~Stale(Head(batch).job)
    <3> DEFINE j == Head(batch).job
               c == j.conn
               ok == Head(batch).ok
               a == authPending[c] /\ j.type # "auth"
               W == Welcomed(c, pending[c] \ {j.type}, a)
               answer == ok /\ j.type \in {"rdns", "ident"}
    <3>1. batch # << >> /\ Head(batch) \in Result  BY <1>1, <1>10 DEF ApplyResult, SeqTypes
    <3>2. j \in Job /\ c \in Conn /\ ok \in BOOLEAN  BY <3>1 DEF Result, Job
    <3>3. /\ pending' = [pending EXCEPT ![c] = pending[c] \ {j.type}]
          /\ identity' = [identity EXCEPT ![c] = IF answer THEN @ \cup {j.type} ELSE @]
          /\ conn' = [conn EXCEPT ![c] = IF j.type = "dnsbl" /\ ok THEN "quitting" ELSE @]
          /\ registered' = [registered EXCEPT ![c] = IF j.type = "dnsbl" THEN @ ELSE W]
          /\ UNCHANGED <<got, webirc>>
      BY <1>10, <2>3 DEF ApplyResult
    <3>4. W => registered[c] \/ got[c]  BY DEF Welcomed
    <3>5. answer => ~registered[c] /\ pending[c] # {}
      BY <2>3, <3>2 DEF Stale
    <3> HIDE DEF j, c, ok, a, W, answer
    <3>6. \A d \in Conn : registered'[d] => got'[d]
      BY <1>2, <3>2, <3>3, <3>4
    <3>7. \A d \in Conn : webirc[d] => pending'[d] = {} /\ conn'[d] # "new"
      BY <1>2, <3>2, <3>3
    <3>8. \A d \in Conn : Final(d)
      BY <1>2, <3>2, <3>3, <3>5 DEF Final
    <3> QED  BY <2>1, <3>3, <3>6, <3>7, <3>8
  <2> QED  BY <2>2, <2>3
<1>11. CASE HelperNext \/ \E w \in Worker : WorkerStep(w)
  BY <1>11, LoopUntouched DEF Final
<1> QED  BY <1>3, <1>4, <1>5, <1>6, <1>7, <1>8, <1>9, <1>10, <1>11 DEF Next, Step, HelperNext, Drain

\* A late lookup (the rdns and ident answers in drain_worker_results) changes nobody's user or host
\* after the welcome, or after a gateway gave the real address.
THEOREM IdentityFinalHolds == Spec => IdentityFinal
<1>1. Init => IdentityInv
  BY DEF Init, IdentityInv
<1>2. PoolInv /\ IdentityInv /\ [Next]_vars => IdentityInv'
  <2>1. CASE Next  BY <2>1, IdentityStep
  <2>2. CASE UNCHANGED vars  BY <2>2 DEF vars, loopVars, IdentityInv
  <2> QED  BY <2>1, <2>2
<1>3. PoolInv /\ IdentityInv /\ [Next]_vars =>
        [\A c \in Conn : registered[c] \/ webirc[c] => identity'[c] = identity[c]]_vars
  BY IdentityStep DEF Final
<1> QED  BY <1>1, <1>2, <1>3, PoolInductive, PTL DEF Spec, IdentityFinal

(***************************************************************************)
(* Late password checks.                                                   *)
(***************************************************************************)
\* Where a job can be, and which job is there; before and after a step.
LEMMA PlaceForms ==
    /\ \A i : At(<<"queue", i>>) = queue[i] /\ At(<<"worker", i>>) = job[i]
    /\ \A i : At(<<"ring", i>>) = ring[i].job /\ At(<<"batch", i>>) = batch[i].job
    /\ \A i : At(<<"queue", i>>)' = queue'[i] /\ At(<<"worker", i>>)' = job'[i]
    /\ \A i : At(<<"ring", i>>)' = ring'[i].job /\ At(<<"batch", i>>)' = batch'[i].job
  BY DEF At

LEMMA PlaceKinds ==
    /\ \A i : <<"queue", i>> \in Places <=> i \in DOMAIN queue
    /\ \A i : <<"worker", i>> \in Places <=> i \in Busy
    /\ \A i : <<"ring", i>> \in Places <=> i \in DOMAIN ring
    /\ \A i : <<"batch", i>> \in Places <=> i \in DOMAIN batch
    /\ \A p \in Places : \/ \E i \in DOMAIN queue : p = <<"queue", i>>
                         \/ \E w \in Busy : p = <<"worker", w>>
                         \/ \E i \in DOMAIN ring : p = <<"ring", i>>
                         \/ \E i \in DOMAIN batch : p = <<"batch", i>>
  BY DEF Places

LEMMA JobAt ==
    ASSUME PoolInv
    PROVE  \A p \in Places : At(p) \in Job
<1>1. queue \in Seq(Job) /\ ring \in Seq(Result) /\ batch \in Seq(Result)  BY DEF PoolInv, TypeOK
<1>2. \A i \in DOMAIN queue : queue[i] \in Job  BY <1>1
<1>3. \A i \in DOMAIN ring : ring[i].job \in Job
  <2>1. \A i \in DOMAIN ring : ring[i] \in Result  BY <1>1
  <2> QED  BY <2>1 DEF Result
<1>4. \A i \in DOMAIN batch : batch[i].job \in Job
  <2>1. \A i \in DOMAIN batch : batch[i] \in Result  BY <1>1
  <2> QED  BY <2>1 DEF Result
<1>5. \A w \in Busy : job[w] \in Job  BY DEF PoolInv, Jobs, Busy
<1> QED  BY <1>2, <1>3, <1>4, <1>5, PlaceKinds, PlaceForms

JobParts(j) ==
    /\ j.conn \in Conn /\ j.gen \in Nat
    /\ j = [type |-> j.type, conn |-> j.conn, gen |-> j.gen]
LEMMA JobFields ==
    ASSUME PoolInv
    PROVE  \A j \in Job : JobParts(j)
<1>1. play.auths \in Nat  BY PlayType DEF PoolInv, TypeOK
<1> QED  BY <1>1 DEF Job, JobParts

\* A step that moves jobs about without copying any, and puts at most one new job at n.
LEMMA UniqueMoved ==
    ASSUME Unique, NEW b, NEW n,
           \A p \in Places' \ {n} : b[p] \in Places /\ At(p)' = At(b[p]),
           \A p, q \in Places' \ {n} : b[p] = b[q] => p = q,
           n \in Places' => At(n)'.type # "auth" \/ \A p \in Places : At(p) # At(n)'
    PROVE  Unique'
<1> SUFFICES ASSUME NEW p \in Places', NEW q \in Places', At(p)'.type = "auth", At(p)' = At(q)'
             PROVE  p = q
  BY DEF Unique, AuthAt
<1>1. CASE p = n /\ q # n  BY <1>1
<1>2. CASE q = n /\ p # n  BY <1>2
<1>3. CASE p # n /\ q # n  BY <1>3 DEF Unique, AuthAt
<1> QED  BY <1>1, <1>2, <1>3

\* The numbers of a connection only go up, and its flag goes down only with a new number.
Later ==
    \A c \in Conn :
        /\ authGen[c] \in Nat /\ authGen'[c] \in Nat /\ authGen[c] <= authGen'[c]
        /\ authGen'[c] = authGen[c] /\ authPending[c] => authPending'[c]

LEMMA NumberedMoved ==
    ASSUME PoolInv, Numbered, Later, NEW b, NEW n,
           \A p \in Places' \ {n} : b[p] \in Places /\ At(p)' = At(b[p]),
           n \in Places' => At(n)'.type # "auth" \/ \E c \in Conn : At(n)'.conn = c /\ At(n)'.gen = authGen'[c] /\ authPending'[c]
    PROVE  Numbered'
<1> SUFFICES ASSUME NEW p \in Places', At(p)'.type = "auth"
             PROVE  /\ At(p)'.gen <= authGen'[At(p)'.conn]
                    /\ At(p)'.gen = authGen'[At(p)'.conn] => authPending'[At(p)'.conn]
  BY DEF Numbered, AuthAt
<1>1. CASE p = n
  BY <1>1 DEF Later
<1>2. CASE p # n
  <2>1. PICK q \in Places : At(p)' = At(q)  BY <1>2
  <2>2. PICK g, c : g = At(q).gen /\ c = At(q).conn  OBVIOUS
  <2>3. g \in Nat /\ c \in Conn  BY <2>2, JobAt, JobFields DEF JobParts
  <2>4. At(q).type = "auth"  BY <2>1
  <2>5. g <= authGen[c] /\ (g = authGen[c] => authPending[c])  BY <2>2, <2>4 DEF Numbered, AuthAt
  <2>6. PICK x, y : x = authGen[c] /\ y = authGen'[c]  OBVIOUS
  <2>7. x \in Nat /\ y \in Nat /\ x <= y /\ (y = x /\ authPending[c] => authPending'[c])
    BY <2>3, <2>6 DEF Later
  <2>8. g <= y /\ (g = y => y = x)  BY <2>3, <2>5, <2>6, <2>7
  <2> QED  BY <2>1, <2>2, <2>5, <2>6, <2>7, <2>8
<1> QED  BY <1>1, <1>2

\* Jobs stay where they are, or are thrown away.
LEMMA Stay ==
    ASSUME PoolInv, AuthInv, Later, Places' \subseteq Places, \A p \in Places' : At(p)' = At(p)
    PROVE  AuthInv'
<1> DEFINE b == [p \in Places' |-> p]
           n == <<"nowhere", 0>>
<1>1. n \notin Places  BY DEF Places
<1>2. \A p \in Places' \ {n} : b[p] \in Places /\ At(p)' = At(b[p])  OBVIOUS
<1>3. \A p, q \in Places' \ {n} : b[p] = b[q] => p = q  OBVIOUS
<1>4. n \notin Places'  BY <1>1
<1> HIDE DEF b, n
<1>5. Unique'  BY <1>2, <1>3, <1>4, UniqueMoved DEF AuthInv
<1>6. Numbered'  BY <1>2, <1>4, NumberedMoved DEF AuthInv
<1> QED  BY <1>5, <1>6 DEF AuthInv

LEMMA SameGens ==
    ASSUME PoolInv, authGen' = authGen, authPending' = authPending
    PROVE  Later
<1>1. play.auths \in Nat  BY PlayType DEF PoolInv, TypeOK
<1>2. authGen \in [Conn -> 0..(play.auths + 1)]  BY DEF PoolInv, TypeOK
<1>3. \A c \in Conn : authGen[c] \in Nat  BY <1>1, <1>2
<1> QED  BY <1>3 DEF Later

\* What the loop does to the jobs in the workers' hands: nothing.
LEMMA HandsOff ==
    ASSUME PoolInv, LoopNext
    PROVE  Busy' = Busy /\ job' = job
<1>1. WorkerTypes  BY PoolParts DEF Held
<1>2. WakesOnly /\ job' = job  BY <1>1, LoopWakes
<1> QED  BY <1>2 DEF WakesOnly, Busy, BusyAt

\* Accept to Close, and the ends of the loop: what is queued stays, or is thrown away at the end.
LEMMA QuietAuth ==
    ASSUME PoolInv, AuthInv,
           \/ DrainWake \/ DrainEnd \/ Stop \/ Joined \/ Stopped
           \/ \E c \in Conn : \/ Accept(c) \/ SendUser(c) \/ Webirc(c) \/ RescueLookup(c) \/ RescueAuth(c) \/ Close(c)
    PROVE  AuthInv'
<1>1. LoopNext  BY DEF LoopNext, Drain
<1>2. Busy' = Busy /\ job' = job  BY <1>1, HandsOff
<1>3. (queue' = queue \/ queue' = << >>) /\ ring' = ring /\ batch' = batch
  BY DEF DrainWake, DrainEnd, Stop, Joined, Stopped, Accept, SendUser, Webirc, RescueLookup, RescueAuth, Close,
     queueVars, ringVars, vars
<1>4. Places' \subseteq Places /\ \A p \in Places' : At(p)' = At(p)
  BY <1>2, <1>3 DEF Places, At
<1>5. Later
  <2>1. CASE \E c \in Conn : RescueAuth(c)
    <3>1. PICK c \in Conn : RescueAuth(c)  BY <2>1
    <3>2. /\ authGen' = [authGen EXCEPT ![c] = authGen[c] + 1]
          /\ authPending' = [authPending EXCEPT ![c] = FALSE]
      BY <3>1 DEF RescueAuth, NextGen
    <3>3. play.auths \in Nat  BY PlayType DEF PoolInv, TypeOK
    <3>4. authGen \in [Conn -> 0..(play.auths + 1)] /\ authPending \in [Conn -> BOOLEAN]  BY DEF PoolInv, TypeOK
    <3>5. \A d \in Conn : authGen[d] \in Nat  BY <3>3, <3>4
    <3>6. authGen'[c] = authGen[c] + 1 /\ \A d \in Conn \ {c} : authGen'[d] = authGen[d] /\ authPending'[d] = authPending[d]
      BY <3>2, <3>4
    <3>7. authGen'[c] \in Nat /\ authGen[c] <= authGen'[c] /\ authGen'[c] # authGen[c]  BY <3>5, <3>6
    <3> QED  BY <3>5, <3>6, <3>7 DEF Later
  <2>2. CASE ~\E c \in Conn : RescueAuth(c)
    <3>1. authGen' = authGen /\ authPending' = authPending
      BY <2>2 DEF DrainWake, DrainEnd, Stop, Joined, Stopped, Accept, SendUser, Webirc, RescueLookup, Close, loopVars, vars
    <3> QED  BY <3>1, SameGens
  <2> QED  BY <2>1, <2>2
<1> QED  BY <1>4, <1>5, Stay

\* A lookup goes to the end of the queue.
LEMMA LookupAuth ==
    ASSUME PoolInv, AuthInv, SubmitLookup
    PROVE  AuthInv'
<1>1. LoopNext  BY DEF LoopNext
<1>2. Busy' = Busy /\ job' = job /\ ring' = ring /\ batch' = batch
  BY <1>1, HandsOff DEF SubmitLookup, ringVars
<1>3. Later  BY SameGens DEF SubmitLookup
<1>4. CASE Refused
  <2>1. Places' \subseteq Places /\ \A p \in Places' : At(p)' = At(p)
    BY <1>2, <1>4 DEF Places, At, Refused, queueVars
  <2> QED  BY <1>3, <2>1, Stay
<1>5. CASE ~Refused
  <2> DEFINE j == [type |-> Head(todo[2]), conn |-> todo[1], gen |-> 0]
  <2>1. Submit(j)  BY <1>5 DEF SubmitLookup
  <2>2. LoopTypes /\ todo # << >>  BY PoolParts DEF SubmitLookup
  <2>3. j.type \in Lookup /\ j.type # "auth"  BY <2>2, LookupTypes DEF Lookup
  <2> HIDE DEF j
  <2>4. queue' = Append(queue, j)  BY <2>1, <2>3 DEF Submit
  <2>5. queue \in Seq(Job)  BY DEF PoolInv, TypeOK
  <2>6. PICK k \in Nat : k = Len(queue) + 1  BY <2>5
  <2>7. DOMAIN queue' = DOMAIN queue \cup {k} /\ queue'[k] = j /\ \A i \in DOMAIN queue : queue'[i] = queue[i]
    BY <2>4, <2>5, <2>6
  <2>8. PICK n : n = <<"queue", k>>  OBVIOUS
  <2>9. \A p \in Places' \ {n} : p \in Places /\ At(p)' = At(p)
    BY <1>2, <2>7, <2>8 DEF Places, At
  <2>10. At(n)'.type # "auth"  BY <2>3, <2>7, <2>8, PlaceForms
  <2> DEFINE b == [p \in Places |-> p]
  <2>11. \A p \in Places' \ {n} : b[p] \in Places /\ At(p)' = At(b[p])  BY <2>9
  <2>12. \A p, q \in Places' \ {n} : b[p] = b[q] => p = q  BY <2>9
  <2> HIDE DEF b
  <2>13. Unique'  BY <2>10, <2>11, <2>12, UniqueMoved DEF AuthInv
  <2>14. Numbered'  BY <1>3, <2>10, <2>11, NumberedMoved DEF AuthInv
  <2> QED  BY <2>13, <2>14 DEF AuthInv
<1> QED  BY <1>4, <1>5

\* A password check goes to the front of the queue, with a number no other one has.
LEMMA OperAuth ==
    ASSUME PoolInv, AuthInv, NEW c \in Conn, Oper(c)
    PROVE  AuthInv'
<1>1. LoopNext  BY DEF LoopNext
<1>2. Busy' = Busy /\ job' = job /\ ring' = ring /\ batch' = batch
  BY <1>1, HandsOff DEF Oper, ringVars
<1>3. play.auths \in Nat /\ authGen \in [Conn -> 0..(play.auths + 1)] /\ authPending \in [Conn -> BOOLEAN]
  BY PlayType DEF PoolInv, TypeOK
<1>4. \A d \in Conn : authGen[d] \in Nat  BY <1>3
<1>5. authGen' = [authGen EXCEPT ![c] = authGen[c] + 1] /\ ~authPending[c]  BY DEF Oper
<1>6. authGen'[c] = authGen[c] + 1 /\ \A d \in Conn \ {c} : authGen'[d] = authGen[d]  BY <1>3, <1>5
<1>7. authGen'[c] \in Nat /\ authGen[c] <= authGen'[c] /\ authGen'[c] # authGen[c]  BY <1>4, <1>6
<1>8. authPending' = authPending \/ authPending' = [authPending EXCEPT ![c] = TRUE]  BY DEF Oper
<1>9. Later  BY <1>3, <1>4, <1>6, <1>7, <1>8 DEF Later
<1>10. CASE Refused
  <2>1. Places' \subseteq Places /\ \A p \in Places' : At(p)' = At(p)
    BY <1>2, <1>10 DEF Places, At, Refused, queueVars
  <2> QED  BY <1>9, <2>1, Stay
<1>11. CASE ~Refused
  <2>1. PICK j : j = [type |-> "auth", conn |-> c, gen |-> authGen[c] + 1]  OBVIOUS
  <2>2. Submit(j) /\ authPending' = [authPending EXCEPT ![c] = TRUE]  BY <1>11, <2>1 DEF Oper
  <2>3. j.type = "auth" /\ j.conn = c /\ j.gen = authGen[c] + 1  BY <2>1
  <2>4. queue' = <<j>> \o queue  BY <2>2, <2>3 DEF Submit
  <2>5. queue \in Seq(Job)  BY DEF PoolInv, TypeOK
  <2>6. PICK L \in Nat : L = Len(queue) /\ DOMAIN queue = 1..L  BY <2>5
  <2>7. DOMAIN queue' = 1..(L + 1) /\ queue'[1] = j /\ \A i \in 2..(L + 1) : queue'[i] = queue[i - 1]
    BY <2>4, <2>5, <2>6
  <2>8. PICK n : n = <<"queue", 1>>  OBVIOUS
  <2>9. n \in Places' /\ At(n)' = j  BY <2>7, <2>8, PlaceForms DEF Places
  <2> DEFINE b == [p \in Places' |-> IF p[1] = "queue" THEN <<"queue", p[2] - 1>> ELSE p]
  <2>10. ASSUME NEW p \in Places' \ {n}
         PROVE  \/ p \in Places /\ p[1] # "queue" /\ b[p] = p /\ At(p)' = At(p)
                \/ \E i \in DOMAIN queue :
                     p = <<"queue", i + 1>> /\ b[p] = <<"queue", i>> /\ At(p)' = At(<<"queue", i>>)
    <3>1. CASE p[1] = "queue"
      <4>1. PICK k \in 1..(L + 1) : p = <<"queue", k>>  BY <2>7, <3>1 DEF Places
      <4>2. PICK i \in 1..L : k = i + 1 /\ k - 1 = i /\ k \in 2..(L + 1)  BY <2>6, <2>8, <4>1
      <4>3. At(p)' = At(<<"queue", i>>)  BY <2>7, <4>1, <4>2, PlaceForms
      <4>4. b[p] = <<"queue", i>>  BY <4>1, <4>2
      <4> QED  BY <2>6, <4>1, <4>2, <4>3, <4>4
    <3>2. CASE p[1] # "queue"
      BY <1>2, <3>2 DEF Places, At
    <3> QED  BY <3>1, <3>2
  <2> HIDE DEF b
  <2>11. \A p \in Places' \ {n} : b[p] \in Places /\ At(p)' = At(b[p])
    BY <2>10, PlaceKinds
  <2>12. \A p, q \in Places' \ {n} : b[p] = b[q] => p = q
    <3> SUFFICES ASSUME NEW p \in Places' \ {n}, NEW q \in Places' \ {n}, b[p] = b[q] PROVE p = q
      OBVIOUS
    <3>1. \/ p[1] # "queue" /\ b[p] = p
          \/ \E i : p = <<"queue", i + 1>> /\ b[p] = <<"queue", i>>
      BY <2>10
    <3>2. \/ q[1] # "queue" /\ b[q] = q
          \/ \E i : q = <<"queue", i + 1>> /\ b[q] = <<"queue", i>>
      BY <2>10
    <3> QED  BY <3>1, <3>2
  <2>13. \A p \in Places : At(p) # j
    <3> SUFFICES ASSUME NEW p \in Places, At(p) = j PROVE FALSE
      OBVIOUS
    <3>1. j.gen <= authGen[j.conn]  BY <2>3 DEF AuthInv, Numbered, AuthAt
    <3> QED  BY <1>4, <2>3, <3>1
  <2>14. At(n)'.conn = c /\ At(n)'.gen = authGen'[c] /\ authPending'[c]
    BY <1>3, <1>6, <2>2, <2>3, <2>9
  <2>15. Unique'  BY <2>9, <2>11, <2>12, <2>13, UniqueMoved DEF AuthInv
  <2>16. Numbered'  BY <1>9, <2>11, <2>14, NumberedMoved DEF AuthInv
  <2> QED  BY <2>15, <2>16 DEF AuthInv
<1> QED  BY <1>10, <1>11

LEMMA Nowhere == <<"nowhere", 0>> \notin Places /\ <<"nowhere", 0>> \notin Places'
  BY DEF Places

\* A step that only moves jobs, along b.
LEMMA Moves ==
    ASSUME PoolInv, AuthInv, Later, NEW b,
           \A p \in Places' : b[p] \in Places /\ At(p)' = At(b[p]),
           \A p, q \in Places' : b[p] = b[q] => p = q
    PROVE  AuthInv'
<1>1. PICK n : n \notin Places'  BY Nowhere
<1>2. Unique'  BY <1>1, UniqueMoved DEF AuthInv
<1>3. Numbered'  BY <1>1, NumberedMoved DEF AuthInv
<1> QED  BY <1>2, <1>3 DEF AuthInv

\* Results are taken from the front of the ring.
LEMMA TakeAuth ==
    ASSUME PoolInv, AuthInv, TakeResults
    PROVE  AuthInv'
<1>1. LoopNext  BY DEF LoopNext, Drain
<1>2. Busy' = Busy /\ job' = job /\ queue' = queue  BY <1>1, HandsOff DEF TakeResults, queueVars
<1>3. Later  BY SameGens DEF TakeResults, loopVars
<1>4. ring \in Seq(Result) /\ batch = << >>  BY DEF TakeResults, PoolInv, TypeOK
<1>5. PICK L \in Nat : L = Len(ring) /\ DOMAIN ring = 1..L  BY <1>4
<1>6. PICK m \in 0..L : batch' = SubSeq(ring, 1, m) /\ ring' = SubSeq(ring, m + 1, L)
  <2> DEFINE m == IF Len(ring) < BatchMax THEN Len(ring) ELSE BatchMax
  <2>1. batch' = SubSeq(ring, 1, m) /\ ring' = SubSeq(ring, m + 1, L)  BY <1>5 DEF TakeResults
  <2>2. m \in 0..L  BY <1>5, Consts
  <2> QED  BY <2>1, <2>2
<1>7. DOMAIN batch' = 1..m /\ \A i \in 1..m : i \in 1..L /\ batch'[i] = ring[i]
  BY <1>4, <1>5, <1>6
<1>8. DOMAIN ring' = 1..(L - m) /\ \A i \in 1..(L - m) : i + m \in 1..L /\ ring'[i] = ring[i + m]
  BY <1>4, <1>5, <1>6
<1> DEFINE b == [p \in Places' |-> IF p[1] = "batch" THEN <<"ring", p[2]>>
                                   ELSE IF p[1] = "ring" THEN <<"ring", p[2] + m>> ELSE p]
<1>9. ASSUME NEW p \in Places'
      PROVE  \/ p \in Places /\ p[1] \notin {"ring", "batch"} /\ b[p] = p /\ At(p)' = At(p)
             \/ \E i \in 1..m : i \in 1..L /\ p = <<"batch", i>> /\ b[p] = <<"ring", i>> /\ At(p)' = At(<<"ring", i>>)
             \/ \E i \in 1..(L - m) : /\ i + m \in 1..L /\ p = <<"ring", i>> /\ b[p] = <<"ring", i + m>>
                                      /\ At(p)' = At(<<"ring", i + m>>)
  <2>1. CASE p[1] = "batch"
    <3>1. PICK i \in 1..m : p = <<"batch", i>>  BY <1>7, <2>1 DEF Places
    <3>2. At(p)' = At(<<"ring", i>>)  BY <1>7, <3>1, PlaceForms
    <3> QED  BY <1>7, <3>1, <3>2
  <2>2. CASE p[1] = "ring"
    <3>1. PICK i \in 1..(L - m) : p = <<"ring", i>>  BY <1>8, <2>2 DEF Places
    <3>2. At(p)' = At(<<"ring", i + m>>)  BY <1>8, <3>1, PlaceForms
    <3>3. b[p] = <<"ring", i + m>>  BY <3>1
    <3> QED  BY <1>8, <3>1, <3>2, <3>3
  <2>3. CASE p[1] \notin {"ring", "batch"}
    BY <1>2, <2>3 DEF Places, At
  <2> QED  BY <2>1, <2>2, <2>3
<1> HIDE DEF b
<1>10. \A p \in Places' : b[p] \in Places /\ At(p)' = At(b[p])
  <2>1. \A i \in 1..L : <<"ring", i>> \in Places  BY <1>5, PlaceKinds
  <2> QED  BY <1>9, <2>1
<1>11. \A p, q \in Places' : b[p] = b[q] => p = q
  <2> SUFFICES ASSUME NEW p \in Places', NEW q \in Places', b[p] = b[q] PROVE p = q
    OBVIOUS
  <2>1. \/ p[1] # "ring" /\ b[p] = p
        \/ \E i \in 1..m : p = <<"batch", i>> /\ b[p] = <<"ring", i>>
        \/ \E i \in 1..(L - m) : p = <<"ring", i>> /\ b[p] = <<"ring", i + m>>
    BY <1>9
  <2>2. \/ q[1] # "ring" /\ b[q] = q
        \/ \E i \in 1..m : q = <<"batch", i>> /\ b[q] = <<"ring", i>>
        \/ \E i \in 1..(L - m) : q = <<"ring", i>> /\ b[q] = <<"ring", i + m>>
    BY <1>9
  <2>3. \A i \in 1..m, k \in 1..(L - m) : i # k + m  OBVIOUS
  <2>4. \A i, k \in 1..(L - m) : i + m = k + m => i = k  OBVIOUS
  <2> QED  BY <2>1, <2>2, <2>3, <2>4
<1> QED  BY <1>3, <1>10, <1>11, Moves

\* An answer is applied once: no other one has its number.
LEMMA ApplyAuth ==
    ASSUME PoolInv, AuthInv, ApplyResult
    PROVE  AuthInv'
<1>1. LoopNext  BY DEF LoopNext, Drain
<1>2. Busy' = Busy /\ job' = job /\ queue' = queue /\ ring' = ring
  BY <1>1, HandsOff DEF ApplyResult, queueVars, ringVars
<1>3. batch \in Seq(Result) /\ batch # << >> /\ batch' = Tail(batch)  BY DEF ApplyResult, PoolInv, TypeOK
<1>4. PICK L \in Nat : L = Len(batch) /\ DOMAIN batch = 1..L /\ L > 0  BY <1>3
<1>5. DOMAIN batch' = 1..(L - 1) /\ \A i \in 1..(L - 1) : i + 1 \in 1..L /\ batch'[i] = batch[i + 1]
  BY <1>3, <1>4
<1>6. PICK f : f = <<"batch", 1>>  OBVIOUS
<1>7. f \in Places /\ At(f) = Head(batch).job  BY <1>3, <1>4, <1>6, PlaceForms DEF Places
<1> DEFINE b == [p \in Places' |-> IF p[1] = "batch" THEN <<"batch", p[2] + 1>> ELSE p]
<1>8. ASSUME NEW p \in Places'
      PROVE  \/ p \in Places /\ p[1] # "batch" /\ b[p] = p /\ At(p)' = At(p)
             \/ \E i \in 1..(L - 1) : /\ i + 1 \in 1..L /\ p = <<"batch", i>> /\ b[p] = <<"batch", i + 1>>
                                      /\ At(p)' = At(<<"batch", i + 1>>)
  <2>1. CASE p[1] = "batch"
    <3>1. PICK i \in 1..(L - 1) : p = <<"batch", i>>  BY <1>5, <2>1 DEF Places
    <3>2. At(p)' = At(<<"batch", i + 1>>)  BY <1>5, <3>1, PlaceForms
    <3>3. b[p] = <<"batch", i + 1>>  BY <3>1
    <3> QED  BY <1>5, <3>1, <3>2, <3>3
  <2>2. CASE p[1] # "batch"
    BY <1>2, <2>2 DEF Places, At
  <2> QED  BY <2>1, <2>2
<1> HIDE DEF b
<1>9. \A p \in Places' : b[p] \in Places /\ At(p)' = At(b[p])
  BY <1>4, <1>8, PlaceKinds
<1>10. \A p, q \in Places' : b[p] = b[q] => p = q
  <2> SUFFICES ASSUME NEW p \in Places', NEW q \in Places', b[p] = b[q] PROVE p = q
    OBVIOUS
  <2>1. \/ p[1] # "batch" /\ b[p] = p
        \/ \E i \in 1..(L - 1) : p = <<"batch", i>> /\ b[p] = <<"batch", i + 1>>
    BY <1>8
  <2>2. \/ q[1] # "batch" /\ b[q] = q
        \/ \E i \in 1..(L - 1) : q = <<"batch", i>> /\ b[q] = <<"batch", i + 1>>
    BY <1>8
  <2>3. \A i, k \in 1..(L - 1) : i + 1 = k + 1 => i = k  OBVIOUS
  <2> QED  BY <2>1, <2>2, <2>3
<1>11. \A p \in Places' : b[p] # f
  <2>1. \A i \in 1..(L - 1) : i + 1 # 1  OBVIOUS
  <2> SUFFICES ASSUME NEW p \in Places', b[p] = f PROVE FALSE
    OBVIOUS
  <2>2. b[p][1] = "batch" /\ b[p][2] = 1  BY <1>6
  <2>3. PICK i \in 1..(L - 1) : b[p] = <<"batch", i + 1>>  BY <1>8, <2>2
  <2> QED  BY <2>1, <2>2, <2>3
<1>12. PICK j : j = Head(batch).job  OBVIOUS
<1>13. j \in Job /\ JobParts(j)  BY <1>7, <1>12, JobAt, JobFields
<1>14. CASE Stale(j) \/ j.type # "auth"
  <2>1. authGen' = authGen
    BY <1>12 DEF ApplyResult, loopVars
  <2>2. authPending' = authPending
    <3>1. CASE Stale(j)  BY <1>12, <3>1 DEF ApplyResult, loopVars
    <3>2. CASE ~Stale(j) /\ j.type # "auth"
      <4>1. authPending' = [authPending EXCEPT ![j.conn] = authPending[j.conn] /\ j.type # "auth"]
        BY <1>12, <3>2 DEF ApplyResult
      <4>2. authPending \in [Conn -> BOOLEAN]  BY DEF PoolInv, TypeOK
      <4>3. (authPending[j.conn] /\ j.type # "auth") = authPending[j.conn]
        BY <1>13, <3>2, <4>2 DEF JobParts
      <4> QED  BY <4>1, <4>2, <4>3
    <3> QED  BY <1>14, <3>1, <3>2
  <2> QED  BY <1>9, <1>10, <2>1, <2>2, SameGens, Moves
<1>15. CASE ~Stale(j) /\ j.type = "auth"
  <2>1. PICK c \in Conn : c = j.conn  BY <1>13 DEF JobParts
  <2>2. j.gen = authGen[c] /\ j = [type |-> "auth", conn |-> c, gen |-> authGen[c]]
    BY <1>13, <1>15, <2>1 DEF Stale, JobParts
  <2>3. authGen' = authGen  BY <1>12, <1>15 DEF ApplyResult
  <2>4. authPending \in [Conn -> BOOLEAN]  BY DEF PoolInv, TypeOK
  <2>5. \A d \in Conn \ {c} : authPending'[d] = authPending[d]
    <3>1. authPending' = [authPending EXCEPT ![c] = authPending[c] /\ j.type # "auth"]
      BY <1>12, <1>15, <2>1 DEF ApplyResult
    <3> QED  BY <2>4, <3>1
  <2>6. PICK n : n \notin Places'  BY Nowhere
  <2>7. Unique'  BY <1>9, <1>10, <2>6, UniqueMoved DEF AuthInv
  <2>8. Numbered'
    <3> SUFFICES ASSUME NEW p \in Places', At(p)'.type = "auth"
                 PROVE  /\ At(p)'.gen <= authGen'[At(p)'.conn]
                        /\ At(p)'.gen = authGen'[At(p)'.conn] => authPending'[At(p)'.conn]
      BY DEF Numbered, AuthAt
    <3>1. PICK q \in Places : At(p)' = At(q) /\ q # f  BY <1>9, <1>11
    <3>2. PICK k : k = At(q)  OBVIOUS
    <3>3. k.type = "auth" /\ JobParts(k)  BY <3>1, <3>2, JobAt, JobFields
    <3>4. k.gen <= authGen[k.conn] /\ (k.gen = authGen[k.conn] => authPending[k.conn])
      BY <3>2, <3>3 DEF AuthInv, Numbered, AuthAt
    <3>5. k # j  BY <1>7, <1>12, <3>1, <3>2, <3>3 DEF AuthInv, Unique, AuthAt
    <3>6. ~(k.conn = c /\ k.gen = authGen[c])  BY <2>2, <3>3, <3>5 DEF JobParts
    <3>7. k.conn \in Conn  BY <3>3 DEF JobParts
    <3>8. k.gen = authGen[k.conn] => authPending'[k.conn]  BY <2>5, <3>4, <3>6, <3>7
    <3> QED  BY <2>3, <3>1, <3>2, <3>4, <3>8
  <2> QED  BY <2>7, <2>8 DEF AuthInv
<1> QED  BY <1>14, <1>15

\* A worker takes the job at the head of the queue, or drops it when its connection is gone.
LEMMA DequeueAuth ==
    ASSUME PoolInv, AuthInv, NEW w \in Worker, Dequeue(w)
    PROVE  AuthInv'
<1>1. WorkerTypes  BY PoolParts DEF Held
<1>2. ring' = ring /\ batch' = batch  BY DEF Dequeue, ringVars
<1>3. Later  BY SameGens DEF Dequeue, loopVars
<1>4. queue \in Seq(Job) /\ queue # << >> /\ queue' = Tail(queue)  BY DEF Dequeue, PoolInv, TypeOK
<1>5. PICK L \in Nat : L = Len(queue) /\ DOMAIN queue = 1..L /\ L > 0  BY <1>4
<1>6. DOMAIN queue' = 1..(L - 1) /\ \A i \in 1..(L - 1) : i + 1 \in 1..L /\ queue'[i] = queue[i + 1]
  BY <1>4, <1>5
<1>7. /\ \A v \in Worker \ {w} : (v \in Busy' <=> v \in Busy) /\ job'[v] = job[v]
      /\ w \notin Busy /\ Busy \subseteq Worker /\ Busy' \subseteq Worker
      /\ w \in Busy' => job'[w] = queue[1]
  BY <1>1, <1>4 DEF Dequeue, Goto, WorkerTypes, Busy, BusyAt
<1> DEFINE b == [p \in Places' |-> IF p[1] = "queue" THEN <<"queue", p[2] + 1>>
                                   ELSE IF p = <<"worker", w>> THEN <<"queue", 1>> ELSE p]
<1>8. ASSUME NEW p \in Places'
      PROVE  \/ p \in Places /\ p[1] # "queue" /\ b[p] = p /\ At(p)' = At(p)
             \/ p = <<"worker", w>> /\ b[p] = <<"queue", 1>> /\ At(p)' = At(<<"queue", 1>>)
             \/ \E i \in 1..(L - 1) : /\ i + 1 \in 1..L /\ p = <<"queue", i>> /\ b[p] = <<"queue", i + 1>>
                                      /\ At(p)' = At(<<"queue", i + 1>>)
  <2>1. CASE p[1] = "queue"
    <3>1. PICK i \in 1..(L - 1) : p = <<"queue", i>>  BY <1>6, <2>1 DEF Places
    <3>2. At(p)' = At(<<"queue", i + 1>>)  BY <1>6, <3>1, PlaceForms
    <3>3. b[p] = <<"queue", i + 1>>  BY <3>1
    <3> QED  BY <1>6, <3>1, <3>2, <3>3
  <2>2. CASE p = <<"worker", w>>
    <3>1. w \in Busy'  BY <2>2 DEF Places
    <3>2. At(p)' = At(<<"queue", 1>>)  BY <1>7, <2>2, <3>1, PlaceForms
    <3> QED  BY <2>2, <3>2
  <2>3. CASE p[1] = "worker" /\ p # <<"worker", w>>
    <3>1. PICK v \in Busy' : p = <<"worker", v>> /\ v # w  BY <2>3 DEF Places
    <3>2. v \in Busy /\ At(p)' = At(p)  BY <1>7, <3>1, PlaceForms
    <3>3. p \in Places  BY <3>1, <3>2, PlaceKinds
    <3> QED  BY <2>3, <3>2, <3>3
  <2>4. CASE p[1] \in {"ring", "batch"}
    BY <1>2, <2>4 DEF Places, At
  <2>5. p[1] \in {"queue", "worker", "ring", "batch"}  BY DEF Places
  <2> QED  BY <2>1, <2>2, <2>3, <2>4, <2>5
<1> HIDE DEF b
<1>9. \A p \in Places' : b[p] \in Places /\ At(p)' = At(b[p])
  <2>1. \A i \in 1..L : <<"queue", i>> \in Places  BY <1>5, PlaceKinds
  <2>2. <<"queue", 1>> \in Places  BY <1>5, <2>1
  <2> QED  BY <1>8, <2>1, <2>2
<1>10. \A p, q \in Places' : b[p] = b[q] => p = q
  <2> SUFFICES ASSUME NEW p \in Places', NEW q \in Places', b[p] = b[q] PROVE p = q
    OBVIOUS
  <2>1. \/ p[1] # "queue" /\ b[p] = p
        \/ p = <<"worker", w>> /\ b[p] = <<"queue", 1>>
        \/ \E i \in 1..(L - 1) : p = <<"queue", i>> /\ b[p] = <<"queue", i + 1>>
    BY <1>8
  <2>2. \/ q[1] # "queue" /\ b[q] = q
        \/ q = <<"worker", w>> /\ b[q] = <<"queue", 1>>
        \/ \E i \in 1..(L - 1) : q = <<"queue", i>> /\ b[q] = <<"queue", i + 1>>
    BY <1>8
  <2>3. \A i, k \in 1..(L - 1) : (i + 1 = k + 1 => i = k) /\ i + 1 # 1  OBVIOUS
  <2> QED  BY <2>1, <2>2, <2>3
<1> QED  BY <1>3, <1>9, <1>10, Moves

\* A worker puts its result at the end of the ring, or drops it when the ring is full.
LEMMA PushAuth ==
    ASSUME PoolInv, AuthInv, NEW w \in Worker, Push(w)
    PROVE  AuthInv'
<1>1. WorkerTypes  BY PoolParts DEF Held
<1>2. queue' = queue /\ batch' = batch  BY DEF Push, queueVars
<1>3. Later  BY SameGens DEF Push, loopVars
<1>4. /\ w \in Busy /\ w \notin Busy' /\ Busy' \subseteq Busy
      /\ \A v \in Busy' : job'[v] = job[v]
  BY <1>1 DEF Push, Goto, AfterPush, WorkerTypes, Busy, BusyAt
<1>5. ring \in Seq(Result)  BY DEF PoolInv, TypeOK
<1>6. CASE ~RingRoom
  <2>1. ring' = ring  BY <1>6 DEF Push
  <2>2. Places' \subseteq Places /\ \A p \in Places' : At(p)' = At(p)
    BY <1>2, <1>4, <2>1 DEF Places, At
  <2> QED  BY <1>3, <2>2, Stay
<1>7. CASE RingRoom
  <2>1. PICK k \in Nat : k = Len(ring) + 1  BY <1>5
  <2>2. ring' = Append(ring, [job |-> job[w], ok |-> success[w]])  BY <1>7 DEF Push
  <2>3. /\ DOMAIN ring' = DOMAIN ring \cup {k} /\ k \notin DOMAIN ring
        /\ ring'[k].job = job[w] /\ \A i \in DOMAIN ring : ring'[i] = ring[i]
    BY <1>5, <2>1, <2>2
  <2>4. PICK n : n = <<"ring", k>>  OBVIOUS
  <2> DEFINE b == [p \in Places' |-> IF p = n THEN <<"worker", w>> ELSE p]
  <2>5. ASSUME NEW p \in Places'
        PROVE  \/ p \in Places /\ p # n /\ p # <<"worker", w>> /\ b[p] = p /\ At(p)' = At(p)
               \/ p = n /\ b[p] = <<"worker", w>> /\ At(p)' = At(<<"worker", w>>)
    <3>1. CASE p = n
      <4>1. At(p)' = At(<<"worker", w>>)  BY <2>3, <2>4, <3>1, PlaceForms
      <4> QED  BY <3>1, <4>1
    <3>2. CASE p # n /\ p[1] = "ring"
      <4>1. PICK i \in DOMAIN ring : p = <<"ring", i>>  BY <2>3, <2>4, <3>2 DEF Places
      <4>2. At(p)' = At(p)  BY <2>3, <4>1, PlaceForms
      <4>3. p \in Places  BY <4>1, PlaceKinds
      <4> QED  BY <3>2, <4>2, <4>3
    <3>3. CASE p # n /\ p[1] = "worker"
      <4>1. PICK v \in Busy' : p = <<"worker", v>>  BY <3>3 DEF Places
      <4>2. v \in Busy /\ v # w /\ At(p)' = At(p)  BY <1>4, <4>1, PlaceForms
      <4>3. p \in Places /\ p # <<"worker", w>>  BY <4>1, <4>2, PlaceKinds
      <4> QED  BY <3>3, <4>2, <4>3
    <3>4. CASE p # n /\ p[1] \in {"queue", "batch"}
      BY <1>2, <3>4 DEF Places, At
    <3>5. p[1] \in {"queue", "worker", "ring", "batch"}  BY DEF Places
    <3> QED  BY <3>1, <3>2, <3>3, <3>4, <3>5
  <2> HIDE DEF b
  <2>6. \A p \in Places' : b[p] \in Places /\ At(p)' = At(b[p])
    BY <1>4, <2>5, PlaceKinds
  <2>7. \A p, q \in Places' : b[p] = b[q] => p = q
    BY <2>5
  <2> QED  BY <1>3, <2>6, <2>7, Moves
<1> QED  BY <1>6, <1>7

LEMMA AuthStep == PoolInv /\ AuthInv /\ [Next]_vars => AuthInv'
<1> SUFFICES ASSUME PoolInv, AuthInv, [Next]_vars PROVE AuthInv'
  OBVIOUS
<1>1. WorkerTypes  BY PoolParts DEF Held
<1>2. CASE HelperNext
  <2>1. UNCHANGED <<queue, pc, job, ring, batch, authGen, authPending>>
    BY <1>2 DEF HelperNext, Answer, HelperLeaves, HelperUncounts, HelperReleases, queueVars, workerVars, ringVars, loopVars
  <2>2. Places' \subseteq Places /\ \A p \in Places' : At(p)' = At(p)
    BY <2>1 DEF Places, At, Busy
  <2> QED  BY <2>1, <2>2, SameGens, Stay
<1>3. ASSUME NEW w \in Worker,
             \/ WaitForWork(w) \/ Ident(w) \/ ScryptEnter(w) \/ Scrypt(w) \/ Wake(w)
             \/ CountHelper(w) \/ Uncount(w) \/ Spawn(w) \/ SpawnFails(w) \/ CallEnds(w) \/ ReleaseCall(w)
      PROVE  AuthInv'
  <2>1. UNCHANGED <<queue, job, ring, batch, authGen, authPending>>
    BY <1>3 DEF WaitForWork, Ident, ScryptEnter, Scrypt, Wake, CountHelper, Uncount, Spawn, SpawnFails, CallEnds,
       ReleaseCall, queueVars, workerVars, ringVars, loopVars
  <2>2. Busy' \subseteq Busy
    <3>1. CASE WaitForWork(w) \/ Ident(w) \/ Wake(w) \/ ScryptEnter(w)
      BY <1>1, <3>1 DEF WaitForWork, Ident, Wake, ScryptEnter, Running, Goto, WorkerTypes, Busy, BusyAt
    <3>2. CASE Scrypt(w)
      BY <1>1, <3>2, ScryptMoves DEF Busy, BusyAt
    <3>3. CASE CountHelper(w) \/ Uncount(w) \/ Spawn(w) \/ SpawnFails(w) \/ CallEnds(w) \/ ReleaseCall(w)
      BY <1>1, <3>3 DEF CountHelper, Uncount, Spawn, SpawnFails, CallEnds, ReleaseCall, Running, Goto, WorkerTypes,
         Busy, BusyAt
    <3> QED  BY <1>3, <3>1, <3>2, <3>3
  <2>3. Places' \subseteq Places /\ \A p \in Places' : At(p)' = At(p)
    BY <2>1, <2>2 DEF Places, At
  <2> QED  BY <2>1, <2>3, SameGens, Stay
<1>4. CASE UNCHANGED vars
  <2>1. UNCHANGED <<queue, pc, job, ring, batch, authGen, authPending>>
    BY <1>4 DEF vars, queueVars, workerVars, ringVars, loopVars
  <2>2. Places' \subseteq Places /\ \A p \in Places' : At(p)' = At(p)
    BY <2>1 DEF Places, At, Busy
  <2> QED  BY <2>1, <2>2, SameGens, Stay
<1> QED  BY <1>2, <1>3, <1>4, QuietAuth, LookupAuth, OperAuth, TakeAuth, ApplyAuth, DequeueAuth, PushAuth
         DEF Next, Step, Drain, HelperNext, WorkerStep

\* Every password check on its way (worker_submit to drain_worker_results) that has its connection's
\* current number is one that connection waits for: a late answer makes nobody an operator who was
\* told that the login timed out, or whose next attempt is out.
THEOREM AuthCurrentHolds == Spec => []AuthCurrent
<1>1. Init => AuthInv
  <2> SUFFICES ASSUME Init PROVE AuthInv
    OBVIOUS
  <2>1. queue = << >> /\ ring = << >> /\ batch = << >> /\ Busy = {}  BY DEF Init, Busy, BusyAt
  <2>2. Places = {}  BY <2>1 DEF Places
  <2> QED  BY <2>2 DEF AuthInv, Unique, Numbered
<1>2. PoolInv /\ AuthInv => AuthCurrent
  <2> SUFFICES ASSUME PoolInv, AuthInv, NEW j \in InFlight, j.type = "auth", j.gen = authGen[j.conn]
               PROVE  authPending[j.conn]
    BY DEF AuthCurrent
  <2>1. \E p \in Places : At(p) = j
    <3>1. \A v \in Worker : job[v] # NoJob => v \in Busy  BY DEF PoolInv, Jobs
    <3>2. CASE \E i \in DOMAIN queue : j = queue[i]  BY <3>2, PlaceForms, PlaceKinds
    <3>3. CASE \E v \in Worker : job[v] # NoJob /\ j = job[v]  BY <3>1, <3>3, PlaceForms, PlaceKinds
    <3>4. CASE \E i \in DOMAIN ring : j = ring[i].job  BY <3>4, PlaceForms, PlaceKinds
    <3>5. CASE \E i \in DOMAIN batch : j = batch[i].job  BY <3>5, PlaceForms, PlaceKinds
    <3> QED  BY <3>2, <3>3, <3>4, <3>5 DEF InFlight
  <2> QED  BY <2>1 DEF AuthInv, Numbered, AuthAt
<1> QED  BY <1>1, <1>2, AuthStep, PoolInductive, PTL DEF Spec
===============================================================================
