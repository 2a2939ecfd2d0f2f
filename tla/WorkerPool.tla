------------------------------ MODULE WorkerPool ------------------------------
(***************************************************************************)
(* The pthread pool that keeps blocking work off the event loop            *)
(* (worker.c), together with the side of net.c and cmd_oper.c that submits *)
(* jobs, applies their results and gives up on the ones that never come.   *)
(*                                                                         *)
(* Every lock is held for one short section, so a locked section is one    *)
(* step.  A pthread_cond_wait is a state a worker stays in until it is     *)
(* signalled and re-checks its condition.  A resolver lookup runs on a     *)
(* detached helper thread that may outlive the worker waiting for it; the  *)
(* block they share is freed by whichever of the two lets go of it last.   *)
(***************************************************************************)
EXTENDS Naturals, Sequences, FiniteSets

CONSTANTS
    Conn,           \* connections, by conn_id: never reused
    Worker,         \* the threads of the pool
    Call,           \* dns_call_t blocks, one per resolver helper
    Plays,          \* the configurations of this instance (see play)
    NoJob, NoConn, NoCall,
    QueueMax,       \* QUEUE_MAX
    RingMax,        \* RESULT_RING: holds RingMax - 1 results
    CancelRing,     \* CANCEL_RING
    ScryptMax,      \* SCRYPT_MAX_CONCURRENT
    MaxHelpers,     \* MAX_DNS_HELPERS
    BatchMax        \* how many results a poll takes (32)

ASSUME PlaysType ==
    \A p \in Plays :
        p.lookups \in Seq({"rdns", "ident", "dnsbl"}) /\ p.gateways \subseteq Conn /\ p.auths \in Nat
ASSUME Sizes ==
    /\ QueueMax \in Nat /\ RingMax \in Nat \ {0} /\ CancelRing \in Nat \ {0}
    /\ ScryptMax \in Nat \ {0} /\ MaxHelpers \in Nat /\ BatchMax \in Nat \ {0}
ASSUME Sets ==
    /\ IsFiniteSet(Worker) /\ IsFiniteSet(Call)
    /\ NoConn \notin Conn /\ NoCall \notin Call

VARIABLES
    play,           \* the lookups the configuration asks for, in submission order; the connections from a
                    \* configured [[webirc]] host; and a bound on the OPER attempts of each
    conn,           \* conn[c]: "new", "open", "quitting" or "gone"
    got,            \* got[c]: NICK and USER are in
    registered,     \* registered[c]: the welcome has been sent
    pending,        \* pending[c]: the lookups with a *_pending flag set
    webirc,         \* webirc[c]: a gateway supplied the address
    identity,       \* identity[c]: the lookups whose answer named the user or the host
    authPending,    \* authPending[c]: a password check is in flight
    authGen,        \* authGen[c]: the number of the latest attempt
    oper,           \* oper[c]: the OPER login went through
    loop,           \* the event loop: "idle", "draining", "joining" or "stopped"
    todo,           \* what net_accept still has to submit: <<c, lookups>>
    batch,          \* results taken from the ring and not applied yet
    queue,          \* g_qhead: jobs waiting for a worker
    running,        \* g_running
    cancelled,      \* g_cancelled: the ring of dead conn_ids
    cancelNext,     \* g_cancel_next
    pc,             \* pc[w]: where worker w is
    job,            \* job[w]: the job it took
    success,        \* success[w]: the answer it got
    call,           \* call[w]: the resolver call it waits for
    scryptRunning,  \* g_scrypt_running
    ring,           \* g_results
    woken,          \* the self-pipe has a byte in it
    helper,         \* helper[h]: "none", "resolving", "answered" or "leaving"
    refs,           \* refs[h]: references to the block; 0 when it is freed
    done,           \* done[h]: the answer is in
    dnsHelpers      \* g_dns_helpers

loopVars == <<conn, got, registered, pending, webirc, identity, authPending, authGen, oper>>
queueVars == <<queue, running, cancelled, cancelNext>>
workerVars == <<job, success, call>>
ringVars == <<ring, woken>>
callVars == <<helper, refs, done, dnsHelpers>>
vars == <<play, loopVars, loop, todo, batch, queueVars, pc, workerVars, scryptRunning, ringVars, callVars>>

Lookup == {"rdns", "ident", "dnsbl"}
Job == [type : Lookup, conn : Conn, gen : {0}] \cup [type : {"auth"}, conn : Conn, gen : 1..play.auths]
Result == [job : Job, ok : BOOLEAN]

Init ==
    /\ play \in Plays
    /\ conn = [c \in Conn |-> "new"]
    /\ got = [c \in Conn |-> FALSE]
    /\ registered = [c \in Conn |-> FALSE]
    /\ pending = [c \in Conn |-> {}]
    /\ webirc = [c \in Conn |-> FALSE]
    /\ identity = [c \in Conn |-> {}]
    /\ authPending = [c \in Conn |-> FALSE]
    /\ authGen = [c \in Conn |-> 0]
    /\ oper = [c \in Conn |-> FALSE]
    /\ loop = "idle" /\ todo = << >> /\ batch = << >>
    /\ queue = << >> /\ running = TRUE
    /\ cancelled = [i \in 0..(CancelRing - 1) |-> NoConn] /\ cancelNext = 0
    /\ pc = [w \in Worker |-> "idle"]
    /\ job = [w \in Worker |-> NoJob]
    /\ success = [w \in Worker |-> FALSE]
    /\ call = [w \in Worker |-> NoCall]
    /\ scryptRunning = 0
    /\ ring = << >> /\ woken = FALSE
    /\ helper = [h \in Call |-> "none"]
    /\ refs = [h \in Call |-> 0]
    /\ done = [h \in Call |-> FALSE]
    /\ dnsHelpers = 0

(***************************************************************************)
(* Condition variables.                                                    *)
(***************************************************************************)
\* pthread_cond_signal: one of the threads waiting in `from`, if there is one,
\* goes back to check its condition at `to`.  `p` is pc as the caller leaves it.
Signal(from, to, p) ==
    IF \E w \in Worker : p[w] = from
    THEN \E w \in Worker : p[w] = from /\ pc' = [p EXCEPT ![w] = to]
    ELSE pc' = p

\* Mutant: one waiter woken where all have to be.
SignalOne(from, to) == Signal(from, to, pc)

Broadcast(from, to) == pc' = [w \in Worker |-> IF pc[w] = from THEN to ELSE pc[w]]

(***************************************************************************)
(* Submitting a job.                                                       *)
(***************************************************************************)
Full == Len(queue) >= QueueMax

\* Mutant: a submission nobody is told of.
NobodyWoken == UNCHANGED pc

WakeWorker == Signal("asleep", "idle", pc)

\* worker_submit, when the queue has room: a password check goes to the front.
Submit(j) ==
    /\ ~Full
    /\ queue' = IF j.type = "auth" THEN <<j>> \o queue ELSE Append(queue, j)
    /\ WakeWorker
    /\ UNCHANGED <<running, cancelled, cancelNext>>

\* Otherwise, or when there is no memory for the node, it returns -1.
Refused == UNCHANGED <<queueVars, pc>>

\* net_accept registers the connection and goes through the lookups one by one.
Accept(c) ==
    /\ loop = "idle" /\ todo = << >> /\ conn[c] = "new"
    /\ conn' = [conn EXCEPT ![c] = "open"]
    /\ todo' = IF play.lookups = << >> THEN << >> ELSE <<c, play.lookups>>
    /\ UNCHANGED <<got, registered, pending, webirc, identity, authPending, authGen, oper, loop, batch,
                   queueVars, pc, workerVars, scryptRunning, ringVars, callVars>>

SubmitLookup ==
    /\ loop = "idle" /\ todo # << >>
    /\ LET c == todo[1]
           t == Head(todo[2])
       IN  /\ \/ Refused /\ UNCHANGED pending
              \/ /\ Submit([type |-> t, conn |-> c, gen |-> 0])
                 /\ pending' = [pending EXCEPT ![c] = @ \cup {t}]
           /\ todo' = IF Len(todo[2]) = 1 THEN << >> ELSE <<c, Tail(todo[2])>>
    /\ UNCHANGED <<conn, got, registered, webirc, identity, authPending, authGen, oper, loop, batch,
                   workerVars, scryptRunning, ringVars, callVars>>

(***************************************************************************)
(* The event loop.                                                         *)
(***************************************************************************)
LoopStep == loop = "idle" /\ todo = << >>

\* cmd_send_welcome_if_ready, given the flags as the caller leaves them.
Welcomed(c, p, a) ==
    registered[c] \/ (got[c] /\ p \cap {"rdns", "ident"} = {} /\ ~a)

\* Nothing is read from a client while its DNSBL verdict is out.
Readable(c) == conn[c] = "open" /\ "dnsbl" \notin pending[c]

\* The client finishes NICK, USER and CAP END.
SendUser(c) ==
    /\ LoopStep /\ Readable(c) /\ ~got[c]
    /\ got' = [got EXCEPT ![c] = TRUE]
    /\ registered' = [registered EXCEPT ![c] = pending[c] \cap {"rdns", "ident"} = {} /\ ~authPending[c]]
    /\ UNCHANGED <<conn, pending, webirc, identity, authPending, authGen, oper, loop, todo, batch,
                   queueVars, pc, workerVars, scryptRunning, ringVars, callVars>>

\* WEBIRC (cmd_webirc, client_apply_real_address): the lookups were about the gateway.  The
\* host is replaced; a confirmed ident is not.
Webirc(c) ==
    /\ LoopStep /\ Readable(c) /\ c \in play.gateways /\ ~got[c] /\ ~webirc[c]
    /\ webirc' = [webirc EXCEPT ![c] = TRUE]
    /\ pending' = [pending EXCEPT ![c] = {}]
    /\ identity' = [identity EXCEPT ![c] = @ \ {"rdns"}]
    /\ UNCHANGED <<conn, got, registered, authPending, authGen, oper, loop, todo, batch,
                   queueVars, pc, workerVars, scryptRunning, ringVars, callVars>>

\* OPER with a hashed password.
Oper(c) ==
    /\ LoopStep /\ Readable(c) /\ registered[c] /\ ~oper[c] /\ ~authPending[c]
    /\ authGen[c] < play.auths
    /\ authGen' = [authGen EXCEPT ![c] = @ + 1]
    /\ \/ Refused /\ UNCHANGED authPending
       \/ /\ Submit([type |-> "auth", conn |-> c, gen |-> authGen[c] + 1])
          /\ authPending' = [authPending EXCEPT ![c] = TRUE]
    /\ UNCHANGED <<conn, got, registered, pending, webirc, identity, oper, loop, todo, batch,
                   workerVars, scryptRunning, ringVars, callVars>>

\* Mutant: a rescue that forgets the DNSBL flag.
StillPending(c) == pending[c] \cap {"dnsbl"}

\* What the tick leaves pending 30 seconds after the connection came in.
PendingAfterRescue(c) == {}

\* The tick, with a lookup still out.
RescueLookup(c) ==
    /\ LoopStep /\ conn[c] = "open" /\ pending[c] # {}
    /\ pending' = [pending EXCEPT ![c] = PendingAfterRescue(c)]
    /\ registered' = [registered EXCEPT ![c] = Welcomed(c, PendingAfterRescue(c), authPending[c])]
    /\ UNCHANGED <<conn, got, webirc, identity, authPending, authGen, oper, loop, todo, batch,
                   queueVars, pc, workerVars, scryptRunning, ringVars, callVars>>

\* Mutant: a rescue that does not disown the late answer.
SameGen(c) == authGen[c]

NextGen(c) == authGen[c] + 1

\* The tick, 30 seconds after a password check was submitted.
RescueAuth(c) ==
    /\ LoopStep /\ conn[c] = "open" /\ authPending[c]
    /\ authPending' = [authPending EXCEPT ![c] = FALSE]
    /\ authGen' = [authGen EXCEPT ![c] = NextGen(c)]
    /\ UNCHANGED <<conn, got, registered, pending, webirc, identity, oper, loop, todo, batch,
                   queueVars, pc, workerVars, scryptRunning, ringVars, callVars>>

\* The connection is torn down (server_remove_client, worker_cancel).
Close(c) ==
    /\ LoopStep /\ conn[c] \in {"open", "quitting"}
    /\ conn' = [conn EXCEPT ![c] = "gone"]
    /\ cancelled' = [cancelled EXCEPT ![cancelNext] = c]
    /\ cancelNext' = (cancelNext + 1) % CancelRing
    /\ UNCHANGED <<got, registered, pending, webirc, identity, authPending, authGen, oper, loop, todo, batch,
                   queue, running, pc, workerVars, scryptRunning, ringVars, callVars>>

(***************************************************************************)
(* Applying results.                                                       *)
(***************************************************************************)
\* The wake pipe is readable, or poll timed out: drain_worker_results empties
\* the pipe before it looks at the ring.
DrainWake ==
    /\ LoopStep
    /\ loop' = "draining" /\ woken' = FALSE
    /\ UNCHANGED <<loopVars, todo, batch, queueVars, pc, workerVars, scryptRunning, ring, callVars>>

TakeResults ==
    /\ loop = "draining" /\ batch = << >> /\ ring # << >>
    /\ LET n == IF Len(ring) < BatchMax THEN Len(ring) ELSE BatchMax
       IN  /\ batch' = SubSeq(ring, 1, n)
           /\ ring' = SubSeq(ring, n + 1, Len(ring))
    /\ UNCHANGED <<loopVars, loop, todo, queueVars, pc, workerVars, scryptRunning, woken, callVars>>

DrainEnd ==
    /\ loop = "draining" /\ batch = << >> /\ ring = << >>
    /\ loop' = "idle"
    /\ UNCHANGED <<loopVars, todo, batch, queueVars, pc, workerVars, scryptRunning, ringVars, callVars>>

\* Mutant: any answer for a connection that is still there.
StaleGone(j) == conn[j.conn] \notin {"open", "quitting"}

\* An answer nobody waits for any more.
Stale(j) ==
    LET c == j.conn
    IN  \/ conn[c] \notin {"open", "quitting"}
        \/ j.type \in {"rdns", "ident"} /\ (registered[c] \/ j.type \notin pending[c])
        \/ j.type = "dnsbl" /\ webirc[c]
        \/ j.type = "auth" /\ j.gen # authGen[c]

ApplyResult ==
    /\ loop = "draining" /\ batch # << >>
    /\ batch' = Tail(batch)
    /\ LET j == Head(batch).job
           c == j.conn
           ok == Head(batch).ok
           p == pending[c] \ {j.type}
           a == authPending[c] /\ j.type # "auth"
       IN  IF Stale(j)
           THEN UNCHANGED loopVars
           ELSE /\ pending' = [pending EXCEPT ![c] = p]
                /\ authPending' = [authPending EXCEPT ![c] = a]
                /\ oper' = [oper EXCEPT ![c] = @ \/ (j.type = "auth" /\ ok)]
                /\ identity' = [identity EXCEPT ![c] =
                                    IF ok /\ j.type \in {"rdns", "ident"} THEN @ \cup {j.type} ELSE @]
                /\ conn' = [conn EXCEPT ![c] = IF j.type = "dnsbl" /\ ok THEN "quitting" ELSE @]
                /\ registered' = [registered EXCEPT ![c] =
                                    IF j.type = "dnsbl" THEN @ ELSE Welcomed(c, p, a)]
                /\ UNCHANGED <<got, webirc, authGen>>
    /\ UNCHANGED <<loop, todo, queueVars, pc, workerVars, scryptRunning, ringVars, callVars>>

(***************************************************************************)
(* Shutdown.                                                               *)
(***************************************************************************)
Stop ==
    /\ LoopStep
    /\ loop' = "joining" /\ running' = FALSE
    /\ Broadcast("asleep", "idle")
    /\ UNCHANGED <<loopVars, todo, batch, queue, cancelled, cancelNext, workerVars, scryptRunning, ringVars, callVars>>

\* Every pthread_join returned: what is left of the queue is freed.
Joined ==
    /\ loop = "joining" /\ \A w \in Worker : pc[w] = "exited"
    /\ loop' = "stopped" /\ queue' = << >>
    /\ UNCHANGED <<loopVars, todo, batch, running, cancelled, cancelNext, pc, workerVars, scryptRunning, ringVars, callVars>>

Stopped == loop = "stopped" /\ UNCHANGED vars

(***************************************************************************)
(* Workers (worker_main).                                                  *)
(***************************************************************************)
IsCancelled(c) == \E i \in DOMAIN cancelled : cancelled[i] = c

Goto(w, l) == pc' = [pc EXCEPT ![w] = l]

Dequeue(w) ==
    /\ pc[w] = "idle" /\ queue # << >>
    /\ queue' = Tail(queue)
    /\ IF IsCancelled(Head(queue).conn)
       THEN UNCHANGED <<pc, job>>
       ELSE Goto(w, "run") /\ job' = [job EXCEPT ![w] = Head(queue)]
    /\ UNCHANGED <<loopVars, loop, todo, batch, running, cancelled, cancelNext, success, call,
                   scryptRunning, ringVars, callVars>>

WaitForWork(w) ==
    /\ pc[w] = "idle" /\ queue = << >>
    /\ Goto(w, IF running THEN "asleep" ELSE "exited")
    /\ UNCHANGED <<loopVars, loop, todo, batch, queueVars, workerVars, scryptRunning, ringVars, callVars>>

Running(w, types) == pc[w] = "run" /\ job[w].type \in types

Ident(w) ==
    /\ Running(w, {"ident"})
    /\ \E ok \in BOOLEAN : success' = [success EXCEPT ![w] = ok]
    /\ Goto(w, "push")
    /\ UNCHANGED <<loopVars, loop, todo, batch, queueVars, job, call, scryptRunning, ringVars, callVars>>

\* scrypt_enter: wait until fewer than ScryptMax hashes run.
ScryptEnter(w) ==
    /\ Running(w, {"auth"})
    /\ IF scryptRunning >= ScryptMax
       THEN Goto(w, "scryptWait") /\ UNCHANGED scryptRunning
       ELSE Goto(w, "scrypt") /\ scryptRunning' = scryptRunning + 1
    /\ UNCHANGED <<loopVars, loop, todo, batch, queueVars, workerVars, ringVars, callVars>>

\* Mutant: scrypt_leave without its signal.
LeaveQuietly(w) == Goto(w, "push")

\* scrypt_leave signals one waiter.
LeaveScrypt(w) == Signal("scryptWait", "run", [pc EXCEPT ![w] = "push"])

Scrypt(w) ==
    /\ pc[w] = "scrypt"
    /\ \E ok \in BOOLEAN : success' = [success EXCEPT ![w] = ok]
    /\ scryptRunning' = scryptRunning - 1
    /\ LeaveScrypt(w)
    /\ UNCHANGED <<loopVars, loop, todo, batch, queueVars, job, call, ringVars, callVars>>

\* Mutant: the full test of a ring that keeps no slot free.
RingRoomLoose == Len(ring) < RingMax

RingRoom == Len(ring) < RingMax - 1

\* Mutant: a result pushed and not announced.
PushedQuietly == "idle"

AfterPush == "wake"

\* push_result: a full ring drops the result; the pipe is written after the
\* ring is unlocked.
Push(w) ==
    /\ pc[w] = "push"
    /\ ring' = IF RingRoom THEN Append(ring, [job |-> job[w], ok |-> success[w]]) ELSE ring
    /\ Goto(w, AfterPush)
    /\ job' = [job EXCEPT ![w] = NoJob]
    /\ success' = [success EXCEPT ![w] = FALSE]
    /\ UNCHANGED <<loopVars, loop, todo, batch, queueVars, call, scryptRunning, woken, callVars>>

Wake(w) ==
    /\ pc[w] = "wake"
    /\ woken' = TRUE
    /\ Goto(w, "idle")
    /\ UNCHANGED <<loopVars, loop, todo, batch, queueVars, workerVars, scryptRunning, ring, callVars>>

(***************************************************************************)
(* Resolver calls (dns_with_timeout, dns_call_main).                       *)
(***************************************************************************)
\* Mutant: one helper too many.
OverCapLoose == dnsHelpers > MaxHelpers

OverCap == dnsHelpers >= MaxHelpers

\* atomic_fetch_add(&g_dns_helpers, 1), and the check of what it returned.
CountHelper(w) ==
    /\ Running(w, {"rdns", "dnsbl"})
    /\ dnsHelpers' = dnsHelpers + 1
    /\ Goto(w, IF OverCap THEN "uncount" ELSE "spawn")
    /\ UNCHANGED <<loopVars, loop, todo, batch, queueVars, workerVars, scryptRunning, ringVars,
                   helper, refs, done>>

\* Mutant: a refusal that leaves the counter up.
CountAfterRefusal == dnsHelpers

CountBack == dnsHelpers - 1

\* Over the cap, or no memory or thread to be had: no answer.
Uncount(w) ==
    /\ pc[w] = "uncount"
    /\ dnsHelpers' = CountBack
    /\ Goto(w, "push")
    /\ UNCHANGED <<loopVars, loop, todo, batch, queueVars, workerVars, scryptRunning, ringVars,
                   helper, refs, done>>

\* Mutant: a block only the worker holds on to.
WorkersRef == 1

\* One reference for the worker, one for the helper.
InitialRefs == 2

\* Blocks are all alike: which free one calloc returns makes no difference.
FreeCall == {h \in Call : helper[h] = "none" /\ refs[h] = 0}

Spawn(w) ==
    /\ pc[w] = "spawn" /\ FreeCall # {}
    /\ LET h == CHOOSE x \in FreeCall : TRUE
       IN  /\ helper' = [helper EXCEPT ![h] = "resolving"]
           /\ refs' = [refs EXCEPT ![h] = InitialRefs]
           /\ done' = [done EXCEPT ![h] = FALSE]
           /\ call' = [call EXCEPT ![w] = h]
    /\ Goto(w, "waitCall")
    /\ UNCHANGED <<loopVars, loop, todo, batch, queueVars, job, success, scryptRunning, ringVars, dnsHelpers>>

SpawnFails(w) ==
    /\ pc[w] = "spawn"
    /\ Goto(w, "uncount")
    /\ UNCHANGED <<loopVars, loop, todo, batch, queueVars, workerVars, scryptRunning, ringVars, callVars>>

\* The helper signalled, or the deadline passed: an answer that is in by then
\* counts either way.
CallEnds(w) ==
    /\ pc[w] = "waitCall"
    /\ \E ok \in BOOLEAN :
        /\ ok => done[call[w]]
        /\ success' = [success EXCEPT ![w] = ok]
    /\ Goto(w, "release")
    /\ UNCHANGED <<loopVars, loop, todo, batch, queueVars, job, call, scryptRunning, ringVars, callVars>>

\* dns_call_release: the last reference frees the block.
ReleaseCall(w) ==
    /\ pc[w] = "release"
    /\ refs' = [refs EXCEPT ![call[w]] = @ - 1]
    /\ call' = [call EXCEPT ![w] = NoCall]
    /\ Goto(w, "push")
    /\ UNCHANGED <<loopVars, loop, todo, batch, queueVars, job, success, scryptRunning, ringVars,
                   helper, done, dnsHelpers>>

\* The resolver answered the helper, in its own time.
Answer(h) ==
    /\ helper[h] = "resolving"
    /\ helper' = [helper EXCEPT ![h] = "answered"]
    /\ done' = [done EXCEPT ![h] = TRUE]
    /\ UNCHANGED <<loopVars, loop, todo, batch, queueVars, pc, workerVars, scryptRunning, ringVars,
                   refs, dnsHelpers>>

HelperUncounts(h) ==
    /\ helper[h] = "answered"
    /\ helper' = [helper EXCEPT ![h] = "leaving"]
    /\ dnsHelpers' = dnsHelpers - 1
    /\ UNCHANGED <<loopVars, loop, todo, batch, queueVars, pc, workerVars, scryptRunning, ringVars,
                   refs, done>>

HelperReleases(h) ==
    /\ helper[h] = "leaving"
    /\ helper' = [helper EXCEPT ![h] = "none"]
    /\ refs' = [refs EXCEPT ![h] = @ - 1]
    /\ UNCHANGED <<loopVars, loop, todo, batch, queueVars, pc, workerVars, scryptRunning, ringVars,
                   done, dnsHelpers>>

WorkerStep(w) ==
    \/ Dequeue(w) \/ WaitForWork(w)
    \/ Ident(w)
    \/ ScryptEnter(w) \/ Scrypt(w)
    \/ CountHelper(w) \/ Uncount(w) \/ Spawn(w) \/ SpawnFails(w) \/ CallEnds(w) \/ ReleaseCall(w)
    \/ Push(w) \/ Wake(w)

HelperLeaves(h) == HelperUncounts(h) \/ HelperReleases(h)

Drain == DrainWake \/ TakeResults \/ ApplyResult \/ DrainEnd

Step ==
    \/ \E c \in Conn :
        \/ Accept(c) \/ SendUser(c) \/ Webirc(c) \/ Oper(c)
        \/ RescueLookup(c) \/ RescueAuth(c) \/ Close(c)
    \/ SubmitLookup
    \/ Drain
    \/ Stop \/ Joined \/ Stopped
    \/ \E w \in Worker : WorkerStep(w)
    \/ \E h \in Call : Answer(h) \/ HelperLeaves(h)

Next == Step /\ UNCHANGED play

Spec == Init /\ [][Next]_vars

\* Threads that can run do run, the loop keeps turning, and 30 seconds pass; a
\* resolver need never answer.
Fairness ==
    /\ \A w \in Worker : WF_vars(WorkerStep(w) /\ UNCHANGED play)
    /\ \A h \in Call : WF_vars(HelperLeaves(h) /\ UNCHANGED play)
    /\ WF_vars(SubmitLookup /\ UNCHANGED play) /\ WF_vars(Joined /\ UNCHANGED play)
    /\ WF_vars(TakeResults /\ UNCHANGED play) /\ WF_vars(ApplyResult /\ UNCHANGED play) /\ WF_vars(DrainEnd /\ UNCHANGED play)
    /\ \A c \in Conn : SF_vars(RescueLookup(c) /\ UNCHANGED play) /\ SF_vars(RescueAuth(c) /\ UNCHANGED play)

FairSpec == Spec /\ Fairness

(***************************************************************************)
(* What the pool has to keep.                                              *)
(***************************************************************************)
TypeOK ==
    /\ play \in Plays
    /\ conn \in [Conn -> {"new", "open", "quitting", "gone"}]
    /\ got \in [Conn -> BOOLEAN] /\ registered \in [Conn -> BOOLEAN]
    /\ webirc \in [Conn -> BOOLEAN] /\ oper \in [Conn -> BOOLEAN]
    /\ pending \in [Conn -> SUBSET Lookup] /\ identity \in [Conn -> SUBSET {"rdns", "ident"}]
    /\ authPending \in [Conn -> BOOLEAN] /\ authGen \in [Conn -> 0..(play.auths + 1)]
    /\ loop \in {"idle", "draining", "joining", "stopped"}
    /\ todo \in {<< >>} \cup (Conn \X (Seq(Lookup) \ {<< >>}))
    /\ batch \in Seq(Result) /\ ring \in Seq(Result) /\ Len(ring) < RingMax
    /\ queue \in Seq(Job) /\ Len(queue) <= QueueMax
    /\ running \in BOOLEAN /\ woken \in BOOLEAN
    /\ cancelled \in [0..(CancelRing - 1) -> Conn \cup {NoConn}] /\ cancelNext \in 0..(CancelRing - 1)
    /\ pc \in [Worker -> {"idle", "asleep", "run", "scryptWait", "scrypt", "uncount", "spawn",
                          "waitCall", "release", "push", "wake", "exited"}]
    /\ job \in [Worker -> Job \cup {NoJob}] /\ success \in [Worker -> BOOLEAN]
    /\ call \in [Worker -> Call \cup {NoCall}]
    /\ scryptRunning \in 0..ScryptMax
    /\ helper \in [Call -> {"none", "resolving", "answered", "leaving"}]
    /\ refs \in [Call -> 0..2] /\ done \in [Call -> BOOLEAN]
    /\ dnsHelpers \in Nat

\* No wakeup is lost on g_qcond: while a job is queued, some worker is awake.
QueueServed == queue # << >> => \E w \in Worker : pc[w] # "asleep"

\* Nor on g_scond: a worker waits for a scrypt slot only while all are taken, or
\* another that was woken is about to take the free one.
ScryptServed ==
    (\E w \in Worker : pc[w] = "scryptWait") =>
        scryptRunning = ScryptMax \/ \E w \in Worker : Running(w, {"auth"})

\* A result never lies in the ring with nobody told: the pipe has a byte, the loop
\* is draining, or the worker that pushed it is about to write one.
ResultAnnounced ==
    ring # << >> => woken \/ loop = "draining" \/ \E w \in Worker : pc[w] = "wake"

\* Every password check on its way with a connection's current number is one that
\* connection waits for: a late answer cannot make an operator of someone who was
\* told that the login timed out.
InFlight ==
    {queue[i] : i \in DOMAIN queue} \cup {job[w] : w \in {v \in Worker : job[v] # NoJob}}
        \cup {ring[i].job : i \in DOMAIN ring} \cup {batch[i].job : i \in DOMAIN batch}
AuthCurrent ==
    \A j \in InFlight : j.type = "auth" /\ j.gen = authGen[j.conn] => authPending[j.conn]

\* A late lookup changes nobody's user or host after the welcome, or after a gateway
\* gave the real address: both are final then.
IdentityFinal ==
    [][\A c \in Conn : registered[c] \/ webirc[c] => identity'[c] = identity[c]]_vars

\* cmd_reg.c: the gateway's address "drops the lookups already started against the
\* intermediary's address": none of their answers names the client.
GatewayForgotten == \A c \in Conn : webirc[c] => identity[c] = {}

\* g_dns_helpers counts the helpers that have not counted themselves out and the
\* workers about to start or to give up on one: it never drifts.
HelperCount ==
    dnsHelpers = Cardinality({h \in Call : helper[h] \in {"resolving", "answered"}})
                   + Cardinality({w \in Worker : pc[w] \in {"uncount", "spawn"}})

\* The shared block outlives both of its users: neither the helper nor the worker
\* touches one that was freed, whichever of them is last.
CallAlive ==
    /\ \A h \in Call : helper[h] # "none" => refs[h] > 0
    /\ \A w \in Worker : pc[w] \in {"waitCall", "release"} => refs[call[w]] > 0

\* No more than MAX_DNS_HELPERS resolver calls are blocked at once.
HelpersCapped == Cardinality({h \in Call : helper[h] = "resolving"}) <= MaxHelpers

\* worker.c: "the third and fourth workers stay free for DNS/ident jobs": password
\* checks never hold more workers than may run one.
FreeForLookups == Cardinality({w \in Worker : job[w] # NoJob /\ job[w].type = "auth"}) <= ScryptMax

\* No lookup or password check holds a connection forever, even when its result is
\* lost to a full ring or a resolver never answers.
Waiting(c) == conn[c] = "open" /\ (pending[c] # {} \/ authPending[c])
Released == \A c \in Conn : Waiting(c) ~> (~Waiting(c) \/ ~running)

\* worker_pool_stop returns: every worker sees the end and leaves.
StopReturns == ~running ~> loop = "stopped"

\* No wakeup is lost on either condition variable or on the pipe, whoever overtakes whom
\* (worker_submit, scrypt_leave, push_result): work and results are always in somebody's hands.
NoLostWakeup == QueueServed /\ ScryptServed /\ ResultAnnounced

\* The pool's memory and counts are right in every interleaving of workers and helpers: the
\* ring and the queue are within their bounds (a full ring drops, worker.c), the count of
\* helpers never drifts or passes its cap, and no shared block is used after it was freed.
PoolSound == TypeOK /\ HelperCount /\ HelpersCapped /\ CallAlive

\* Nobody waits for ever: neither a connection for a result nor worker_pool_stop for a worker.
NobodyStuck == Released /\ StopReturns
=============================================================================
