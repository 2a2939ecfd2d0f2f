----------------------------- MODULE EventLoop -----------------------------
(***************************************************************************)
(* The event loop of the ircd (net.c, client.c).  A pass flushes the       *)
(* clients with output, waits for events, handles each, applies the        *)
(* verdicts of the workers, ticks, and only then tears down whom a         *)
(* handler marked: nothing is freed inline.  What a full walk of the       *)
(* connections used to find is kept in two lists: dirty (output, or an     *)
(* interest to register) and dead (to tear down).                          *)
(*                                                                         *)
(* Connections are plain, TLS or WebSocket.  A line is one unit of the     *)
(* send queue and of the socket's buffer; sbuf and ws_out are one queue.   *)
(* Everybody that joined is in one channel.  The lists are sets: their     *)
(* order shows in none of the properties.                                  *)
(***************************************************************************)
EXTENDS Naturals, FiniteSets

CONSTANTS
    Conns,      \* the client_t blocks, numbered: malloc gives the first that is free
    Kinds,      \* of listeners in this instance
    SENDQ_MAX,  \* lines
    Room,       \* lines the socket's buffer takes
    MaxAccepts, MaxLines,
    MaxRare,    \* operator kills, timeouts, pings, bad verdicts, failures and resets
    None
ASSUME LoopTypes ==
    /\ Conns \subseteq Nat /\ Kinds \subseteq {"plain", "tls", "ws"}
    /\ {SENDQ_MAX, Room} \subseteq Nat \ {0} /\ {MaxAccepts, MaxLines, MaxRare} \subseteq Nat

VARIABLES
    phase,      \* of the pass: flush, events, reap
    live, joined,
    kind,       \* the listener a connection came in by
    opening,    \* TLS handshake, or HTTP upgrade, not done
    wantWrite,  \* tls_want_write
    held,       \* dnsbl_pending: nothing is read yet
    queue,      \* the send queue
    quitting, dead, dirty,
    flushing,   \* the snapshot of dirty that this pass flushes
    mask,       \* the interest registered with the kernel, None before the first ev_set
    evs,        \* events of this pass still to handle
    inbox, room, gone,  \* the socket: lines to read, free buffer, how the peer left
    accepts, lines, rare
lists == <<quitting, dead, dirty, flushing>>
sock == <<inbox, room, gone>>
counts == <<accepts, lines, rare>>
vars == <<phase, live, joined, kind, opening, wantWrite, held, queue, lists, mask, evs, sock, counts>>

Shaking == {c \in opening : kind[c] = "tls"}
Least(m, n) == IF m < n THEN m ELSE n
Rare == rare < MaxRare /\ rare' = rare + 1

(***************************************************************************)
(* What every handler does to the lists.                                   *)
(***************************************************************************)
\* client_send to each of S: a queue that is full marks its owner.
Overflow(S) == {c \in S \ quitting : queue[c] >= SENDQ_MAX}

\* Mutant: the limit is off by one.
GotOneMore(S) == {c \in S \ quitting : queue[c] <= SENDQ_MAX}

Got(S) == {c \in S \ quitting : queue[c] < SENDQ_MAX}
Queued(S) == [c \in Conns |-> IF c \in Got(S) THEN queue[c] + 1 ELSE queue[c]]
Woken(S) == {c \in Got(S) : queue[c] = 0}

\* client_mark_quit
MarkQuit(Q) == quitting' = quitting \cup Q /\ dead' = dead \cup Q

\* client_mark_dirty, for connections that are not quitting
MarkDirty(S) == dirty' = dirty \cup (S \ quitting)

\* Mutant: writability is asked for only in a handshake.
WantShaking(c, q, op, ww, hl) == [r |-> c \notin hl, w |-> c \in op /\ c \in ww]

\* ev_update_client
Want(c, q, op, ww, hl) ==
    [r |-> c \notin hl,
     w |-> IF c \in op /\ kind[c] = "tls" THEN c \in ww ELSE q > 0]

\* write_client: a WebSocket that is not upgraded has no frames to send yet.
Writable(c, q, op) == IF c \in op \/ gone[c] = "reset" THEN 0 ELSE Least(q, room[c])
WriteFails(c, q, op) == q > 0 /\ c \notin op /\ gone[c] = "reset"

(***************************************************************************)
(* The flush of the dirty list.                                            *)
(***************************************************************************)
\* Mutant: a flushed connection is left out of the kernel's write set.
FlushOnce(c) ==
    /\ phase = "flush" /\ c \in flushing
    /\ flushing' = flushing \ {c}
    /\ LET n == IF c \in quitting \cup Shaking THEN 0 ELSE Writable(c, queue[c], opening) IN
       /\ queue' = [queue EXCEPT ![c] = @ - n]
       /\ room' = [room EXCEPT ![c] = @ - n]
       /\ mask' = IF c \in quitting \/ mask[c] # None THEN mask
                  ELSE [mask EXCEPT ![c] = Want(c, queue[c] - n, opening, wantWrite, held)]
    /\ UNCHANGED <<phase, live, kind, joined, opening, wantWrite, held, quitting, dead, dirty, evs, inbox, gone, counts>>

Flush(c) ==
    /\ phase = "flush" /\ c \in flushing
    /\ flushing' = flushing \ {c}
    /\ LET skip == c \in quitting
           n == IF skip \/ c \in Shaking THEN 0 ELSE Writable(c, queue[c], opening)
           fails == ~skip /\ c \notin Shaking /\ WriteFails(c, queue[c], opening) IN
       /\ queue' = [queue EXCEPT ![c] = @ - n]
       /\ room' = [room EXCEPT ![c] = @ - n]
       /\ MarkQuit(IF fails THEN {c} ELSE {})
       /\ mask' = IF skip \/ fails THEN mask
                  ELSE [mask EXCEPT ![c] = Want(c, queue[c] - n, opening, wantWrite, held)]
    /\ UNCHANGED <<phase, live, kind, joined, opening, wantWrite, held, dirty, evs, inbox, gone, counts>>

\* Level-triggered readiness; a reset shows whatever was asked for.
Readable(c) == mask[c].r /\ (inbox[c] > 0 \/ gone[c] # "no")
Ready(c) == [c |-> c, r |-> Readable(c), w |-> mask[c].w /\ (room[c] > 0 \/ gone[c] = "reset"), hup |-> gone[c] = "reset"]

\* ev_wait; it does not block while somebody is to be torn down.
Wait ==
    /\ phase = "flush" /\ flushing = {}
    /\ evs' = {e \in {Ready(c) : c \in {d \in live : mask[d] # None}} : e.r \/ e.w \/ e.hup}
    /\ phase' = "events"
    /\ UNCHANGED <<live, kind, joined, opening, wantWrite, held, queue, lists, mask, sock, counts>>

(***************************************************************************)
(* The events of one pass, in any order.                                   *)
(***************************************************************************)
\* tls_try_handshake: finished, waiting one way or the other, or failed.
Handshake(c, bad) ==
    LET hello == inbox[c] > 0
        done == hello /\ room[c] > 0 /\ ~bad
        fail == bad \/ (gone[c] # "no" /\ ~hello) IN
    /\ opening' = IF done THEN opening \ {c} ELSE opening
    /\ wantWrite' = IF hello /\ room[c] = 0 /\ ~bad THEN wantWrite \cup {c} ELSE wantWrite \ {c}
    /\ inbox' = IF done THEN [inbox EXCEPT ![c] = @ - 1] ELSE inbox
    /\ MarkQuit(IF fail THEN {c} ELSE {})

\* accept_common and accept_clients: the banner is queued, the list registers the descriptor.
Accept(c, k, dnsbl, bad) ==
    /\ phase = "events" /\ c \notin live /\ accepts < MaxAccepts
    /\ \A d \in Conns \ live : c <= d
    /\ accepts' = accepts + 1
    /\ live' = live \cup {c}
    /\ queue' = [queue EXCEPT ![c] = 1]
    /\ inbox' = [inbox EXCEPT ![c] = 0] /\ room' = [room EXCEPT ![c] = Room] /\ gone' = [gone EXCEPT ![c] = "no"]
    /\ held' = IF dnsbl THEN held \cup {c} ELSE held
    /\ kind' = [kind EXCEPT ![c] = k]
    /\ opening' = IF k = "plain" THEN opening ELSE opening \cup {c}
    /\ bad => k = "tls"
    /\ IF bad THEN Rare ELSE UNCHANGED rare
    /\ MarkQuit(IF bad THEN {c} ELSE {})
    /\ dirty' = dirty \cup {c}
    /\ UNCHANGED <<phase, joined, wantWrite, flushing, mask, evs, lines>>

\* What reading makes the server do: who is sent a line, who is marked to quit.  A WebSocket's
\* first line is its upgrade, which is answered.
Input(what, to, quit) == [what |-> what, to |-> to, quit |-> quit]
Idle == Input("none", {}, {})
Lines(c) ==
    IF c \in opening THEN {Input("upgrade", {c}, {})}
    ELSE IF c \notin joined THEN {Input("join", {c}, {})}
    ELSE {Input("say", joined \ {c}, {}), Input("quit", {}, {c})} \cup {Input("kill", {}, {d}) : d \in joined \ {c}}
Inputs(e) ==
    IF ~e.r THEN {Idle} ELSE IF inbox[e.c] = 0 THEN {Input("eof", {}, {e.c})} ELSE Lines(e.c)

\* An event of a connection that can be read or written: read_client, write_client and the
\* interest that follows from what is left.
ReadWrite(e, in) ==
    LET c == e.c
        Q == in.quit \cup Overflow(in.to)
        op == IF in.what = "upgrade" THEN opening \ {c} ELSE opening
        q == Queued(in.to)[c]
        write == e.w /\ c \notin Q
        fails == write /\ WriteFails(c, q, op)
        n == IF write THEN Writable(c, q, op) ELSE 0 IN
    /\ IF in.what = "kill" THEN Rare ELSE UNCHANGED rare
    /\ inbox' = IF in.what \in {"none", "eof"} THEN inbox ELSE [inbox EXCEPT ![c] = @ - 1]
    /\ opening' = op
    /\ joined' = IF in.what = "join" THEN joined \cup {c} ELSE joined
    /\ queue' = [Queued(in.to) EXCEPT ![c] = @ - n]
    /\ room' = [room EXCEPT ![c] = @ - n]
    /\ MarkQuit(Q \cup (IF fails THEN {c} ELSE {}))
    /\ MarkDirty(Woken(in.to))
    /\ mask' = IF c \in Q \/ fails THEN mask ELSE [mask EXCEPT ![c] = Want(c, q - n, op, wantWrite, held)]
    /\ UNCHANGED <<wantWrite, gone>>

\* One event: none for a connection a handler of this pass has marked already.
Ignore(e) == UNCHANGED <<joined, opening, wantWrite, queue, quitting, dead, dirty, mask, sock, rare>>
HangUp(e) == MarkQuit({e.c}) /\ UNCHANGED <<joined, opening, wantWrite, queue, dirty, mask, sock, rare>>
Shake(e, bad) ==
    /\ bad => inbox[e.c] > 0 /\ Rare
    /\ ~bad => UNCHANGED rare
    /\ Handshake(e.c, bad)
    /\ mask' = IF e.c \in quitting' THEN mask
               ELSE [mask EXCEPT ![e.c] = Want(e.c, queue[e.c], opening', wantWrite', held)]
    /\ UNCHANGED <<joined, queue, dirty, room, gone>>

Event(e) ==
    /\ phase = "events" /\ e \in evs
    /\ evs' = evs \ {e}
    /\ IF e.c \in quitting THEN Ignore(e)
       ELSE IF e.hup /\ ~e.r THEN HangUp(e)
       ELSE IF e.c \in Shaking THEN \E bad \in BOOLEAN : Shake(e, bad)
       ELSE \E in \in Inputs(e) : ReadWrite(e, in)
    /\ UNCHANGED <<phase, live, kind, held, flushing, accepts, lines>>

(***************************************************************************)
(* Verdicts and the tick, when the events of the pass are handled.  That a *)
(* connection can be accepted between two of them changes nothing.         *)
(***************************************************************************)
\* A DNSBL verdict (drain_worker_results), or the 30-second rescue of one that never came.
Verdict(c, listed) ==
    /\ phase = "events" /\ evs = {} /\ c \in held
    /\ held' = held \ {c}
    /\ MarkDirty({c})
    /\ IF listed THEN Rare ELSE UNCHANGED rare
    /\ MarkQuit(IF listed THEN {c} ELSE {})
    /\ UNCHANGED <<phase, live, kind, joined, opening, wantWrite, queue, flushing, mask, evs, sock, accepts, lines>>

\* tick: its safety net, and one connection that is idle: pinged or timed out.
Tick(c, out) ==
    /\ phase = "events" /\ evs = {} /\ Rare
    /\ c \in live \ quitting
    /\ LET to == IF out THEN {} ELSE {c} IN
       /\ queue' = Queued(to)
       /\ MarkQuit((IF out THEN {c} ELSE Overflow(to)) \cup (quitting \ dead))
       /\ MarkDirty({d \in live : queue[d] > 0} \cup Woken(to))
    /\ phase' = "reap"
    /\ UNCHANGED <<live, kind, joined, opening, wantWrite, held, flushing, mask, evs, sock, accepts, lines>>

EndJobs ==
    /\ phase = "events" /\ evs = {}
    /\ phase' = "reap"
    /\ UNCHANGED <<live, kind, joined, opening, wantWrite, held, queue, lists, mask, evs, sock, counts>>

(***************************************************************************)
(* Teardown.                                                               *)
(***************************************************************************)
\* close_client and server_remove_client: the others in the channel are sent the QUIT.
Others(c) == joined \ {c}
Remove(c) ==
    /\ queue' = [Queued(Others(c)) EXCEPT ![c] = 0]
    /\ live' = live \ {c} /\ joined' = joined \ {c} /\ kind' = [kind EXCEPT ![c] = "plain"]
    /\ opening' = opening \ {c} /\ wantWrite' = wantWrite \ {c} /\ held' = held \ {c}
    /\ mask' = [mask EXCEPT ![c] = None]
    /\ inbox' = [inbox EXCEPT ![c] = 0] /\ room' = [room EXCEPT ![c] = 0] /\ gone' = [gone EXCEPT ![c] = "no"]
    /\ UNCHANGED <<phase, flushing, evs, counts>>

\* Mutant: a client that is freed stays in the dirty list.
ReapDirty(c) ==
    /\ phase = "reap" /\ c \in dead
    /\ quitting' = (quitting \cup Overflow(Others(c))) \ {c}
    /\ dead' = (dead \cup Overflow(Others(c))) \ {c}
    /\ MarkDirty(Woken(Others(c)))
    /\ Remove(c)

\* Mutant: whom the QUIT overflows is set to quit, not put in the list.
ReapBare(c) ==
    /\ phase = "reap" /\ c \in dead
    /\ quitting' = (quitting \cup Overflow(Others(c))) \ {c}
    /\ dead' = dead \ {c}
    /\ dirty' = (dirty \cup Woken(Others(c))) \ {c}
    /\ Remove(c)

\* Mutant: a client is not torn down while it has output.
ReapDrained(c) ==
    /\ phase = "reap" /\ c \in dead /\ queue[c] = 0
    /\ quitting' = (quitting \cup Overflow(Others(c))) \ {c}
    /\ dead' = (dead \cup Overflow(Others(c))) \ {c}
    /\ dirty' = (dirty \cup Woken(Others(c))) \ {c}
    /\ Remove(c)

\* The end of net_run's pass.  The QUIT may be the line too many for one of the others, which is
\* then in the list, too.
Reap(c) ==
    /\ phase = "reap" /\ c \in dead
    /\ quitting' = (quitting \cup Overflow(Others(c))) \ {c}
    /\ dead' = (dead \cup Overflow(Others(c))) \ {c}
    /\ dirty' = (dirty \cup Woken(Others(c))) \ {c}
    /\ Remove(c)

\* The next pass takes its snapshot of the dirty list.
NextPass ==
    /\ phase = "reap" /\ dead = {}
    /\ phase' = "flush"
    /\ flushing' = dirty /\ dirty' = {}
    /\ UNCHANGED <<live, kind, joined, opening, wantWrite, held, queue, quitting, dead, mask, evs, sock, counts>>

(***************************************************************************)
(* The peers.  A line that arrives, or room that is made, once the loop    *)
(* has its events shows at the next wait; a peer leaves at any time.       *)
(***************************************************************************)
PeerSends(c) ==
    /\ phase = "flush"
    /\ c \in live /\ gone[c] = "no" /\ lines < MaxLines
    /\ inbox' = [inbox EXCEPT ![c] = @ + 1] /\ lines' = lines + 1
    /\ UNCHANGED <<phase, live, kind, joined, opening, wantWrite, held, queue, lists, mask, evs, room, gone, accepts, rare>>

PeerReads(c) ==
    /\ phase = "flush"
    /\ c \in live /\ gone[c] # "reset" /\ room[c] < Room
    /\ room' = [room EXCEPT ![c] = Room]
    /\ UNCHANGED <<phase, live, kind, joined, opening, wantWrite, held, queue, lists, mask, evs, inbox, gone, counts>>

PeerLeaves(c, how) ==
    /\ c \in live /\ gone[c] = "no" /\ Rare
    /\ gone' = [gone EXCEPT ![c] = how]
    /\ UNCHANGED <<phase, live, kind, joined, opening, wantWrite, held, queue, lists, mask, evs, inbox, room, accepts, lines>>

Init ==
    /\ phase = "flush"
    /\ live = {} /\ joined = {} /\ opening = {} /\ wantWrite = {} /\ held = {}
    /\ kind = [c \in Conns |-> "plain"]
    /\ queue = [c \in Conns |-> 0]
    /\ quitting = {} /\ dead = {} /\ dirty = {} /\ flushing = {}
    /\ mask = [c \in Conns |-> None]
    /\ evs = {}
    /\ inbox = [c \in Conns |-> 0] /\ room = [c \in Conns |-> 0] /\ gone = [c \in Conns |-> "no"]
    /\ accepts = 0 /\ lines = 0 /\ rare = 0

HandleOne == \E e \in evs : Event(e)
FlushSome == \E c \in Conns : Flush(c)
ReapSome == \E c \in Conns : Reap(c)
VerdictSome == \E c \in Conns, listed \in BOOLEAN : Verdict(c, listed)

\* What the loop does by itself: in each phase one of these can go on.
Loop == FlushSome \/ Wait \/ HandleOne \/ EndJobs \/ ReapSome \/ NextPass
Next ==
    \/ Loop \/ VerdictSome
    \/ \E c \in Conns, k \in Kinds, dnsbl, bad \in BOOLEAN : Accept(c, k, dnsbl, bad)
    \/ \E c \in Conns, out \in BOOLEAN : Tick(c, out)
    \/ \E c \in Conns : PeerSends(c) \/ PeerReads(c)
    \/ \E c \in Conns, how \in {"closed", "reset"} : PeerLeaves(c, how)

\* The one thread of the loop goes on; a lookup is answered, or given up after 30 seconds; and
\* peers read.
Fairness ==
    /\ WF_vars(Loop) /\ SF_vars(VerdictSome)
    /\ \A c \in Conns : SF_vars(PeerReads(c))
Spec == Init /\ [][Next]_vars /\ Fairness

(***************************************************************************)
(* Properties.                                                             *)
(***************************************************************************)
TypeOK ==
    /\ phase \in {"flush", "events", "reap"}
    /\ {joined, opening, held, quitting} \subseteq SUBSET live /\ wantWrite \subseteq opening
    /\ kind \in [Conns -> {"plain", "tls", "ws"}] /\ queue \in [Conns -> 0..SENDQ_MAX] /\ room \in [Conns -> 0..Room]
    /\ inbox \in [Conns -> 0..MaxLines] /\ gone \in [Conns -> {"no", "closed", "reset"}]
    /\ mask \in [Conns -> [r : BOOLEAN, w : BOOLEAN] \cup {None}]

\* No list and no event of a pass names a client that was freed (client_unmark_dirty, deferred
\* teardown): the blocks are freed only when nothing points at them.
NoDangling ==
    /\ dirty \cup flushing \cup dead \subseteq live
    /\ {e.c : e \in evs} \subseteq live
    /\ \A c \in Conns \ live : mask[c] = None

\* Whoever is marked to quit is in the list of those to tear down, and nobody else is
\* (client_mark_quit), however it came about: in a handler, in a broadcast, in a teardown.
QuitQueued == quitting = dead

\* When the loop goes to wait, the kernel watches each connection for exactly what
\* ev_update_client would ask now: no reply stays in a queue and no client unheard because nobody
\* registered the interest.
Watched ==
    phase = "flush" /\ flushing = {} =>
      \A c \in live \ quitting : mask[c] = Want(c, queue[c], opening, wantWrite, held)

\* Whoever is marked to quit is torn down, and with them whom their own teardown marks.
Reaped == quitting # {} ~> quitting = {}

\* What a peer sent is read, also when its reading was held back, and what is queued for one that
\* reads is sent, or the connection ends: flush, interest and events together lose nothing.
Waiting(c) == inbox[c] > 0 \/ (queue[c] > 0 /\ c \notin opening)
Served == \A c \in Conns : Waiting(c) ~> ~Waiting(c)

\* The loop never asks for writability that the handler cannot use: it would be called again at
\* once, for ever (the comment in tls_try_handshake).
NoSpin == phase = "flush" /\ flushing = {} => \A c \in live \ quitting : mask[c].w /\ room[c] > 0 => c \notin opening

\* The lists of the pass are sound: whatever a handler, a broadcast or a teardown did to its own
\* or another client, all they name is alive and all that is marked will be torn down.
ListsSound == TypeOK /\ NoDangling /\ QuitQueued

\* Every pass gets somewhere: peers are heard and answered, and those marked are gone.
PassesServe == Reaped /\ Served
=============================================================================
