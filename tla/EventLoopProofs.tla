--------------------------- MODULE EventLoopProofs ---------------------------
(***************************************************************************)
(* Proofs about EventLoop, for any number of connections and lines, any    *)
(* limit of the send queue and any size of the sockets' buffers: what the  *)
(* lists of a pass name is alive, whoever quits is in the list of the dead *)
(* and, when the loop goes to wait, the kernel watches for the right       *)
(* events.  The last rests on the dirty list: a connection whose interest  *)
(* changed is in it, or in the snapshot that is being flushed.             *)
(***************************************************************************)
EXTENDS EventLoop, TLAPS

(***************************************************************************)
(* The invariant.                                                          *)
(***************************************************************************)
\* A line that can be read was sent, and only a TLS connection waits to write its handshake.
Lined ==
    /\ live \subseteq Conns
    /\ lines \in 0..MaxLines /\ \A c \in Conns : inbox[c] <= lines
    /\ \A c \in wantWrite : kind[c] = "tls"
\* Each phase of a pass finds empty what the others work on.
Phases ==
    /\ phase # "flush" => flushing = {}
    /\ phase = "flush" => dirty = {}
    /\ phase # "events" => evs = {}
    /\ evs \subseteq [c : live, r : BOOLEAN, w : BOOLEAN, hup : BOOLEAN]
\* Whose interest is not what the kernel has is in a list of those to flush.
Synced ==
    \A c \in live \ quitting :
        c \in dirty \cup flushing \/ mask[c] = Want(c, queue[c], opening, wantWrite, held)
IInv == TypeOK /\ Lined /\ NoDangling /\ QuitQueued /\ Phases /\ Synced

LEMMA InitIInv == Init => IInv
  BY LoopTypes DEF Init, IInv, TypeOK, Lined, NoDangling, QuitQueued, Phases, Synced

(***************************************************************************)
(* The helpers of the handlers.                                            *)
(***************************************************************************)
\* ev_update_client gives an interest that the kernel can have.
LEMMA WantType ==
    ASSUME NEW c, NEW q \in Nat, NEW op, NEW ww, NEW hl
    PROVE  Want(c, q, op, ww, hl) \in [r : BOOLEAN, w : BOOLEAN]
<1> DEFINE R == c \notin hl
           W == IF c \in op /\ kind[c] = "tls" THEN c \in ww ELSE q > 0
<1>1. R \in BOOLEAN  OBVIOUS
<1>2. (c \in ww) \in BOOLEAN /\ (q > 0) \in BOOLEAN  OBVIOUS
<1>3. W \in BOOLEAN  BY <1>2, Zenon
<1> HIDE DEF R, W
<1>4. [r |-> R, w |-> W] \in [r : BOOLEAN, w : BOOLEAN]  BY <1>1, <1>3
<1> QED  BY <1>4 DEF Want, R, W

\* client_send: queues stay within the limit.
LEMMA QueuedType ==
    ASSUME TypeOK, NEW S
    PROVE  Queued(S) \in [Conns -> 0..SENDQ_MAX]
<1> DEFINE F(c) == IF c \in Got(S) THEN queue[c] + 1 ELSE queue[c]
<1>1. SENDQ_MAX \in Nat /\ queue \in [Conns -> 0..SENDQ_MAX]  BY LoopTypes DEF TypeOK
<1>2. \A c \in Conns : F(c) \in 0..SENDQ_MAX  BY <1>1 DEF Got
<1>3. Queued(S) = [c \in Conns |-> F(c)]  BY DEF Queued
<1> HIDE DEF F
<1> QED  BY <1>2, <1>3

\* A queue that was empty is the only one whose interest can change, and its owner is woken.
LEMMA QueuedSame ==
    ASSUME TypeOK, NEW S, NEW c \in Conns
    PROVE  /\ c \notin Woken(S) => (Queued(S)[c] > 0 <=> queue[c] > 0)
           /\ c \notin S => Queued(S)[c] = queue[c]
<1>1. queue[c] \in Nat  BY LoopTypes DEF TypeOK
<1>2. Queued(S)[c] = IF c \in Got(S) THEN queue[c] + 1 ELSE queue[c]  BY DEF Queued
<1> QED  BY <1>1, <1>2 DEF Got, Woken

LEMMA SendLists ==
    ASSUME NEW S
    PROVE  Overflow(S) \subseteq S \ quitting /\ Woken(S) \subseteq S \ quitting
  BY DEF Overflow, Woken, Got

\* write_client takes no more than there is, nor than the socket has room for.
LEMMA WritableBound ==
    ASSUME TypeOK, NEW c \in Conns, NEW q \in Nat, NEW op
    PROVE  Writable(c, q, op) \in 0..q /\ Writable(c, q, op) \in 0..room[c]
  BY LoopTypes DEF TypeOK, Writable, Least

\* The shape of the invariant the steps are proved against: TypeOK with its sets spelled out.
LEMMA TypeParts ==
    TypeOK <=>
    /\ phase \in {"flush", "events", "reap"}
    /\ joined \subseteq live /\ opening \subseteq live /\ held \subseteq live /\ quitting \subseteq live
    /\ wantWrite \subseteq opening
    /\ kind \in [Conns -> {"plain", "tls", "ws"}]
    /\ queue \in [Conns -> 0..SENDQ_MAX] /\ room \in [Conns -> 0..Room]
    /\ inbox \in [Conns -> 0..MaxLines] /\ gone \in [Conns -> {"no", "closed", "reset"}]
    /\ mask \in [Conns -> [r : BOOLEAN, w : BOOLEAN] \cup {None}]
  BY DEF TypeOK

LEMMA ConstTypes ==
    SENDQ_MAX \in Nat \ {0} /\ Room \in Nat \ {0} /\ MaxLines \in Nat /\ Conns \subseteq Nat
  BY LoopTypes
LEMMA Values ==
    ASSUME TypeOK, NEW c \in Conns
    PROVE  /\ queue[c] \in Nat /\ room[c] \in Nat /\ inbox[c] \in Nat
           /\ queue[c] <= SENDQ_MAX /\ room[c] <= Room /\ inbox[c] <= MaxLines
  BY ConstTypes DEF TypeOK

\* A connection in neither list of those to flush whose state stays, but for a queue that stays
\* filled or empty, is still watched for the right events.
LEMMA WantKept ==
    ASSUME Synced, NEW d \in live \ quitting, d \notin dirty \cup flushing,
           mask'[d] = mask[d], kind'[d] = kind[d],
           d \in opening' <=> d \in opening, d \in wantWrite' <=> d \in wantWrite,
           d \in held' <=> d \in held, queue'[d] > 0 <=> queue[d] > 0
    PROVE  (mask[d] = Want(d, queue[d], opening, wantWrite, held))'
<1> DEFINE W == IF d \in opening /\ kind[d] = "tls" THEN d \in wantWrite ELSE queue[d] > 0
<1>1. (d \notin held') = (d \notin held) /\ W' = W  OBVIOUS
<1>2. mask[d] = [r |-> d \notin held, w |-> W]  BY DEF Synced, Want
<1> HIDE DEF W
<1>3. mask'[d] = [r |-> d \notin held', w |-> W']  BY <1>1, <1>2
<1> QED  BY <1>3 DEF Want, W

(***************************************************************************)
(* The flush.                                                              *)
(***************************************************************************)
LEMMA FlushIInv ==
    ASSUME IInv, NEW c \in Conns, Flush(c)
    PROVE  IInv'
<1> DEFINE skip == c \in quitting
           n == IF skip \/ c \in Shaking THEN 0 ELSE Writable(c, queue[c], opening)
           fails == ~skip /\ c \notin Shaking /\ WriteFails(c, queue[c], opening)
           Q == IF fails THEN {c} ELSE {}
           W == Want(c, queue[c] - n, opening, wantWrite, held)
<1>1. /\ TypeOK /\ Lined /\ NoDangling /\ QuitQueued /\ Phases /\ Synced
      /\ queue \in [Conns -> 0..SENDQ_MAX] /\ room \in [Conns -> 0..Room]
      /\ mask \in [Conns -> [r : BOOLEAN, w : BOOLEAN] \cup {None}]
      /\ SENDQ_MAX \in Nat /\ Room \in Nat
  BY LoopTypes DEF IInv, TypeOK
<1>2. /\ phase = "flush" /\ c \in flushing /\ flushing' = flushing \ {c}
      /\ queue' = [queue EXCEPT ![c] = @ - n] /\ room' = [room EXCEPT ![c] = @ - n]
      /\ quitting' = quitting \cup Q /\ dead' = dead \cup Q
      /\ mask' = IF skip \/ fails THEN mask ELSE [mask EXCEPT ![c] = W]
      /\ UNCHANGED <<phase, live, kind, joined, opening, wantWrite, held, dirty, evs, inbox, gone, lines>>
  BY DEF Flush, MarkQuit, counts
<1>3. n \in 0..queue[c] /\ n \in 0..room[c]  BY <1>1, WritableBound
<1>4. c \in live  BY <1>1, <1>2 DEF NoDangling
<1>5. W \in [r : BOOLEAN, w : BOOLEAN]  BY <1>1, <1>3, WantType
<1>6. Q \subseteq {c} /\ (Q = {} => ~fails)  OBVIOUS
<1> HIDE DEF n, fails, Q, W
<1>7. /\ queue' \in [Conns -> 0..SENDQ_MAX] /\ room' \in [Conns -> 0..Room]
      /\ mask' \in [Conns -> [r : BOOLEAN, w : BOOLEAN] \cup {None}]
      /\ \A d \in Conns \ {c} : queue'[d] = queue[d] /\ mask'[d] = mask[d]
  BY <1>1, <1>2, <1>3, <1>5
<1>8. TypeOK'
  <2>1. quitting' \subseteq live'  BY <1>1, <1>2, <1>4, <1>6, TypeParts
  <2> QED  BY <1>1, <1>2, <1>7, <2>1 DEF TypeOK
<1>9. Lined' /\ Phases' /\ QuitQueued'  BY <1>1, <1>2 DEF Lined, Phases, QuitQueued
<1>10. NoDangling'
  <2>1. \A d \in Conns \ live : mask'[d] = None  BY <1>1, <1>4, <1>7 DEF NoDangling
  <2> QED  BY <1>1, <1>2, <1>4, <1>6, <2>1 DEF NoDangling
<1>11. Synced'
  <2> SUFFICES ASSUME NEW d \in live \ quitting', d \notin dirty \cup flushing'
               PROVE  (mask[d] = Want(d, queue[d], opening, wantWrite, held))'
    BY <1>2 DEF Synced
  <2>1. d \in Conns /\ d \notin quitting  BY <1>1, <1>2 DEF Lined
  <2>2. CASE d = c
    <3>1. ~skip /\ ~fails  BY <1>2, <2>1, <2>2, <1>6 DEF Q
    <3>2. mask'[c] = W /\ queue'[c] = queue[c] - n  BY <1>1, <1>2, <3>1
    <3> QED  BY <1>2, <2>2, <3>2 DEF W, Want
  <2>3. CASE d # c
    <3>1. d \notin flushing /\ d \in live \ quitting /\ d \notin dirty  BY <1>2, <2>1, <2>3
    <3> QED  BY <1>1, <1>2, <1>7, <2>1, <2>3, <3>1, WantKept
  <2> QED  BY <2>2, <2>3
<1> QED  BY <1>8, <1>9, <1>10, <1>11 DEF IInv

\* Steps that leave the connections as they are, and go from one phase to another.
LEMMA PhaseIInv ==
    ASSUME IInv, Wait \/ EndJobs \/ NextPass
    PROVE  IInv'
<1>1. /\ UNCHANGED <<live, kind, joined, opening, wantWrite, held, queue, quitting, dead, mask, sock, lines>>
      /\ phase' \in {"flush", "events", "reap"}
  BY DEF Wait, EndJobs, NextPass, lists, counts
<1>2. TypeOK'  BY <1>1, TypeParts DEF IInv, TypeOK, sock
<1>3. Lined' /\ QuitQueued'  BY <1>1 DEF IInv, Lined, QuitQueued, sock
<1>4. CASE Wait
  <2> DEFINE Seen == {d \in live : mask[d] # None}
  <2>1. \A d \in Seen : Ready(d) \in [c : live, r : BOOLEAN, w : BOOLEAN, hup : BOOLEAN]
    <3> TAKE d \in Seen
    <3>1. mask[d] \in [r : BOOLEAN, w : BOOLEAN]  BY DEF IInv, TypeOK, Lined
    <3>2. mask[d].r \in BOOLEAN /\ mask[d].w \in BOOLEAN  BY <3>1
    <3> DEFINE R == Readable(d)
               W == mask[d].w /\ (room[d] > 0 \/ gone[d] = "reset")
               H == gone[d] = "reset"
    <3>3. R \in BOOLEAN /\ W \in BOOLEAN /\ H \in BOOLEAN  BY <3>2 DEF Readable
    <3> HIDE DEF R, W, H
    <3>4. [c |-> d, r |-> R, w |-> W, hup |-> H] \in [c : live, r : BOOLEAN, w : BOOLEAN, hup : BOOLEAN]
      BY <3>3
    <3> QED  BY <3>4 DEF Ready, R, W, H
  <2>2. evs' \subseteq [c : live, r : BOOLEAN, w : BOOLEAN, hup : BOOLEAN]
    BY <1>4, <2>1 DEF Wait
  <2>3. phase' = "events" /\ flushing = {} /\ UNCHANGED <<dirty, flushing>>
    BY <1>4 DEF Wait, lists
  <2>4. Phases'  BY <1>1, <2>2, <2>3 DEF Phases
  <2>5. NoDangling'  BY <1>1, <2>2, <2>3 DEF IInv, NoDangling
  <2>6. Synced'  BY <1>1, <2>3 DEF IInv, Synced, Want
  <2> QED  BY <1>2, <1>3, <2>4, <2>5, <2>6 DEF IInv
<1>5. CASE EndJobs
  <2>1. UNCHANGED <<dirty, flushing, evs>> /\ evs = {} /\ phase = "events" /\ phase' = "reap"
    BY <1>5 DEF EndJobs, lists
  <2>2. Phases' /\ NoDangling'  BY <1>1, <2>1 DEF IInv, Phases, NoDangling
  <2>3. Synced'  BY <1>1, <2>1 DEF IInv, Synced, Want
  <2> QED  BY <1>2, <1>3, <2>2, <2>3 DEF IInv
<1>6. CASE NextPass
  <2>1. flushing' = dirty /\ dirty' = {} /\ flushing = {} /\ evs = {} /\ evs' = {} /\ phase' = "flush"
    BY <1>6 DEF NextPass, IInv, Phases
  <2>2. Phases' /\ NoDangling'  BY <1>1, <2>1 DEF IInv, Phases, NoDangling
  <2>3. Synced'  BY <1>1, <2>1 DEF IInv, Synced, Want
  <2> QED  BY <1>2, <1>3, <2>2, <2>3 DEF IInv
<1> QED  BY <1>4, <1>5, <1>6

(***************************************************************************)
(* The peers, and connections that come.                                   *)
(***************************************************************************)
LEMMA PeerIInv ==
    ASSUME IInv, NEW c \in Conns, NEW how \in {"closed", "reset"},
           PeerSends(c) \/ PeerReads(c) \/ PeerLeaves(c, how)
    PROVE  IInv'
<1>1. UNCHANGED <<phase, live, kind, joined, opening, wantWrite, held, queue, lists, mask, evs>>
  BY DEF PeerSends, PeerReads, PeerLeaves
<1>2. /\ room' \in [Conns -> 0..Room] /\ gone' \in [Conns -> {"no", "closed", "reset"}]
      /\ inbox' \in [Conns -> 0..MaxLines] /\ lines' \in 0..MaxLines
      /\ \A d \in Conns : inbox'[d] <= lines'
  <2>1. /\ Room \in Nat /\ MaxLines \in Nat /\ inbox \in [Conns -> 0..MaxLines] /\ lines \in 0..MaxLines
        /\ room \in [Conns -> 0..Room] /\ gone \in [Conns -> {"no", "closed", "reset"}]
        /\ \A d \in Conns : inbox[d] <= lines
    BY LoopTypes DEF IInv, TypeOK, Lined
  <2>2. CASE PeerSends(c)  BY <2>1, <2>2 DEF PeerSends
  <2>3. CASE PeerReads(c)  BY <2>1, <2>3 DEF PeerReads, counts
  <2>4. CASE PeerLeaves(c, how)  BY <2>1, <2>4 DEF PeerLeaves
  <2> QED  BY <2>2, <2>3, <2>4
<1>3. TypeOK' /\ Lined'  BY <1>1, <1>2 DEF IInv, TypeOK, Lined, lists
<1>4. NoDangling' /\ QuitQueued' /\ Phases'
  BY <1>1 DEF IInv, NoDangling, QuitQueued, Phases, lists
<1>5. Synced'  BY <1>1 DEF IInv, Synced, lists, Want
<1> QED  BY <1>3, <1>4, <1>5 DEF IInv

LEMMA AcceptIInv ==
    ASSUME IInv, NEW c \in Conns, NEW k \in Kinds, NEW dnsbl \in BOOLEAN, NEW bad \in BOOLEAN,
           Accept(c, k, dnsbl, bad)
    PROVE  IInv'
<1> DEFINE Q == IF bad THEN {c} ELSE {}
<1>1. /\ TypeOK /\ Lined /\ NoDangling /\ QuitQueued /\ Phases /\ Synced
      /\ SENDQ_MAX \in Nat \ {0} /\ Room \in Nat /\ MaxLines \in Nat /\ k \in {"plain", "tls", "ws"}
  BY LoopTypes DEF IInv
<1>2. /\ phase = "events" /\ c \notin live /\ live' = live \cup {c}
      /\ queue' = [queue EXCEPT ![c] = 1] /\ inbox' = [inbox EXCEPT ![c] = 0]
      /\ room' = [room EXCEPT ![c] = Room] /\ gone' = [gone EXCEPT ![c] = "no"]
      /\ kind' = [kind EXCEPT ![c] = k]
      /\ held' \in {held, held \cup {c}} /\ opening' \in {opening, opening \cup {c}}
      /\ quitting' = quitting \cup Q /\ dead' = dead \cup Q /\ dirty' = dirty \cup {c}
      /\ UNCHANGED <<phase, joined, wantWrite, flushing, mask, evs, lines>>
  BY DEF Accept, MarkQuit
<1>3. Q \subseteq {c}  OBVIOUS
<1> HIDE DEF Q
<1>4. TypeOK'
  <2>1. /\ queue' \in [Conns -> 0..SENDQ_MAX] /\ room' \in [Conns -> 0..Room]
        /\ inbox' \in [Conns -> 0..MaxLines] /\ gone' \in [Conns -> {"no", "closed", "reset"}]
        /\ kind' \in [Conns -> {"plain", "tls", "ws"}]
    BY <1>1, <1>2 DEF TypeOK
  <2>2. /\ joined' \subseteq live' /\ opening' \subseteq live' /\ held' \subseteq live'
        /\ quitting' \subseteq live' /\ wantWrite' \subseteq opening'
    BY <1>1, <1>2, <1>3, TypeParts
  <2> QED  BY <1>1, <1>2, <2>1, <2>2 DEF TypeOK
<1>5. Lined'
  <2>1. c \notin wantWrite  BY <1>1, <1>2, TypeParts
  <2>2. \A d \in wantWrite : kind'[d] = "tls"  BY <1>1, <1>2, <2>1, TypeParts DEF Lined
  <2>3. \A d \in Conns : inbox'[d] <= lines  BY <1>1, <1>2, TypeParts DEF Lined
  <2> QED  BY <1>1, <1>2, <2>2, <2>3 DEF Lined
<1>6. NoDangling' /\ QuitQueued' /\ Phases'
  BY <1>1, <1>2, <1>3 DEF NoDangling, QuitQueued, Phases
<1>7. Synced'
  <2> SUFFICES ASSUME NEW d \in live' \ quitting', d \notin dirty' \cup flushing'
               PROVE  (mask[d] = Want(d, queue[d], opening, wantWrite, held))'
    BY DEF Synced
  <2>1. d # c /\ d \in live \ quitting /\ d \notin dirty \cup flushing /\ d \in Conns
    BY <1>1, <1>2 DEF Lined
  <2>2. queue'[d] = queue[d] /\ kind'[d] = kind[d]  BY <1>1, <1>2, <2>1, TypeParts
  <2> QED  BY <1>1, <1>2, <2>1, <2>2, WantKept
<1> QED  BY <1>4, <1>5, <1>6, <1>7 DEF IInv

(***************************************************************************)
(* Events.                                                                 *)
(***************************************************************************)
\* An event is of a connection that lives, its bits are bits, and what is left of the pass stays so.
LEMMA EventFrame ==
    ASSUME IInv, NEW e \in evs, Event(e)
    PROVE  /\ e.c \in live /\ e.c \in Conns /\ e.r \in BOOLEAN /\ e.w \in BOOLEAN /\ e.hup \in BOOLEAN
           /\ phase = "events" /\ flushing = {} /\ evs' \subseteq evs
           /\ UNCHANGED <<phase, live, kind, held, flushing, lines>>
           /\ Phases'
<1>1. e \in [c : live, r : BOOLEAN, w : BOOLEAN, hup : BOOLEAN] /\ live \subseteq Conns
  BY DEF IInv, Phases, Lined
<1>2. phase = "events" /\ flushing = {} /\ evs' \subseteq evs /\ UNCHANGED <<phase, live, kind, held, flushing, lines>>
  BY DEF Event, IInv, Phases
<1> QED  BY <1>1, <1>2 DEF IInv, Phases

\* Marking one's own or another client that lives.
LEMMA MarkedLists ==
    ASSUME IInv, NEW Q \in SUBSET live, quitting' = quitting \cup Q, dead' = dead \cup Q,
           live' = live, flushing' = flushing, evs' \subseteq evs, dirty' \subseteq live,
           \A d \in Conns \ live : mask'[d] = mask[d]
    PROVE  QuitQueued' /\ NoDangling' /\ quitting' \subseteq live'
<1>1. quitting \subseteq live  BY TypeParts DEF IInv
<1> QED  BY <1>1 DEF IInv, QuitQueued, NoDangling

LEMMA HangUpIInv ==
    ASSUME IInv, NEW e \in evs, Event(e), Ignore(e) \/ HangUp(e)
    PROVE  IInv'
<1>1. /\ e.c \in live /\ evs' \subseteq evs /\ Phases'
      /\ UNCHANGED <<phase, live, kind, held, flushing, lines>>
  BY EventFrame
<1>2. UNCHANGED <<joined, opening, wantWrite, queue, dirty, mask, inbox, room, gone>>
  BY DEF Ignore, HangUp, sock
<1>3. PICK Q \in SUBSET {e.c} : quitting' = quitting \cup Q /\ dead' = dead \cup Q
  <2>1. CASE Ignore(e)
    <3>1. quitting' = quitting \cup {} /\ dead' = dead \cup {}  BY <2>1 DEF Ignore
    <3> QED  BY <3>1
  <2>2. CASE HangUp(e)  BY <2>2 DEF HangUp, MarkQuit
  <2> QED  BY <2>1, <2>2
<1>4. dirty' \subseteq live  BY <1>2 DEF IInv, NoDangling
<1>5. QuitQueued' /\ NoDangling' /\ quitting' \subseteq live'
  BY <1>1, <1>2, <1>3, <1>4, MarkedLists
<1>6. TypeOK'  BY <1>1, <1>2, <1>5 DEF IInv, TypeOK
<1>7. Lined'  BY <1>1, <1>2 DEF IInv, Lined
<1>8. Synced'  BY <1>1, <1>2, <1>3 DEF IInv, Synced, Want
<1> QED  BY <1>1, <1>5, <1>6, <1>7, <1>8 DEF IInv

LEMMA ShakeIInv ==
    ASSUME IInv, NEW e \in evs, Event(e), e.c \notin quitting, e.c \in Shaking,
           NEW bad \in BOOLEAN, Shake(e, bad)
    PROVE  IInv'
<1> DEFINE c == e.c
           W == Want(c, queue[c], opening', wantWrite', held)
<1>1. /\ c \in live /\ c \in Conns /\ evs' \subseteq evs /\ Phases'
      /\ UNCHANGED <<phase, live, kind, held, flushing, lines>>
  BY EventFrame
<1>2. c \in opening /\ kind[c] = "tls"  BY DEF Shaking
<1>3. UNCHANGED <<joined, queue, dirty, room, gone>>  BY DEF Shake
<1>4. PICK Q \in SUBSET {c} : quitting' = quitting \cup Q /\ dead' = dead \cup Q
  BY DEF Shake, Handshake, MarkQuit
<1>5. /\ opening' \in {opening, opening \ {c}} /\ wantWrite' \in {wantWrite \cup {c}, wantWrite \ {c}}
      /\ c \in wantWrite' => opening' = opening
      /\ inbox' = inbox \/ (inbox[c] > 0 /\ inbox' = [inbox EXCEPT ![c] = @ - 1])
  <2> HIDE DEF c
  <2>1. inbox[c] \in Nat /\ room[c] \in Nat  BY <1>1, Values DEF IInv
  <2>2. Handshake(c, bad)  BY DEF Shake, c
  <2>3. opening' \in {opening, opening \ {c}} /\ wantWrite' \in {wantWrite \cup {c}, wantWrite \ {c}}
    BY <2>2 DEF Handshake
  <2>4. ASSUME c \in wantWrite' PROVE opening' = opening
    <3>1. inbox[c] > 0 /\ room[c] = 0  BY <2>2, <2>4 DEF Handshake
    <3> QED  BY <2>2, <3>1 DEF Handshake
  <2>5. inbox' = inbox \/ (inbox[c] > 0 /\ inbox' = [inbox EXCEPT ![c] = @ - 1])
    BY <2>2 DEF Handshake
  <2> QED  BY <2>3, <2>4, <2>5
<1>6. mask' = IF c \in quitting' THEN mask ELSE [mask EXCEPT ![c] = W]  BY DEF Shake
<1>7. /\ inbox \in [Conns -> 0..MaxLines] /\ queue \in [Conns -> 0..SENDQ_MAX] /\ SENDQ_MAX \in Nat
      /\ mask \in [Conns -> [r : BOOLEAN, w : BOOLEAN] \cup {None}] /\ MaxLines \in Nat
      /\ \A d \in Conns : inbox[d] <= lines /\ lines \in Nat
  BY LoopTypes, TypeParts DEF IInv, Lined
<1>8. W \in [r : BOOLEAN, w : BOOLEAN]  BY <1>1, <1>7, WantType
<1> HIDE DEF c, W
<1>9. /\ inbox' \in [Conns -> 0..MaxLines] /\ \A d \in Conns : inbox'[d] <= lines
      /\ mask' \in [Conns -> [r : BOOLEAN, w : BOOLEAN] \cup {None}]
      /\ \A d \in Conns \ {c} : mask'[d] = mask[d]
      /\ c \notin quitting' => mask'[c] = W
  BY <1>1, <1>5, <1>6, <1>7, <1>8
<1>10. QuitQueued' /\ NoDangling' /\ quitting' \subseteq live'
  <2>1. dirty' \subseteq live  BY <1>3 DEF IInv, NoDangling
  <2>2. \A d \in Conns \ live : mask'[d] = mask[d]  BY <1>1, <1>9
  <2>3. Q \in SUBSET live  BY <1>1
  <2> QED  BY <1>1, <1>4, <2>1, <2>2, <2>3, MarkedLists
<1>11. TypeOK'
  <2>1. opening' \subseteq live' /\ wantWrite' \subseteq opening'  BY <1>1, <1>2, <1>5, TypeParts DEF IInv
  <2> QED  BY <1>1, <1>3, <1>9, <1>10, <2>1 DEF IInv, TypeOK
<1>12. Lined'
  <2>1. \A d \in wantWrite' : kind'[d] = "tls"  BY <1>1, <1>2, <1>5 DEF IInv, Lined, c
  <2> QED  BY <1>1, <1>9, <2>1 DEF IInv, Lined
<1>13. Synced'
  <2> SUFFICES ASSUME NEW d \in live' \ quitting', d \notin dirty' \cup flushing'
               PROVE  (mask[d] = Want(d, queue[d], opening, wantWrite, held))'
    BY DEF Synced
  <2>1. d \in live \ quitting /\ d \notin dirty \cup flushing /\ d \in Conns
    BY <1>1, <1>3, <1>4 DEF IInv, Lined
  <2>2. CASE d = c  BY <1>1, <1>3, <1>9, <2>2 DEF W, Want
  <2>3. CASE d # c
    <3>1. (d \in opening' <=> d \in opening) /\ (d \in wantWrite' <=> d \in wantWrite) /\ mask'[d] = mask[d]
      BY <1>5, <1>9, <2>1, <2>3
    <3> QED  BY <1>1, <1>3, <2>1, <3>1, WantKept DEF IInv
  <2> QED  BY <2>2, <2>3
<1> QED  BY <1>1, <1>10, <1>11, <1>12, <1>13 DEF IInv

\* What a line makes the server do is to clients that live, and takes a line that was there.
LEMMA InputSound ==
    ASSUME IInv, NEW e \in evs, e.c \in live, NEW in \in Inputs(e)
    PROVE  /\ in.to \subseteq live /\ in.quit \subseteq live
           /\ in.what \notin {"none", "eof"} => inbox[e.c] > 0
<1>1. joined \subseteq live /\ inbox[e.c] \in Nat  BY TypeParts, Values DEF IInv, Lined
<1>2. CASE in = Idle \/ in = Input("eof", {}, {e.c})  BY <1>2 DEF Idle, Input
<1>3. CASE inbox[e.c] # 0 /\ in \in Lines(e.c)
  <2>1. in.to \subseteq joined \cup {e.c} /\ in.quit \subseteq joined \cup {e.c}
    BY <1>3 DEF Lines, Input
  <2> QED  BY <1>1, <1>3, <2>1
<1> QED  BY <1>2, <1>3 DEF Inputs

LEMMA ReadWriteIInv ==
    ASSUME IInv, NEW e \in evs, Event(e), e.c \notin quitting, e.c \notin Shaking,
           NEW in \in Inputs(e), ReadWrite(e, in)
    PROVE  IInv'
<1> DEFINE c == e.c
           Q == in.quit \cup Overflow(in.to)
           op == IF in.what = "upgrade" THEN opening \ {c} ELSE opening
           q == Queued(in.to)[c]
           write == e.w /\ c \notin Q
           fails == write /\ WriteFails(c, q, op)
           n == IF write THEN Writable(c, q, op) ELSE 0
           R == Q \cup (IF fails THEN {c} ELSE {})
           W == Want(c, q - n, op, wantWrite, held)
<1>1. /\ c \in live /\ c \in Conns /\ evs' \subseteq evs /\ Phases'
      /\ UNCHANGED <<phase, live, kind, held, flushing, lines>>
  BY EventFrame
<1>2. /\ inbox' = IF in.what \in {"none", "eof"} THEN inbox ELSE [inbox EXCEPT ![c] = @ - 1]
      /\ opening' = op /\ joined' \in {joined, joined \cup {c}}
      /\ queue' = [Queued(in.to) EXCEPT ![c] = @ - n] /\ room' = [room EXCEPT ![c] = @ - n]
      /\ quitting' = quitting \cup R /\ dead' = dead \cup R
      /\ dirty' = dirty \cup (Woken(in.to) \ quitting)
      /\ mask' = IF c \in Q \/ fails THEN mask ELSE [mask EXCEPT ![c] = W]
      /\ UNCHANGED <<wantWrite, gone>>
  BY DEF ReadWrite, MarkQuit, MarkDirty
<1>3. /\ Queued(in.to) \in [Conns -> 0..SENDQ_MAX] /\ SENDQ_MAX \in Nat /\ Room \in Nat /\ MaxLines \in Nat
      /\ room \in [Conns -> 0..Room] /\ inbox \in [Conns -> 0..MaxLines]
      /\ mask \in [Conns -> [r : BOOLEAN, w : BOOLEAN] \cup {None}]
      /\ \A d \in Conns : inbox[d] <= lines /\ lines \in Nat
      /\ live \subseteq Conns /\ \A d \in wantWrite : kind[d] = "tls"
  BY QueuedType, ConstTypes, TypeParts DEF IInv, Lined
<1>4. n \in 0..q /\ n \in 0..room[c]  BY <1>1, <1>3, WritableBound DEF IInv
<1>5. W \in [r : BOOLEAN, w : BOOLEAN]
  <2>1. q - n \in Nat  BY <1>1, <1>3, <1>4
  <2> HIDE DEF q, n, op
  <2> QED  BY <2>1, WantType
<1>6. /\ in.to \subseteq live /\ in.quit \subseteq live
      /\ in.what \notin {"none", "eof"} => inbox[c] > 0
  BY <1>1, InputSound
<1>7. Q \subseteq live /\ R \subseteq live /\ (c \notin R => c \notin Q /\ ~fails) /\ Woken(in.to) \subseteq live
  BY <1>1, <1>6, SendLists
<1>8. opening' \subseteq opening /\ wantWrite' \subseteq opening' /\ \A d \in Conns \ {c} : d \in opening' <=> d \in opening
  <2>1. c \notin wantWrite  BY <1>3, TypeParts DEF Shaking, IInv
  <2>2. wantWrite \subseteq opening  BY TypeParts DEF IInv
  <2> QED  BY <1>2, <2>1, <2>2
<1> HIDE DEF c, Q, op, q, write, fails, n, R, W
<1>9. /\ queue' \in [Conns -> 0..SENDQ_MAX] /\ room' \in [Conns -> 0..Room]
      /\ queue'[c] = q - n
      /\ \A d \in Conns \ {c} : queue'[d] = Queued(in.to)[d]
  BY <1>1, <1>2, <1>3, <1>4 DEF q
<1>10. /\ inbox' \in [Conns -> 0..MaxLines] /\ \A d \in Conns : inbox'[d] <= lines
  <2>1. CASE in.what \in {"none", "eof"}  BY <1>2, <1>3, <2>1
  <2>2. CASE in.what \notin {"none", "eof"}
    <3>1. inbox' = [inbox EXCEPT ![c] = @ - 1] /\ inbox[c] > 0  BY <1>2, <1>6, <2>2
    <3> QED  BY <1>1, <1>3, <3>1
  <2> QED  BY <2>1, <2>2
<1>11. /\ mask' \in [Conns -> [r : BOOLEAN, w : BOOLEAN] \cup {None}]
       /\ \A d \in Conns \ {c} : mask'[d] = mask[d]
       /\ c \notin R => mask'[c] = W
  BY <1>1, <1>2, <1>3, <1>5, <1>7
<1>12. QuitQueued' /\ NoDangling' /\ quitting' \subseteq live'
  <2>1. dirty' \subseteq live  BY <1>2, <1>7 DEF IInv, NoDangling
  <2>2. \A d \in Conns \ live : mask'[d] = mask[d]  BY <1>1, <1>11
  <2> QED  BY <1>1, <1>2, <1>7, <2>1, <2>2, MarkedLists
<1>13. TypeOK'
  <2>1. opening' \subseteq live' /\ joined' \subseteq live'  BY <1>1, <1>2, <1>8, TypeParts DEF IInv
  <2> QED  BY <1>1, <1>2, <1>8, <1>9, <1>10, <1>11, <1>12, <2>1 DEF IInv, TypeOK
<1>14. Lined'  BY <1>1, <1>2, <1>3, <1>10 DEF IInv, Lined
<1>15. Synced'
  <2> SUFFICES ASSUME NEW d \in live' \ quitting', d \notin dirty' \cup flushing'
               PROVE  (mask[d] = Want(d, queue[d], opening, wantWrite, held))'
    BY DEF Synced
  <2>1. d \in live \ quitting /\ d \notin dirty \cup flushing /\ d \in Conns /\ d \notin R /\ d \notin Woken(in.to)
    BY <1>1, <1>2, <1>3
  <2>2. CASE d = c
    <3>1. mask'[c] = W /\ queue'[c] = q - n /\ opening' = op  BY <1>2, <1>9, <1>11, <2>1, <2>2
    <3> QED  BY <1>1, <1>2, <2>2, <3>1 DEF W, Want
  <2>3. CASE d # c
    <3>1. queue'[d] > 0 <=> queue[d] > 0
      <4>1. Queued(in.to)[d] > 0 <=> queue[d] > 0  BY <2>1, QueuedSame DEF IInv
      <4> QED  BY <1>9, <2>1, <2>3, <4>1
    <3>2. mask'[d] = mask[d] /\ (d \in opening' <=> d \in opening)  BY <1>8, <1>11, <2>1, <2>3
    <3> QED  BY <1>1, <1>2, <2>1, <3>1, <3>2, WantKept DEF IInv
  <2> QED  BY <2>2, <2>3
<1> QED  BY <1>1, <1>12, <1>13, <1>14, <1>15 DEF IInv

LEMMA EventIInv ==
    ASSUME IInv, NEW e \in evs, Event(e)
    PROVE  IInv'
<1>1. CASE Ignore(e) \/ HangUp(e)  BY <1>1, HangUpIInv
<1>2. CASE e.c \notin quitting /\ e.c \in Shaking /\ \E bad \in BOOLEAN : Shake(e, bad)
  BY <1>2, ShakeIInv
<1>3. CASE e.c \notin quitting /\ e.c \notin Shaking /\ \E in \in Inputs(e) : ReadWrite(e, in)
  BY <1>3, ReadWriteIInv
<1> QED  BY <1>1, <1>2, <1>3 DEF Event

(***************************************************************************)
(* Verdicts, the tick and the teardown.                                    *)
(***************************************************************************)
LEMMA VerdictIInv ==
    ASSUME IInv, NEW c \in Conns, NEW listed \in BOOLEAN, Verdict(c, listed)
    PROVE  IInv'
<1> DEFINE Q == IF listed THEN {c} ELSE {}
<1>1. /\ phase = "events" /\ c \in held /\ held' = held \ {c} /\ dirty' = dirty \cup ({c} \ quitting)
      /\ quitting' = quitting \cup Q /\ dead' = dead \cup Q
      /\ UNCHANGED <<phase, live, kind, joined, opening, wantWrite, queue, flushing, mask, evs, inbox, room, gone, lines>>
  BY DEF Verdict, MarkDirty, MarkQuit, sock
<1>2. c \in live /\ Q \subseteq {c} /\ held \subseteq live  BY <1>1, TypeParts DEF IInv
<1> HIDE DEF Q
<1>3. QuitQueued' /\ NoDangling' /\ quitting' \subseteq live'
  <2>1. dirty' \subseteq live  BY <1>1, <1>2 DEF IInv, NoDangling
  <2> QED  BY <1>1, <1>2, <2>1, MarkedLists
<1>4. TypeOK'  BY <1>1, <1>2, <1>3 DEF IInv, TypeOK
<1>5. Lined' /\ Phases'  BY <1>1 DEF IInv, Lined, Phases
<1>6. Synced'
  <2> SUFFICES ASSUME NEW d \in live' \ quitting', d \notin dirty' \cup flushing'
               PROVE  (mask[d] = Want(d, queue[d], opening, wantWrite, held))'
    BY DEF Synced
  <2>1. d \in live \ quitting /\ d \notin dirty \cup flushing /\ d # c  BY <1>1
  <2> QED  BY <1>1, <2>1, WantKept DEF IInv
<1> QED  BY <1>3, <1>4, <1>5, <1>6 DEF IInv

LEMMA TickIInv ==
    ASSUME IInv, NEW c \in Conns, NEW out \in BOOLEAN, Tick(c, out)
    PROVE  IInv'
<1> DEFINE to == IF out THEN {} ELSE {c}
           Q == (IF out THEN {c} ELSE Overflow(to)) \cup (quitting \ dead)
<1>1. /\ phase = "events" /\ evs = {} /\ phase' = "reap" /\ c \in live \ quitting
      /\ queue' = Queued(to) /\ quitting' = quitting \cup Q /\ dead' = dead \cup Q
      /\ dirty' = dirty \cup (({d \in live : queue[d] > 0} \cup Woken(to)) \ quitting)
      /\ UNCHANGED <<live, kind, joined, opening, wantWrite, held, flushing, mask, evs, inbox, room, gone, lines>>
  BY DEF Tick, MarkDirty, MarkQuit, sock
<1>2. to \subseteq live /\ Woken(to) \subseteq live /\ Q \subseteq live
  <2>1. quitting \subseteq live  BY TypeParts DEF IInv
  <2>2. to \subseteq {c} /\ Overflow(to) \subseteq to /\ Woken(to) \subseteq to  BY SendLists
  <2> QED  BY <1>1, <2>1, <2>2
<1>3. queue' \in [Conns -> 0..SENDQ_MAX]  BY <1>1, QueuedType DEF IInv
<1> HIDE DEF Q, to
<1>4. QuitQueued' /\ NoDangling' /\ quitting' \subseteq live'
  <2>1. dirty' \subseteq live  BY <1>1, <1>2 DEF IInv, NoDangling
  <2> QED  BY <1>1, <1>2, <2>1, MarkedLists
<1>5. TypeOK'  BY <1>1, <1>3, <1>4 DEF IInv, TypeOK
<1>6. Lined' /\ Phases'  BY <1>1 DEF IInv, Lined, Phases
<1>7. Synced'
  <2> SUFFICES ASSUME NEW d \in live' \ quitting', d \notin dirty' \cup flushing'
               PROVE  (mask[d] = Want(d, queue[d], opening, wantWrite, held))'
    BY DEF Synced
  <2>1. d \in live \ quitting /\ d \notin dirty \cup flushing /\ d \notin Woken(to) /\ d \in Conns
    BY <1>1 DEF IInv, Lined
  <2>2. queue'[d] > 0 <=> queue[d] > 0  BY <1>1, <2>1, QueuedSame DEF IInv
  <2> QED  BY <1>1, <2>1, <2>2, WantKept DEF IInv
<1> QED  BY <1>4, <1>5, <1>6, <1>7 DEF IInv

\* Nothing points at a block that is freed: no event is left, no snapshot, and no list.
LEMMA ReapIInv ==
    ASSUME IInv, NEW c \in Conns, Reap(c)
    PROVE  IInv'
<1> DEFINE O == Overflow(Others(c))
           K == Woken(Others(c))
           F == Queued(Others(c))
<1>1. /\ phase = "reap" /\ c \in dead
      /\ quitting' = (quitting \cup O) \ {c} /\ dead' = (dead \cup O) \ {c} /\ dirty' = (dirty \cup K) \ {c}
      /\ queue' = [F EXCEPT ![c] = 0]
      /\ live' = live \ {c} /\ joined' = joined \ {c} /\ kind' = [kind EXCEPT ![c] = "plain"]
      /\ opening' = opening \ {c} /\ wantWrite' = wantWrite \ {c} /\ held' = held \ {c}
      /\ mask' = [mask EXCEPT ![c] = None]
      /\ inbox' = [inbox EXCEPT ![c] = 0] /\ room' = [room EXCEPT ![c] = 0] /\ gone' = [gone EXCEPT ![c] = "no"]
      /\ UNCHANGED <<phase, flushing, evs, lines>>
  BY DEF Reap, Remove, counts
<1>2. /\ joined \subseteq live /\ opening \subseteq live /\ held \subseteq live /\ quitting \subseteq live
      /\ wantWrite \subseteq opening /\ live \subseteq Conns
      /\ kind \in [Conns -> {"plain", "tls", "ws"}] /\ F \in [Conns -> 0..SENDQ_MAX]
      /\ room \in [Conns -> 0..Room] /\ inbox \in [Conns -> 0..MaxLines]
      /\ gone \in [Conns -> {"no", "closed", "reset"}]
      /\ mask \in [Conns -> [r : BOOLEAN, w : BOOLEAN] \cup {None}]
      /\ SENDQ_MAX \in Nat /\ Room \in Nat /\ MaxLines \in Nat
  BY QueuedType, ConstTypes, TypeParts DEF IInv, Lined
<1>3. O \subseteq live \ {c} /\ K \subseteq live \ {c}  BY <1>2, SendLists DEF Others
<1>4. flushing = {} /\ evs = {}  BY <1>1 DEF IInv, Phases
<1> HIDE DEF O, K, F
<1>5. TypeOK'
  <2>1. /\ queue' \in [Conns -> 0..SENDQ_MAX] /\ room' \in [Conns -> 0..Room]
        /\ inbox' \in [Conns -> 0..MaxLines] /\ gone' \in [Conns -> {"no", "closed", "reset"}]
        /\ kind' \in [Conns -> {"plain", "tls", "ws"}]
        /\ mask' \in [Conns -> [r : BOOLEAN, w : BOOLEAN] \cup {None}]
    BY <1>1, <1>2
  <2>2. /\ joined' \subseteq live' /\ opening' \subseteq live' /\ held' \subseteq live'
        /\ quitting' \subseteq live' /\ wantWrite' \subseteq opening'
    BY <1>1, <1>2, <1>3
  <2> QED  BY <1>1, <2>1, <2>2 DEF TypeOK
<1>6. Lined'
  <2>1. lines \in 0..MaxLines /\ \A d \in Conns : inbox[d] <= lines  BY DEF IInv, Lined
  <2>2. \A d \in Conns : inbox'[d] <= lines  BY <1>1, <1>2, <2>1
  <2>3. \A d \in wantWrite' : kind'[d] = "tls"  BY <1>1, <1>2 DEF IInv, Lined
  <2> QED  BY <1>1, <1>2, <2>1, <2>2, <2>3 DEF Lined
<1>7. NoDangling'
  <2>1. \A d \in Conns \ live' : mask'[d] = None  BY <1>1, <1>2 DEF IInv, NoDangling
  <2> QED  BY <1>1, <1>3, <1>4, <2>1 DEF IInv, NoDangling
<1>8. QuitQueued' /\ Phases'  BY <1>1, <1>4 DEF IInv, QuitQueued, Phases
<1>9. Synced'
  <2> SUFFICES ASSUME NEW d \in live' \ quitting', d \notin dirty' \cup flushing'
               PROVE  (mask[d] = Want(d, queue[d], opening, wantWrite, held))'
    BY DEF Synced
  <2>1. d \in live \ quitting /\ d # c /\ d \notin dirty \cup flushing /\ d \notin K /\ d \in Conns
    BY <1>1, <1>2
  <2>2. queue'[d] > 0 <=> queue[d] > 0
    <3>1. F[d] > 0 <=> queue[d] > 0  BY <2>1, QueuedSame DEF IInv, F, K
    <3> QED  BY <1>1, <1>2, <2>1, <3>1
  <2>3. mask'[d] = mask[d] /\ kind'[d] = kind[d]  BY <1>1, <1>2, <2>1
  <2> QED  BY <1>1, <2>1, <2>2, <2>3, WantKept DEF IInv
<1> QED  BY <1>5, <1>6, <1>7, <1>8, <1>9 DEF IInv

(***************************************************************************)
(* The theorems.                                                           *)
(***************************************************************************)
LEMMA NextIInv == IInv /\ [Next]_vars => IInv'
<1> SUFFICES ASSUME IInv, [Next]_vars PROVE IInv'  OBVIOUS
<1>1. CASE UNCHANGED vars
  <2>1. TypeOK'  BY <1>1 DEF IInv, TypeOK, vars, lists, sock, counts
  <2>2. Lined' /\ NoDangling' /\ QuitQueued' /\ Phases'
    BY <1>1 DEF IInv, Lined, NoDangling, QuitQueued, Phases, vars, lists, sock, counts
  <2>3. Synced'  BY <1>1 DEF IInv, Synced, Want, vars, lists
  <2> QED  BY <2>1, <2>2, <2>3 DEF IInv
<1>2. CASE Loop
  BY <1>2, FlushIInv, PhaseIInv, EventIInv, ReapIInv DEF Loop, FlushSome, HandleOne, ReapSome
<1>3. CASE VerdictSome  BY <1>3, VerdictIInv DEF VerdictSome
<1>4. CASE \E c \in Conns, k \in Kinds, dnsbl, bad \in BOOLEAN : Accept(c, k, dnsbl, bad)
  BY <1>4, AcceptIInv
<1>5. CASE \E c \in Conns, out \in BOOLEAN : Tick(c, out)  BY <1>5, TickIInv
<1>6. CASE \E c \in Conns : PeerSends(c) \/ PeerReads(c)
  <2>1. "closed" \in {"closed", "reset"}  OBVIOUS
  <2> QED  BY <1>6, <2>1, PeerIInv
<1>7. CASE \E c \in Conns, how \in {"closed", "reset"} : PeerLeaves(c, how)  BY <1>7, PeerIInv
<1> QED  BY <1>1, <1>2, <1>3, <1>4, <1>5, <1>6, <1>7 DEF Next

THEOREM Inductive == Spec => []IInv
  BY InitIInv, NextIInv, PTL DEF Spec

\* No list and no event of a pass names a client that was freed, and whoever is marked to quit is
\* in the list of those to tear down, whatever a handler, a broadcast or a teardown did.
THEOREM ListsSoundHolds == Spec => []ListsSound
<1>1. IInv => ListsSound  BY DEF IInv, ListsSound
<1> QED  BY <1>1, Inductive, PTL

\* When the loop goes to wait, the kernel watches each connection for what ev_update_client
\* would ask now: the dirty list alone keeps the interests right, without a walk of all.
THEOREM WatchedHolds == Spec => []Watched
<1>1. IInv => Watched  BY DEF IInv, Phases, Synced, Watched
<1> QED  BY <1>1, Inductive, PTL
==============================================================================
