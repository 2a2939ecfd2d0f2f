------------------------------- MODULE NickNet -------------------------------
(***************************************************************************)
(* Users and nicknames across a tree of linked sekurircd servers           *)
(* (netsync.c, with the local halves in cmd_reg.c, cmd.c, server.c, net.c  *)
(* and the link teardown in link.c).                                       *)
(*                                                                         *)
(* Every server keeps a table of the servers it can reach, an index of     *)
(* users by UID and a hash of users by nick.  The nick hash is a uthash    *)
(* table: adding an entry never checks for an equal key, so "one holder    *)
(* per nick" is something the handlers have to maintain, and here the hash *)
(* is a set of client objects whose key is the object's own nick field.    *)
(*                                                                         *)
(* Links are FIFO byte streams; a line is one message.  A link may be      *)
(* closed by either end at any moment (EOF, write error, SendQ overflow,   *)
(* ping timeout, SQUIT), which loses whatever was still in flight; link-   *)
(* ing again re-sends the whole state as a burst.  The linked servers form *)
(* a fixed tree, given by Route; ServerTree models links that do not.      *)
(*                                                                         *)
(* time(NULL) is any value of Time: the clocks of two machines need not    *)
(* agree.                                                                  *)
(***************************************************************************)
EXTENDS Naturals, Sequences, FiniteSets

CONSTANTS
    Server,     \* the servers, by SID
    User,       \* client connections, by the UID each gets when it registers
    Service,    \* the users that are service bots (link.c pseudo-clients, fd < 0)
    Home,       \* Home[u]: the server u is connected to
    Route,      \* Route[s][t]: the neighbour of s on the way to t
    Nick,       \* nicknames, casefolded
    NoNick,     \* an empty casefold_nick
    MaxTS,      \* bound: time(NULL) is in 1..MaxTS
    MaxMoves,   \* bound: how many nick changes and oper KILLs there are
    MaxFaults   \* bound: how often a link is closed from outside the protocol

Time == 1..MaxTS
Link == {l \in Server \X Server : l[1] # l[2] /\ Route[l[1]][l[2]] = l[2]}

ASSUME UserFinite == IsFiniteSet(User) /\ Service \subseteq User
ASSUME ServerFinite == IsFiniteSet(Server)
ASSUME HomeType == Home \in [User -> Server]
ASSUME RouteType == Route \in [Server -> [Server -> Server]]
ASSUME RouteAdjacent == \A s, t \in Server : s # t => <<s, Route[s][t]>> \in Link
ASSUME LinkSymmetric == \A s, t \in Server : <<s, t>> \in Link => <<t, s>> \in Link
\* The links form a tree: a route never turns back, and two linked servers are on
\* the same side of any third one.
ASSUME RouteForward ==
    \A s, t \in Server : s # t /\ Route[s][t] # t => Route[Route[s][t]][t] # s
ASSUME RouteShared ==
    \A r, s, t \in Server : <<s, t>> \in Link /\ r # s /\ r # t => Route[r][s] = Route[r][t]
ASSUME BoundType == MaxTS \in Nat /\ MaxMoves \in Nat /\ MaxFaults \in Nat
ASSUME NoNickType == NoNick \notin Nick

VARIABLES
    alive,      \* alive[u]: the connection of u: "new", "open", "quitting" or "gone"
    users,      \* users[s]: the client objects in the nick hash of s
    byUid,      \* byUid[s]: the client objects in the UID index of s
    nick,       \* nick[s][u]: casefold_nick of s's object for u
    nickTs,     \* nickTs[s][u]: its nick_ts; 0 until the user is introduced
    servers,    \* servers[s]: the SIDs in the server table of s (s itself included)
    lc,         \* lc[s][t]: s's end of the link with t: "down", "up" or "closing"
    chan,       \* chan[<<s, t>>]: the lines sent by s that t has not read yet
    faults,     \* how many links were closed from outside so far
    moves       \* how many nick changes and oper KILLs there were so far

vars == <<alive, users, byUid, nick, nickTs, servers, lc, chan, faults, moves>>

(***************************************************************************)
(* Messages.                                                               *)
(***************************************************************************)
Msg == [type : {"UID", "NICK"}, user : User, nick : Nick, ts : Time]
         \cup [type : {"QUIT", "KILL"}, user : User]
         \cup [type : {"SERVER", "SQUIT"}, sid : Server]

UidLine(u, n, t) == [type |-> "UID", user |-> u, nick |-> n, ts |-> t]
NickLine(u, n, t) == [type |-> "NICK", user |-> u, nick |-> n, ts |-> t]
QuitLine(u) == [type |-> "QUIT", user |-> u]
KillLine(u) == [type |-> "KILL", user |-> u]
ServerLine(t) == [type |-> "SERVER", sid |-> t]
SquitLine(t) == [type |-> "SQUIT", sid |-> t]

(***************************************************************************)
(* What a handler sends: a sequence of lines for each neighbour.           *)
(***************************************************************************)
Nothing == [p \in Server |-> << >>]
RouteTo(p, m) == [Nothing EXCEPT ![p] = <<m>>]
FloodAll(m) == [p \in Server |-> <<m>>]
Flood(except, m) == [FloodAll(m) EXCEPT ![except] = << >>]
Then(o1, o2) == [p \in Server |-> o1[p] \o o2[p]]

\* send_link: only an authenticated server link that is not closing takes a
\* line; what is written to a connection the peer has already closed is lost.
CanSend(s, p) == lc[s][p] = "up" /\ lc[p][s] # "down"

Sent(s, out) ==
    [l \in Link |-> IF l[1] = s /\ CanSend(s, l[2]) THEN chan[l] \o out[l[2]] ELSE chan[l]]

\* The same, by the handler of the line at the head of p's stream to s.
SentOnRead(s, p, out) == [Sent(s, out) EXCEPT ![<<p, s>>] = Tail(@)]

(***************************************************************************)
(* Lookups.                                                                *)
(***************************************************************************)
\* Mutant: a lookup that only sees local users.
HoldersLocal(s, n) == {v \in users[s] : nick[s][v] = n /\ Home[v] = s}

\* server_find_user: whoever the hash holds under that nick.
Holders(s, n) == {v \in users[s] : nick[s][v] = n}

Remote(s, u) == Home[u] # s
Registered(u) == u \in byUid[Home[u]]

\* netsync_is_behind: as s sees it, t is r or hangs off it.
IsBehind(s, t, r) == t = r \/ (r # s /\ Route[r][s] # Route[r][t])

\* src_server and src_user: a line's source must be known, and behind the link
\* the line came in on.
SrcServer(s, p, t) == t \in servers[s] /\ t # s /\ IsBehind(s, t, p)
SrcUser(s, p, u) == u \in byUid[s] /\ Remote(s, u) /\ IsBehind(s, Home[u], p)

(***************************************************************************)
(* Table updates.                                                          *)
(***************************************************************************)
\* Mutant: a rename that leaves nick_ts alone.
TsAfterFirstOnly(s, gone, new, t) ==
    [v \in User |-> IF v \in new /\ v \notin byUid[s] THEN t
                    ELSE IF v \in gone /\ Remote(s, v) THEN 0 ELSE nickTs[s][v]]

\* nick_ts at s once the users of `gone` are out and those of `new` are filed.
TsAfter(s, gone, new, t) ==
    [v \in User |-> IF v \in new THEN t
                    ELSE IF v \in gone /\ Remote(s, v) THEN 0 ELSE nickTs[s][v]]

\* Mutant: an eviction that frees the nick and does not close the connection.
AliveAfterNothing(s, gone) == alive

\* evict_local_for_collision marks a local loser quitting.
AliveAfter(s, gone) ==
    [v \in User |-> IF v \in gone /\ ~Remote(s, v) THEN "quitting" ELSE alive[v]]

\* server s drops the remote users of `gone` (server_remove_client), evicts the
\* local ones (evict_local_for_collision) and files u under nick n, if u is in
\* `new`: a UID or a NICK of a remote user, its collision settled.
Settle(s, gone, new, n, t) ==
    /\ users' = [users EXCEPT ![s] = (@ \ gone) \cup new]
    /\ byUid' = [byUid EXCEPT ![s] = (@ \ {v \in gone : Remote(s, v)}) \cup new]
    /\ nick' = [nick EXCEPT ![s] = [v \in User |->
                    IF v \in new THEN n ELSE IF v \in gone THEN NoNick ELSE @[v]]]
    /\ nickTs' = [nickTs EXCEPT ![s] = TsAfter(s, gone, new, t)]
    /\ alive' = AliveAfter(s, gone)

\* Mutant: only the users of r itself, or only r itself, not what hangs off it.
UsersOfServer(s, r) == {v \in users[s] : Remote(s, v) /\ Home[v] = r}
ServerItself(s, r) == {t \in servers[s] : t = r}

\* The users s loses with the servers behind r: remove_server_tree looks for
\* them in the nick hash.
UsersBehind(s, r) == {v \in users[s] : Remote(s, v) /\ IsBehind(s, Home[v], r)}
ServersBehind(s, r) == {t \in servers[s] : t # s /\ IsBehind(s, t, r)}

\* Mutant: the servers are freed and their users forgotten in the nick hash.
RemoveServersOnly(s, r) ==
    /\ Settle(s, {}, {}, NoNick, 0)
    /\ servers' = [servers EXCEPT ![s] = @ \ ServersBehind(s, r)]

RemoveServerTree(s, r) ==
    /\ Settle(s, UsersBehind(s, r), {}, NoNick, 0)
    /\ servers' = [servers EXCEPT ![s] = @ \ ServersBehind(s, r)]

(***************************************************************************)
(* Local connections.                                                      *)
(***************************************************************************)
Init ==
    /\ alive = [u \in User |-> "new"]
    /\ users = [s \in Server |-> {}]
    /\ byUid = [s \in Server |-> {}]
    /\ nick = [s \in Server |-> [u \in User |-> NoNick]]
    /\ nickTs = [s \in Server |-> [u \in User |-> 0]]
    /\ servers = [s \in Server |-> {s}]
    /\ lc = [s \in Server |-> [t \in Server |-> "down"]]
    /\ chan = [l \in Link |-> << >>]
    /\ faults = 0
    /\ moves = 0

\* Mutant: a check that takes the nick of a service bot for free.
NickFreeOfUsers(u, n) == Holders(Home[u], n) \ Service \subseteq {u}

\* server_find_user finds nobody else under that nick.
NickFree(u, n) == Holders(Home[u], n) \subseteq {u}

\* NICK before registration (cmd_nick): the connection takes the nick in the
\* hash at once, with nick_ts still 0, and nobody else is told.
NickUnregistered(u, n) ==
    /\ u \notin Service
    /\ alive[u] \in {"new", "open"} /\ ~Registered(u)
    /\ NickFree(u, n)
    /\ alive' = [alive EXCEPT ![u] = "open"]
    /\ users' = [users EXCEPT ![Home[u]] = @ \cup {u}]
    /\ nick' = [nick EXCEPT ![Home[u]][u] = n]
    /\ UNCHANGED <<byUid, nickTs, servers, lc, chan, faults, moves>>

\* Registration completes (cmd_send_welcome_if_ready, then
\* netsync_introduce_user): from a client line, or from a lookup result, which
\* net.c applies to a connection already marked quitting as well.
Register(u, t) ==
    LET s == Home[u]
        stamp == IF nickTs[s][u] = 0 THEN t ELSE nickTs[s][u]
    IN  /\ u \notin Service
        /\ alive[u] \in {"open", "quitting"} /\ ~Registered(u) /\ u \in users[s]
        /\ byUid' = [byUid EXCEPT ![s] = @ \cup {u}]
        /\ nickTs' = [nickTs EXCEPT ![s][u] = stamp]
        /\ chan' = Sent(s, FloodAll(UidLine(u, nick[s][u], stamp)))
        /\ UNCHANGED <<alive, users, nick, servers, lc, faults, moves>>

\* A service link introduces a bot: registered from the start.
ServiceNick(u, n, t) ==
    LET s == Home[u]
    IN  /\ u \in Service /\ alive[u] = "new" /\ Holders(s, n) = {}
        /\ alive' = [alive EXCEPT ![u] = "open"]
        /\ users' = [users EXCEPT ![s] = @ \cup {u}]
        /\ byUid' = [byUid EXCEPT ![s] = @ \cup {u}]
        /\ nick' = [nick EXCEPT ![s][u] = n]
        /\ nickTs' = [nickTs EXCEPT ![s][u] = t]
        /\ chan' = Sent(s, FloodAll(UidLine(u, n, t)))
        /\ UNCHANGED <<servers, lc, faults, moves>>

\* A registered local user is re-keyed and announced; a change of letter case
\* only (n is the nick it has) is announced the same way, with a new timestamp.
Rename(u, n, t) ==
    LET s == Home[u]
    IN  /\ u \notin Service /\ Registered(u) /\ NickFree(u, n)
        /\ moves < MaxMoves /\ moves' = moves + 1
        /\ users' = [users EXCEPT ![s] = @ \cup {u}]
        /\ nick' = [nick EXCEPT ![s][u] = n]
        /\ nickTs' = [nickTs EXCEPT ![s][u] = t]
        /\ chan' = Sent(s, FloodAll(NickLine(u, n, t)))
        /\ UNCHANGED <<alive, byUid, servers, lc, faults>>

\* NICK by the user itself (cmd_nick): a quitting connection is not read.
NickRegistered(u, n, t) == alive[u] = "open" /\ Rename(u, n, t)

\* SVSNICK (svc_command, force_nick_change) finds its target by UID, quitting or
\* not.  force_nick_change deletes the target from the hash without looking, so
\* it is only defined for a user the hash holds; see the README.
SvsNick(u, n, t) == u \in users[Home[u]] /\ Rename(u, n, t)

\* QUIT, a read or write error, a timeout, KILL by a local oper or by services
\* (client_mark_quit); the connection is torn down at the end of the loop pass.
MarkQuit(u) ==
    /\ u \notin Service /\ alive[u] = "open"
    /\ alive' = [alive EXCEPT ![u] = "quitting"]
    /\ UNCHANGED <<users, byUid, nick, nickTs, servers, lc, chan, faults, moves>>

\* server_remove_client for a local user: its QUIT floods if it had a UID.
RemoveLocal(u) ==
    LET s == Home[u]
    IN  /\ alive' = [alive EXCEPT ![u] = "gone"]
        /\ users' = [users EXCEPT ![s] = @ \ {u}]
        /\ byUid' = [byUid EXCEPT ![s] = @ \ {u}]
        /\ nick' = [nick EXCEPT ![s][u] = NoNick]
        /\ nickTs' = [nickTs EXCEPT ![s][u] = 0]
        /\ chan' = IF Registered(u) THEN Sent(s, FloodAll(QuitLine(u))) ELSE chan
        /\ UNCHANGED <<servers, lc, faults, moves>>

\* Mutant: a teardown that finds its connection through the nick hash.
TeardownByNick(u) ==
    u \notin Service /\ alive[u] = "quitting" /\ u \in users[Home[u]] /\ RemoveLocal(u)

\* net.c's deferred teardown.  A service has no socket: client_mark_quit never
\* queues it (fd < 0), and the tick's safety net skips it for the same reason.
Teardown(u) == u \notin Service /\ alive[u] = "quitting" /\ RemoveLocal(u)

\* The service link closed: link_reap removes its bots.
ServiceGone(u) == u \in Service /\ alive[u] \in {"open", "quitting"} /\ RemoveLocal(u)

\* KILL by an oper of s on someone else's user: routed toward its server.
OperKill(s, u) ==
    /\ u \in users[s] /\ Remote(s, u) /\ u \notin Service
    /\ moves < MaxMoves /\ moves' = moves + 1
    /\ chan' = Sent(s, RouteTo(Route[s][Home[u]], KillLine(u)))
    /\ UNCHANGED <<alive, users, byUid, nick, nickTs, servers, lc, faults>>

(***************************************************************************)
(* Links.                                                                  *)
(***************************************************************************)
\* A hash table is walked in no particular order.
Orders(S) == {q \in [1..Cardinality(S) -> S] : \A i, j \in 1..Cardinality(S) : i # j => q[i] # q[j]}

\* Mutant: a burst that does not skip connections that are still registering, and one that
\* carries this server's own users only.
BurstEveryone(s, p) == {u \in users[s] : ~IsBehind(s, Home[u], p)}
BurstLocal(s, p) == {u \in users[s] : u \in byUid[s] /\ ~Remote(s, u)}

\* send_burst: every server that is not on p's side, parents before children,
\* then every user of the nick hash that has a UID.
BurstServers(s, p) == {t \in servers[s] : t # s /\ ~IsBehind(s, t, p)}
BurstUsers(s, p) == {u \in users[s] : u \in byUid[s] /\ ~IsBehind(s, Home[u], p)}
ServerOrders(s, p) ==
    {q \in Orders(BurstServers(s, p)) :
        \A i, j \in DOMAIN q : i < j => ~IsBehind(s, q[i], q[j])}
Burst(s, qs, qu) ==
    [i \in 1..Len(qs) |-> ServerLine(qs[i])]
        \o [i \in 1..Len(qu) |-> UidLine(qu[i], nick[s][qu[i]], nickTs[s][qu[i]])]

\* dial_peer blocks its server until the peer has answered, so the two halves of
\* the handshake are one step: each end registers the other (netsync_link_up),
\* bursts to it and announces it to the rest of its side.
LinkUp(a, b) ==
    /\ <<a, b>> \in Link /\ lc[a][b] = "down" /\ lc[b][a] = "down"
    /\ b \notin servers[a] /\ a \notin servers[b]
    /\ lc' = [lc EXCEPT ![a][b] = "up", ![b][a] = "up"]
    /\ servers' = [servers EXCEPT ![a] = @ \cup {b}, ![b] = @ \cup {a}]
    /\ \E qa \in ServerOrders(a, b), ua \in Orders(BurstUsers(a, b)),
          qb \in ServerOrders(b, a), ub \in Orders(BurstUsers(b, a)) :
        chan' = [l \in Link |->
                    CASE l = <<a, b>> -> Burst(a, qa, ua)
                      [] l = <<b, a>> -> Burst(b, qb, ub)
                      [] OTHER ->
                           IF l[1] = a /\ CanSend(a, l[2]) THEN Append(chan[l], ServerLine(b))
                           ELSE IF l[1] = b /\ CanSend(b, l[2]) THEN Append(chan[l], ServerLine(a))
                           ELSE chan[l]]
    /\ UNCHANGED <<alive, users, byUid, nick, nickTs, faults, moves>>

\* A link is closed from outside the protocol: ping timeout, I/O error, SendQ
\* overflow, SQUIT or RSQUIT by an oper (link_close).
CloseLink(s, p) ==
    /\ <<s, p>> \in Link /\ lc[s][p] = "up" /\ faults < MaxFaults
    /\ lc' = [lc EXCEPT ![s][p] = "closing"]
    /\ faults' = faults + 1
    /\ UNCHANGED <<alive, users, byUid, nick, nickTs, servers, chan, moves>>

\* s has read everything a peer that closed the connection sent it (EOF).
ReadEof(s, p) ==
    /\ <<s, p>> \in Link /\ lc[s][p] = "up"
    /\ lc[p][s] = "down" /\ chan[<<p, s>>] = << >>
    /\ lc' = [lc EXCEPT ![s][p] = "closing"]
    /\ UNCHANGED <<alive, users, byUid, nick, nickTs, servers, chan, faults, moves>>

\* link_reap: netsync_link_down removes the servers and users behind the link
\* and floods the SQUIT; the socket is closed, what the peer sent is lost.
Reap(s, p) ==
    /\ <<s, p>> \in Link /\ lc[s][p] = "closing"
    /\ lc' = [lc EXCEPT ![s][p] = "down"]
    /\ RemoveServerTree(s, p)
    /\ chan' = [Sent(s, Flood(p, SquitLine(p))) EXCEPT ![<<p, s>>] = << >>]
    /\ UNCHANGED <<faults, moves>>

(***************************************************************************)
(* Handlers of the lines a server link delivers (netsync_handle).  The     *)
(* lines that were in the same read as the one that closed the link are    *)
(* still handled.                                                          *)
(***************************************************************************)
Reading(s, p, type) ==
    /\ <<p, s>> \in Link /\ lc[s][p] \in {"up", "closing"}
    /\ chan[<<p, s>>] # << >> /\ Head(chan[<<p, s>>]).type = type

Ignore(s, p) ==
    /\ chan' = SentOnRead(s, p, Nothing)
    /\ UNCHANGED <<alive, users, byUid, nick, nickTs, servers, lc, faults, moves>>

\* A remote client object goes with a KILL to everyone, a local one is evicted:
\* its own QUIT will follow.
KillOf(s, old) == IF Remote(s, old) THEN FloodAll(KillLine(old)) ELSE Nothing

NewcomerWins(s, t, old) == t < nickTs[s][old]
Tie(s, t, old) == t = nickTs[s][old]

\* handle_uid with resolve_collision.
HandleUid(s, p) ==
    LET m == Head(chan[<<p, s>>])
        u == m.user
        Holds == Holders(s, m.nick)
        forward == Flood(p, UidLine(u, m.nick, m.ts))
        killBack == RouteTo(p, KillLine(u))
    IN  /\ Reading(s, p, "UID")
        /\ \/ /\ ~SrcServer(s, p, Home[u]) \/ u \in byUid[s]
              /\ Ignore(s, p)
           \/ /\ SrcServer(s, p, Home[u]) /\ u \notin byUid[s]
              /\ \/ /\ Holds = {}
                    /\ Settle(s, {}, {u}, m.nick, m.ts)
                    /\ chan' = SentOnRead(s, p, forward)
                 \/ \E old \in Holds :
                    /\ NewcomerWins(s, m.ts, old)
                    /\ Settle(s, {old}, {u}, m.nick, m.ts)
                    /\ chan' = SentOnRead(s, p, Then(KillOf(s, old), forward))
                 \/ \E old \in Holds :
                    /\ Tie(s, m.ts, old)
                    /\ Settle(s, {old}, {}, NoNick, 0)
                    /\ chan' = SentOnRead(s, p, Then(killBack, KillOf(s, old)))
                 \/ \E old \in Holds :
                    /\ ~NewcomerWins(s, m.ts, old) /\ ~Tie(s, m.ts, old)
                    /\ Settle(s, {}, {}, NoNick, 0)
                    /\ chan' = SentOnRead(s, p, killBack)
              /\ UNCHANGED <<servers, lc, faults, moves>>

\* handle_nick: the holder of the nick loses only if the renamer is older.
HandleNick(s, p) ==
    LET m == Head(chan[<<p, s>>])
        u == m.user
        Clash == Holders(s, m.nick) \ {u}
        forward == Flood(p, NickLine(u, m.nick, m.ts))
    IN  /\ Reading(s, p, "NICK")
        /\ \/ ~SrcUser(s, p, u) /\ Ignore(s, p)
           \/ /\ SrcUser(s, p, u)
              /\ \/ /\ Clash = {}
                    /\ Settle(s, {}, {u}, m.nick, m.ts)
                    /\ chan' = SentOnRead(s, p, forward)
                 \/ \E old \in Clash :
                    /\ NewcomerWins(s, m.ts, old)
                    /\ Settle(s, {old}, {u}, m.nick, m.ts)
                    /\ chan' = SentOnRead(s, p, Then(KillOf(s, old), forward))
                 \/ \E old \in Clash :
                    /\ ~NewcomerWins(s, m.ts, old)
                    /\ Settle(s, {u}, {}, NoNick, 0)
                    /\ chan' = SentOnRead(s, p, FloodAll(KillLine(u)))
              /\ UNCHANGED <<servers, lc, faults, moves>>

HandleQuit(s, p) ==
    LET u == Head(chan[<<p, s>>]).user
    IN  /\ Reading(s, p, "QUIT")
        /\ \/ ~SrcUser(s, p, u) /\ Ignore(s, p)
           \/ /\ SrcUser(s, p, u)
              /\ Settle(s, {u}, {}, NoNick, 0)
              /\ chan' = SentOnRead(s, p, Flood(p, QuitLine(u)))
              /\ UNCHANGED <<servers, lc, faults, moves>>

\* handle_kill: our own user is marked quitting (a service too, though nothing
\* will tear it down); anyone else's is only passed on toward its server.
HandleKill(s, p) ==
    LET u == Head(chan[<<p, s>>]).user
    IN  /\ Reading(s, p, "KILL")
        /\ \/ u \notin byUid[s] /\ Ignore(s, p)
           \/ /\ u \in byUid[s] /\ ~Remote(s, u)
              /\ alive' = [alive EXCEPT ![u] = "quitting"]
              /\ chan' = SentOnRead(s, p, Nothing)
              /\ UNCHANGED <<users, byUid, nick, nickTs, servers, lc, faults, moves>>
           \/ /\ u \in byUid[s] /\ Remote(s, u)
              /\ chan' = SentOnRead(s, p, RouteTo(Route[s][Home[u]], KillLine(u)))
              /\ UNCHANGED <<alive, users, byUid, nick, nickTs, servers, lc, faults, moves>>

\* handle_server: the introducing server is the neighbour of t toward s.  A SID
\* that is already known closes the link.
HandleServer(s, p) ==
    LET t == Head(chan[<<p, s>>]).sid
        known == t \in servers[s]
    IN  /\ Reading(s, p, "SERVER")
        /\ \/ ~SrcServer(s, p, Route[t][s]) /\ Ignore(s, p)
           \/ /\ SrcServer(s, p, Route[t][s])
              /\ servers' = [servers EXCEPT ![s] = @ \cup {t}]
              /\ lc' = IF known THEN [lc EXCEPT ![s][p] = "closing"] ELSE lc
              /\ chan' = SentOnRead(s, p, IF known THEN Nothing ELSE Flood(p, ServerLine(t)))
              /\ UNCHANGED <<alive, users, byUid, nick, nickTs, faults, moves>>

\* handle_squit: only a server behind this link; the peer itself closes it.
HandleSquit(s, p) ==
    LET t == Head(chan[<<p, s>>]).sid
    IN  /\ Reading(s, p, "SQUIT")
        /\ \/ ~SrcServer(s, p, t) /\ Ignore(s, p)
           \/ /\ SrcServer(s, p, t)
              /\ IF t = p
                 THEN /\ lc' = [lc EXCEPT ![s][p] = "closing"]
                      /\ chan' = SentOnRead(s, p, Nothing)
                      /\ UNCHANGED <<alive, users, byUid, nick, nickTs, servers>>
                 ELSE /\ RemoveServerTree(s, t)
                      /\ chan' = SentOnRead(s, p, Flood(p, SquitLine(t)))
                      /\ UNCHANGED lc
              /\ UNCHANGED <<faults, moves>>

Receive(s, p) ==
    \/ HandleUid(s, p)
    \/ HandleNick(s, p)
    \/ HandleQuit(s, p)
    \/ HandleKill(s, p)
    \/ HandleServer(s, p)
    \/ HandleSquit(s, p)

ClientStep ==
    \E u \in User :
        \/ \E n \in Nick : NickUnregistered(u, n)
        \/ \E t \in Time : Register(u, t)
        \/ \E n \in Nick, t \in Time : ServiceNick(u, n, t)
        \/ \E n \in Nick, t \in Time : NickRegistered(u, n, t)
        \/ \E n \in Nick, t \in Time : SvsNick(u, n, t)
        \/ MarkQuit(u)
        \/ Teardown(u)
        \/ ServiceGone(u)

Next ==
    \/ ClientStep
    \/ \E s \in Server, u \in User : OperKill(s, u)
    \/ \E s, p \in Server :
        \/ LinkUp(s, p)
        \/ CloseLink(s, p)
        \/ ReadEof(s, p)
        \/ Reap(s, p)
        \/ Receive(s, p)

Spec == Init /\ [][Next]_vars

\* What the poll loop does on every pass whatever else happens: it reads each link
\* that has lines or an end of file for it, reaps the closed ones and tears down
\* the connections on the dead list.  Nothing makes a client or an oper act, or a
\* link come up or fail.
Fairness ==
    /\ \A u \in User : WF_vars(Teardown(u))
    /\ \A s, p \in Server : WF_vars(Receive(s, p)) /\ WF_vars(ReadEof(s, p)) /\ WF_vars(Reap(s, p))

FairSpec == Spec /\ Fairness

(***************************************************************************)
(* What the code has to keep.                                              *)
(***************************************************************************)
TypeOK ==
    /\ alive \in [User -> {"new", "open", "quitting", "gone"}]
    /\ users \in [Server -> SUBSET User]
    /\ byUid \in [Server -> SUBSET User]
    /\ nick \in [Server -> [User -> Nick \cup {NoNick}]]
    /\ nickTs \in [Server -> [User -> 0..MaxTS]]
    /\ servers \in [Server -> SUBSET Server]
    /\ lc \in [Server -> [Server -> {"down", "up", "closing"}]]
    /\ chan \in [Link -> Seq(Msg)]
    /\ faults \in 0..MaxFaults
    /\ moves \in 0..MaxMoves

\* No two entries of a server's nick hash share a key, whatever order UID, NICK,
\* local NICK and evictions come in: server_add_user itself never checks.
NickUnique ==
    \A s \in Server : \A u, v \in users[s] : nick[s][u] = nick[s][v] => u = v

\* A remote user in the UID index is in the nick hash and its server is in the
\* server table: remove_server_tree finds users through the nick hash only, so
\* one that is missing there would outlive the netserver_t it points to.
RemoteAnchored ==
    \A s \in Server : \A u \in byUid[s] :
        Remote(s, u) => u \in users[s] /\ Home[u] \in servers[s]

\* Every server of the table hangs off a server of the table, through a link that
\* has not been reaped: no uplink or route pointer dangles after a split.
ServerAnchored ==
    \A s \in Server : \A t \in servers[s] \ {s} :
        /\ Route[t][s] \in servers[s]
        /\ lc[s][Route[s][t]] \in {"up", "closing"}

\* Both hold: a netsplit leaves nothing behind that points to what it freed, neither a
\* user nor a server (remove_server_tree).
Anchored == RemoteAnchored /\ ServerAnchored

\* An open local connection that has taken a nick holds it in the hash: cmd_nick's
\* unchecked HASH_DEL never deletes an entry that a collision already evicted.
OpenHoldsNick ==
    \A u \in User : alive[u] = "open" =>
        u \in users[Home[u]] /\ nick[Home[u]][u] \in Nick

\* What makes the four facts above inductive: the nick hash files registered
\* users and connecting locals only, always under a nick; a UID is never announced
\* without a timestamp; a server knows itself; a closed connection is in no table.
Support ==
    \A s \in Server :
        /\ s \in servers[s]
        /\ \A u \in users[s] : nick[s][u] \in Nick /\ (Remote(s, u) => u \in byUid[s])
        /\ \A u \in byUid[s] : nickTs[s][u] \in Time
        /\ \A u \in users[s] \cup byUid[s] :
               ~Remote(s, u) => alive[u] \in {"open", "quitting"}

IInv ==
    /\ TypeOK
    /\ NickUnique
    /\ RemoteAnchored
    /\ ServerAnchored
    /\ OpenHoldsNick
    /\ Support

\* All links are up, every line has been handled and every teardown has run.
Quiet ==
    /\ \A l \in Link : lc[l[1]][l[2]] = "up" /\ chan[l] = << >>
    /\ \A u \in User : alive[u] # "quitting"

\* The user is on the network as its own server sees it.
OnNetwork(u) == u \in users[Home[u]] /\ Registered(u)

\* Once the network is quiet, every user that is on the network is known to every
\* server, with the nick and timestamp its own server has for it.
LiveKnown ==
    Quiet => \A u \in User : OnNetwork(u) => \A s \in Server :
        /\ u \in byUid[s]
        /\ nick[s][u] = nick[Home[u]][u] /\ nickTs[s][u] = nickTs[Home[u]][u]

\* Once the network is quiet every server knows exactly the users that are on the
\* network, with the nick and timestamp their own server has for them.
Converged ==
    Quiet => \A u \in User : \A s \in Server \ {Home[u]} :
        /\ u \in byUid[s] <=> OnNetwork(u)
        /\ u \in byUid[s] => /\ nick[s][u] = nick[Home[u]][u]
                             /\ nickTs[s][u] = nickTs[Home[u]][u]

\* A user that is killed, evicted or leaves is forgotten by every server in the
\* end: its QUIT reaches everyone, or the link that lost it takes the user along.
LeavesEverywhere ==
    \A u \in User : alive[u] = "quitting" ~> \A s \in Server : u \notin byUid[s]

\* netsync.h: "A nick collision is settled by nick timestamp (older wins, a tie
\* kills both)": a newcomer is refused only for a holder that took the nick no
\* later than it did.
OlderWins ==
    [][\A s, p \in Server : HandleUid(s, p) =>
          LET m == Head(chan[<<p, s>>])
          IN  \/ m.user \in byUid'[s]
              \/ ~SrcServer(s, p, Home[m.user])
              \/ \E v \in Holders(s, m.nick) : nickTs[s][v] \in Time /\ nickTs[s][v] <= m.ts]_vars
=============================================================================
