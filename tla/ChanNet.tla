------------------------------- MODULE ChanNet -------------------------------
(***************************************************************************)
(* One channel on a tree of linked sekurircd servers (the channel half of  *)
(* netsync.c, with the local halves in cmd_chan.c, server.c, channel.c).   *)
(*                                                                         *)
(* Every server keeps its own copy of the channel: creation time, flags,   *)
(* key, ban list, topic and members with their ranks.  Local users change  *)
(* the copy of their own server, and the change floods the tree.  When two *)
(* servers link, each bursts its copy to the other (SJOIN, BMASK, TB), and *)
(* creation times decide what survives.  Lines other than a burst carry no *)
(* timestamp, JOIN excepted, which carries one that nobody compares.       *)
(*                                                                         *)
(* A rank is one bit, op (ChanMode has all five); the flags are the two    *)
(* that the code tests here, +t and +P.  The user table is reduced to who  *)
(* is known where; NickNet has the rest.  Consecutive UID lines of a burst *)
(* are one message, and so are the lines a long SJOIN or BMASK is cut      *)
(* into.  The clocks of the servers agree.                                 *)
(***************************************************************************)
EXTENDS Naturals, Sequences, FiniteSets

CONSTANTS
    Server,      \* the servers, by SID
    User,        \* the users, by UID
    Home,        \* Home[u]: the server u is connected to
    Route,       \* Route[s][t]: the neighbour of s on the way to t
    DefaultModes,\* [channels] default_modes: the flags of a channel made by JOIN
    Key,         \* channel keys
    NoKey,       \* an empty key
    Topic,       \* topics, in strcmp order; 0 is the empty one
    Plays,       \* the workloads of this instance (see play)
    MaxTS        \* bound: the clock runs from 1 to MaxTS

Time == 1..MaxTS
Flag == {"t", "P"}
Link == {l \in Server \X Server : l[1] # l[2] /\ Route[l[1]][l[2]] = l[2]}

ASSUME UserFinite == IsFiniteSet(User)
ASSUME ServerFinite == IsFiniteSet(Server)
ASSUME HomeType == Home \in [User -> Server]
ASSUME RouteType == Route \in [Server -> [Server -> Server]]
ASSUME RouteAdjacent == \A s, t \in Server : s # t => <<s, Route[s][t]>> \in Link
ASSUME LinkSymmetric == \A s, t \in Server : <<s, t>> \in Link => <<t, s>> \in Link
ASSUME RouteForward ==
    \A s, t \in Server : s # t /\ Route[s][t] # t => Route[Route[s][t]][t] # s
ASSUME RouteShared ==
    \A r, s, t \in Server : <<s, t>> \in Link /\ r # s /\ r # t => Route[r][s] = Route[r][t]
ASSUME ModesType == DefaultModes \subseteq Flag /\ NoKey \notin Key /\ Topic \subseteq Nat
ASSUME BoundType == MaxTS \in Nat \ {0}
ASSUME PlaysType ==
    \A p \in Plays : /\ p.servers \subseteq Server /\ p.users \subseteq User /\ p.opers \subseteq p.users /\ p.crossing \subseteq p.ops /\ p.topics \subseteq Topic
                    /\ p.moves \in Nat /\ p.faults \in Nat /\ p.refused \in Nat

VARIABLES
    play,       \* the servers that link, the users there are and the IRC operators among them (opers); what
                \* the users do (ops), which of it while lines are in flight (crossing), and the topics they
                \* set; and bounds: how many things they do, links that fail, and UIDs that lose a nick collision
    known,      \* known[s]: the users in the UID index of s
    channel,    \* channel[s]: s's copy, or NoChannel
    members,    \* members[s]: its members
    chanops,    \* chanops[s]: those with the op rank
    lc,         \* lc[s][t]: s's end of the link with t: "down", "up" or "closing"
    wire,       \* wire[<<s, t>>]: the lines sent by s that t has not read yet
    now,        \* time(NULL)
    spent       \* how much of each bound is used up

chanVars == <<channel, members, chanops>>
vars == <<play, known, channel, members, chanops, lc, wire, now, spent>>

Copy ==
    [created : 0..MaxTS, flags : SUBSET Flag, key : Key \cup {NoKey},
     bans : SUBSET User, topic : Topic \cup {0}, topicTime : 0..MaxTS]

\* A server without the channel.  A ban mask stands for the user it matches.
NoChannel ==
    [created |-> 0, flags |-> {}, key |-> NoKey, bans |-> {}, topic |-> 0, topicTime |-> 0]

Exists(s) == channel[s].created # 0

(***************************************************************************)
(* Lines.                                                                  *)
(***************************************************************************)
Change == [mode : Flag \cup {"k", "b", "o"}, on : BOOLEAN, arg : Key \cup {NoKey} \cup User]

Msg == [type : {"UID"}, users : SUBSET User]
         \cup [type : {"QUIT", "KILL", "PART"}, user : User]
         \cup [type : {"SQUIT"}, sid : Server]
         \cup [type : {"SJOIN"}, ts : Time, flags : SUBSET Flag, key : Key \cup {NoKey},
               members : SUBSET User, ops : SUBSET User]
         \cup [type : {"BMASK"}, ts : Time, masks : SUBSET User]
         \cup [type : {"TB"}, ts : Time, topic : Topic]
         \cup [type : {"JOIN"}, user : User, ts : Time]
         \cup [type : {"KICK"}, user : User, target : User]
         \cup [type : {"TOPIC"}, user : User, topic : Topic]
         \cup [type : {"MODE"}, user : User, change : Change]

UidLine(us) == [type |-> "UID", users |-> us]
QuitLine(u) == [type |-> "QUIT", user |-> u]
KillLine(u) == [type |-> "KILL", user |-> u]
SquitLine(t) == [type |-> "SQUIT", sid |-> t]
PartLine(u) == [type |-> "PART", user |-> u]
JoinLine(u, ts) == [type |-> "JOIN", user |-> u, ts |-> ts]
KickLine(k, u) == [type |-> "KICK", user |-> k, target |-> u]
TopicLine(u, t) == [type |-> "TOPIC", user |-> u, topic |-> t]
ModeLine(u, x) == [type |-> "MODE", user |-> u, change |-> x]
SjoinLine(c, ms, os) ==
    [type |-> "SJOIN", ts |-> c.created, flags |-> c.flags, key |-> c.key,
     members |-> ms, ops |-> os]
BmaskLine(c) == [type |-> "BMASK", ts |-> c.created, masks |-> c.bans]
TbLine(c) == [type |-> "TB", ts |-> c.topicTime, topic |-> c.topic]

Nothing == [p \in Server |-> << >>]
RouteTo(p, q) == [Nothing EXCEPT ![p] = q]
FloodAll(q) == [p \in Server |-> q]
Flood(except, q) == [FloodAll(q) EXCEPT ![except] = << >>]
Then(o1, o2) == [p \in Server |-> o1[p] \o o2[p]]

\* send_link: only a server link that is not closing takes a line; what is written
\* to a connection the peer has already closed is lost.
CanSend(s, p) == lc[s][p] = "up" /\ lc[p][s] # "down"

Sent(s, out) ==
    [l \in Link |-> IF l[1] = s /\ CanSend(s, l[2]) THEN wire[l] \o out[l[2]] ELSE wire[l]]
SentOnRead(s, p, out) == [Sent(s, out) EXCEPT ![<<p, s>>] = Tail(@)]

Remote(s, u) == Home[u] # s
IsBehind(s, t, r) == t = r \/ (r # s /\ Route[r][s] # Route[r][t])

\* src_user.  src_server is not tested: a line's source server is in the table,
\* because its SERVER line came first on the same link (see NickNet).
SrcUser(s, p, u) == u \in known[s] /\ Remote(s, u) /\ IsBehind(s, Home[u], p)

(***************************************************************************)
(* Updates of one server's copy.                                           *)
(***************************************************************************)
\* Mutant: the copy stays when its last member leaves.
NeverDropped(c, ms) == c

\* server_maybe_drop_channel: an empty channel goes, unless it is +P.
Dropped(c, ms) == IF ms = {} /\ "P" \notin c.flags THEN NoChannel ELSE c

\* The users of `gone` leave s's copy, one after the other.
Leave(s, gone) ==
    LET rest == members[s] \ gone
    IN  /\ members' = [members EXCEPT ![s] = rest]
        /\ chanops' = [chanops EXCEPT ![s] = @ \ gone]
        /\ channel' = [channel EXCEPT ![s] = IF rest = members[s] THEN @ ELSE Dropped(@, rest)]

\* One mode letter, as both cmd_apply_channel_mode and handle_mode apply it.
Toggled(set, x, e) == IF x.on THEN set \cup {e} ELSE set \ {e}
ModeApplied(c, x) ==
    [c EXCEPT !.flags = IF x.mode \in Flag THEN Toggled(@, x, x.mode) ELSE @,
              !.key = IF x.mode = "k" THEN x.arg ELSE @,
              !.bans = IF x.mode = "b" THEN Toggled(@, x, x.arg) ELSE @]
OpsApplied(ms, os, x) == IF x.mode = "o" /\ x.arg \in ms THEN Toggled(os, x, x.arg) ELSE os

ApplyMode(s, x) ==
    /\ channel' = [channel EXCEPT ![s] = ModeApplied(@, x)]
    /\ chanops' = [chanops EXCEPT ![s] = OpsApplied(members[s], @, x)]
    /\ UNCHANGED members

Init ==
    /\ play \in Plays
    /\ known = [s \in Server |-> {u \in play.users : Home[u] = s}]
    /\ channel = [s \in Server |-> NoChannel]
    /\ members = [s \in Server |-> {}]
    /\ chanops = [s \in Server |-> {}]
    /\ lc = [s \in Server |-> [t \in Server |-> "down"]]
    /\ wire = [l \in Link |-> << >>]
    /\ now = 1
    /\ spent = [moves |-> 0, faults |-> 0, refused |-> 0]

(***************************************************************************)
(* What local users do.                                                    *)
(***************************************************************************)
Calm == \A l \in Link : wire[l] = << >>

\* A KICK is crossed by nothing unless it may cross others itself.
KickUnderWay == \E l \in Link : \E i \in DOMAIN wire[l] : wire[l][i].type = "KICK"
MayCross(op) == op \in play.crossing /\ (KickUnderWay => "kick" \in play.crossing)

\* u, connected to s, does one more thing of kind op.
Does(s, u, op) ==
    /\ op \in play.ops /\ Home[u] = s /\ u \in known[s]
    /\ spent.moves < play.moves /\ (Calm \/ MayCross(op))
    /\ spent' = [spent EXCEPT !.moves = @ + 1]
    /\ UNCHANGED <<lc, now>>

\* JOIN of a channel the server does not have (do_join_one, netsync_chan_join):
\* the creator is op, and the whole copy is announced with its timestamp.
Create(s, u) ==
    LET new == [NoChannel EXCEPT !.created = now, !.flags = DefaultModes]
    IN  /\ Does(s, u, "join") /\ ~Exists(s)
        /\ channel' = [channel EXCEPT ![s] = new]
        /\ members' = [members EXCEPT ![s] = {u}]
        /\ chanops' = [chanops EXCEPT ![s] = {u}]
        /\ wire' = Sent(s, FloodAll(<<SjoinLine(new, {u}, {u})>>))
        /\ UNCHANGED known

\* JOIN of one it has.  A ban keeps out who is no IRC operator; anyone may know the key.
Join(s, u) ==
    /\ Does(s, u, "join") /\ Exists(s)
    /\ u \notin members[s] /\ (u \in channel[s].bans => u \in play.opers)
    /\ members' = [members EXCEPT ![s] = @ \cup {u}]
    /\ wire' = Sent(s, FloodAll(<<JoinLine(u, channel[s].created)>>))
    /\ UNCHANGED <<known, channel, chanops>>

\* cmd_part
Part(s, u) ==
    /\ Does(s, u, "part") /\ u \in members[s]
    /\ Leave(s, {u})
    /\ wire' = Sent(s, FloodAll(<<PartLine(u)>>))
    /\ UNCHANGED known

\* cmd_kick, by a member who is op, as his own server sees it, or IRC operator.
Kick(s, k, u) ==
    /\ Does(s, k, "kick") /\ {k, u} \subseteq members[s] /\ k \in chanops[s] \cup play.opers
    /\ Leave(s, {u})
    /\ wire' = Sent(s, FloodAll(<<KickLine(k, u)>>))
    /\ UNCHANGED known

\* cmd_apply_channel_mode skips what is so already, except for a key.
HasEffect(s, x) ==
    /\ x.mode \in Flag => x.on # (x.mode \in channel[s].flags) /\ x.arg = NoKey
    /\ x.mode = "k" => IF x.on THEN x.arg \in Key ELSE x.arg = NoKey /\ channel[s].key # NoKey
    /\ x.mode = "b" => x.arg \in User /\ x.on # (x.arg \in channel[s].bans)
    /\ x.mode = "o" => x.arg \in members[s] /\ x.on # (x.arg \in chanops[s])

\* MODE with one letter, by an op of the channel, or by an IRC operator or a services' bot, who
\* need not be in it (cmd_mode_channel, cmd_samode, link.c); only these set +P.  The channel is not
\* asked whether it is empty.
SetMode(s, k, mode) ==
    /\ Does(s, k, mode) /\ Exists(s) /\ k \in chanops[s] \cup play.opers
    /\ \E on \in BOOLEAN, arg \in Key \cup {NoKey} \cup play.users :
         LET x == [mode |-> mode, on |-> on, arg |-> arg]
         IN  /\ HasEffect(s, x) /\ (mode = "P" /\ on => k \in play.opers)
             /\ ApplyMode(s, x)
             /\ wire' = Sent(s, FloodAll(<<ModeLine(k, x)>>))
    /\ UNCHANGED known

\* cmd_topic
SetTopic(s, u, t) ==
    /\ Does(s, u, "topic") /\ u \in members[s]
    /\ "t" \in channel[s].flags => u \in chanops[s] \cup play.opers
    /\ channel' = [channel EXCEPT ![s] = [@ EXCEPT !.topic = t, !.topicTime = now]]
    /\ wire' = Sent(s, FloodAll(<<TopicLine(u, t)>>))
    /\ UNCHANGED <<known, members, chanops>>

\* server_remove_client of a local user: the QUIT goes out first.
RemoveLocal(s, u) ==
    /\ known' = [known EXCEPT ![s] = @ \ {u}]
    /\ Leave(s, {u})

Quit(s, u) ==
    /\ Does(s, u, "quit")
    /\ RemoveLocal(s, u)
    /\ wire' = Sent(s, FloodAll(<<QuitLine(u)>>))

UserStep ==
    \E u \in play.users : LET s == Home[u] IN
        \/ Create(s, u) \/ Join(s, u) \/ Part(s, u) \/ Quit(s, u)
        \/ \E v \in members[s] : Kick(s, u, v)
        \/ \E mode \in Flag \cup {"k", "b", "o"} : SetMode(s, u, mode)
        \/ \E t \in play.topics : SetTopic(s, u, t)

Tick == now < MaxTS /\ now' = now + 1 /\ UNCHANGED <<known, chanVars, lc, wire, spent>>

(***************************************************************************)
(* Links.                                                                  *)
(***************************************************************************)
\* Whoever is not on p's side.
Ours(s, p, us) == {u \in us : ~IsBehind(s, Home[u], p)}
Optional(wanted, line) == IF wanted THEN <<line>> ELSE << >>

\* Mutant: an empty topic is burst as well.
TopicAlways(c) == c.created # 0

\* Only a topic that is set is burst.
TopicSet(c) == c.topic # 0

\* send_burst: our users, then the channel with our members, if there are any, then
\* its list and its topic.
BurstUsers(s, p) == LET us == Ours(s, p, known[s]) IN Optional(us # {}, UidLine(us))
BurstChannel(s, p) ==
    LET chan == channel[s]
        ms == Ours(s, p, members[s])
    IN  Optional(ms # {}, SjoinLine(chan, ms, chanops[s] \cap ms))
          \o Optional(ms # {} /\ chan.bans # {}, BmaskLine(chan))
          \o Optional(ms # {} /\ TopicSet(chan), TbLine(chan))

Burst(s, p) == BurstUsers(s, p) \o BurstChannel(s, p)

\* Both halves of a handshake (see NickNet).
LinkUp(a, b) ==
    /\ <<a, b>> \in Link /\ {a, b} \subseteq play.servers
    /\ lc[a][b] = "down" /\ lc[b][a] = "down"
    /\ lc' = [lc EXCEPT ![a][b] = "up", ![b][a] = "up"]
    /\ wire' = [wire EXCEPT ![<<a, b>>] = Burst(a, b), ![<<b, a>>] = Burst(b, a)]
    /\ UNCHANGED <<known, chanVars, now, spent>>

CloseLink(s, p) ==
    /\ <<s, p>> \in Link /\ lc[s][p] = "up" /\ spent.faults < play.faults
    /\ lc' = [lc EXCEPT ![s][p] = "closing"]
    /\ spent' = [spent EXCEPT !.faults = @ + 1]
    /\ UNCHANGED <<known, chanVars, wire, now>>

ReadEof(s, p) ==
    /\ <<s, p>> \in Link /\ lc[s][p] = "up"
    /\ lc[p][s] = "down" /\ wire[<<p, s>>] = << >>
    /\ lc' = [lc EXCEPT ![s][p] = "closing"]
    /\ UNCHANGED <<known, chanVars, wire, now, spent>>

UsersBehind(s, r) == {u \in known[s] : Remote(s, u) /\ IsBehind(s, Home[u], r)}

\* Mutant: the users are freed and stay in the member list.
ForgetServerTree(s, r) ==
    /\ known' = [known EXCEPT ![s] = @ \ UsersBehind(s, r)]
    /\ UNCHANGED chanVars

\* remove_server_tree: the users behind r go, and leave the channel.
RemoveServerTree(s, r) ==
    /\ known' = [known EXCEPT ![s] = @ \ UsersBehind(s, r)]
    /\ Leave(s, UsersBehind(s, r))

\* link_reap with netsync_link_down.
Reap(s, p) ==
    /\ <<s, p>> \in Link /\ lc[s][p] = "closing"
    /\ lc' = [lc EXCEPT ![s][p] = "down"]
    /\ RemoveServerTree(s, p)
    /\ wire' = [Sent(s, Flood(p, <<SquitLine(p)>>)) EXCEPT ![<<p, s>>] = << >>]
    /\ UNCHANGED <<now, spent>>

(***************************************************************************)
(* Handlers of the lines a server link delivers (netsync_handle).          *)
(***************************************************************************)
Reading(s, p, type) ==
    /\ <<p, s>> \in Link /\ lc[s][p] \in {"up", "closing"}
    /\ wire[<<p, s>>] # << >> /\ Head(wire[<<p, s>>]).type = type
    /\ UNCHANGED <<lc, now>>

Swallow(s, p) == wire' = SentOnRead(s, p, Nothing)
PassOn(s, p) == wire' = SentOnRead(s, p, Flood(p, <<Head(wire[<<p, s>>])>>))

\* handle_uid; a user that loses a nick collision is not taken, and a KILL goes back.
HandleUid(s, p) ==
    LET new == Head(wire[<<p, s>>]).users \ known[s]
    IN  /\ Reading(s, p, "UID")
        /\ \E lost \in SUBSET new :
            /\ spent.refused + Cardinality(lost) <= play.refused
            /\ spent' = [spent EXCEPT !.refused = @ + Cardinality(lost)]
            /\ known' = [known EXCEPT ![s] = @ \cup (new \ lost)]
            /\ \E q \in [1..Cardinality(lost) -> lost] :
                /\ \A u \in lost : \E i \in DOMAIN q : q[i] = u
                /\ wire' = SentOnRead(s, p,
                       Then(RouteTo(p, [i \in DOMAIN q |-> KillLine(q[i])]),
                            Flood(p, Optional(new # lost, UidLine(new \ lost)))))
        /\ UNCHANGED chanVars

HandleQuit(s, p) ==
    LET u == Head(wire[<<p, s>>]).user
    IN  /\ Reading(s, p, "QUIT")
        /\ IF SrcUser(s, p, u)
           THEN RemoveLocal(s, u) /\ PassOn(s, p)
           ELSE UNCHANGED <<known, chanVars>> /\ Swallow(s, p)
        /\ UNCHANGED spent

\* handle_kill: our own user quits (mark and teardown in one, see NickNet), anyone
\* else's KILL goes on to its server.
HandleKill(s, p) ==
    LET u == Head(wire[<<p, s>>]).user
        towards == RouteTo(Route[s][Home[u]], <<KillLine(u)>>)
    IN  /\ Reading(s, p, "KILL")
        /\ IF u \in known[s] /\ ~Remote(s, u)
           THEN RemoveLocal(s, u) /\ wire' = SentOnRead(s, p, FloodAll(<<QuitLine(u)>>))
           ELSE /\ UNCHANGED <<known, chanVars>>
                /\ wire' = SentOnRead(s, p, IF u \in known[s] THEN towards ELSE Nothing)
        /\ UNCHANGED spent

HandleSquit(s, p) ==
    /\ Reading(s, p, "SQUIT")
    /\ RemoveServerTree(s, Head(wire[<<p, s>>]).sid)
    /\ PassOn(s, p)
    /\ UNCHANGED spent

\* How an SJOIN compares with the copy the server has.
Older(s, m) == ~Exists(s) \/ m.ts < channel[s].created
SameAge(s, m) == Exists(s) /\ m.ts = channel[s].created

\* Mutant: an older channel brings its modes, and ours stay; and one that is taken
\* over without its timestamp.
TakenOver(c, m) == [c EXCEPT !.created = m.ts, !.flags = @ \cup m.flags, !.key = m.key, !.bans = {}]
ReplacedUndated(c, m) ==
    [c EXCEPT !.created = IF @ = 0 THEN m.ts ELSE @, !.flags = m.flags, !.key = m.key, !.bans = {}]

\* set_state_modes with replace = 1, after reset_channel_for_ts: the topic stays.
Replaced(c, m) == [c EXCEPT !.created = m.ts, !.flags = m.flags, !.key = m.key, !.bans = {}]

\* Mutant: at equal age, ours stay.
OursStay(c, m) == c

\* set_state_modes with replace = 0.
Merged(c, m) ==
    [c EXCEPT !.flags = @ \cup m.flags, !.key = IF m.key = NoKey THEN @ ELSE m.key]

\* Mutant: a younger channel is ignored with everyone in it.
NewcomersOfOlder(s, m) ==
    IF Older(s, m) \/ SameAge(s, m) THEN {u \in m.members : u \in known[s] /\ Remote(s, u)} ELSE {}

\* The members an SJOIN adds: remote users we know that are not in the channel.
Newcomers(s, m) == {u \in m.members : u \in known[s] /\ Remote(s, u) /\ u \notin members[s]}

\* Mutant: the younger side keeps its ranks.
OldRanksStay(s, m) == chanops[s]

\* The ranks kept and brought in.
OldRanks(s, m) == IF Older(s, m) THEN {} ELSE chanops[s]
NewRanks(s, m) == IF Older(s, m) \/ SameAge(s, m) THEN m.ops \cap Newcomers(s, m) ELSE {}

HandleSjoin(s, p) ==
    LET m == Head(wire[<<p, s>>])
    IN  /\ Reading(s, p, "SJOIN")
        /\ channel' = [channel EXCEPT ![s] = IF Older(s, m) THEN Replaced(@, m)
                                             ELSE IF SameAge(s, m) THEN Merged(@, m) ELSE @]
        /\ members' = [members EXCEPT ![s] = @ \cup Newcomers(s, m)]
        /\ chanops' = [chanops EXCEPT ![s] = OldRanks(s, m) \cup NewRanks(s, m)]
        /\ PassOn(s, p)
        /\ UNCHANGED <<known, spent>>

\* Mutant: a ban list is merged whatever the timestamps say.
ListsAlwaysCount(s, m) == Exists(s)

\* handle_bmask: the lists of a channel as old as ours, or older, count.
ListsCount(s, m) == Exists(s) /\ m.ts <= channel[s].created

HandleBmask(s, p) ==
    LET m == Head(wire[<<p, s>>])
    IN  /\ Reading(s, p, "BMASK")
        /\ channel' = [channel EXCEPT ![s] = IF ListsCount(s, m) THEN [@ EXCEPT !.bans = channel[s].bans \cup m.masks] ELSE @]
        /\ PassOn(s, p)
        /\ UNCHANGED <<known, members, chanops, spent>>

\* Mutant: two topics of the same second are both kept.
TopicNewerOnly(c, m) == c.created # 0 /\ m.topic # c.topic /\ (c.topic = 0 \/ m.ts > c.topicTime)

\* handle_tb: the newer topic wins, the text decides within a second.
TopicWins(c, m) ==
    /\ c.created # 0 /\ m.topic # c.topic
    /\ \/ c.topic = 0
       \/ m.ts > c.topicTime
       \/ m.ts = c.topicTime /\ m.topic > c.topic

HandleTb(s, p) ==
    LET m == Head(wire[<<p, s>>])
    IN  /\ Reading(s, p, "TB")
        /\ channel' = [channel EXCEPT ![s] =
                IF TopicWins(@, m) THEN [@ EXCEPT !.topic = m.topic, !.topicTime = m.ts] ELSE @]
        /\ PassOn(s, p)
        /\ UNCHANGED <<known, members, chanops, spent>>

\* A line whose source is a user behind p; anything else is dropped unread.
FromUser(s, p, type) ==
    /\ Reading(s, p, type) /\ UNCHANGED <<known, spent>>
    /\ IF SrcUser(s, p, Head(wire[<<p, s>>]).user) THEN PassOn(s, p) ELSE Swallow(s, p)
Accepted(s, p) == SrcUser(s, p, Head(wire[<<p, s>>]).user)

\* handle_join: a channel we do not have is made, without modes.
HandleJoin(s, p) ==
    LET m == Head(wire[<<p, s>>])
    IN  /\ FromUser(s, p, "JOIN")
        /\ channel' = [channel EXCEPT ![s] =
                IF Accepted(s, p) /\ ~Exists(s) THEN [NoChannel EXCEPT !.created = m.ts] ELSE @]
        /\ members' = [members EXCEPT ![s] = @ \cup IF Accepted(s, p) THEN {m.user} ELSE {}]
        /\ UNCHANGED chanops

HandlePart(s, p) ==
    /\ FromUser(s, p, "PART")
    /\ Leave(s, IF Accepted(s, p) THEN {Head(wire[<<p, s>>]).user} ELSE {})

HandleKick(s, p) ==
    /\ FromUser(s, p, "KICK")
    /\ Leave(s, IF Accepted(s, p) THEN {Head(wire[<<p, s>>]).target} ELSE {})

\* handle_topic: the topic gets the time of this server.
HandleTopic(s, p) ==
    /\ FromUser(s, p, "TOPIC")
    /\ channel' = [channel EXCEPT ![s] =
            IF Accepted(s, p) /\ Exists(s)
            THEN [@ EXCEPT !.topic = Head(wire[<<p, s>>]).topic, !.topicTime = now] ELSE @]
    /\ UNCHANGED <<members, chanops>>

\* handle_mode: nothing is compared with anything.
HandleMode(s, p) ==
    /\ FromUser(s, p, "MODE")
    /\ IF Accepted(s, p) /\ Exists(s)
       THEN ApplyMode(s, Head(wire[<<p, s>>]).change)
       ELSE UNCHANGED chanVars

Receive(s, p) ==
    /\ <<p, s>> \in Link /\ wire[<<p, s>>] # << >>
    /\ \/ HandleUid(s, p) \/ HandleQuit(s, p) \/ HandleKill(s, p) \/ HandleSquit(s, p)
       \/ HandleSjoin(s, p) \/ HandleBmask(s, p) \/ HandleTb(s, p)
       \/ HandleJoin(s, p) \/ HandlePart(s, p) \/ HandleKick(s, p)
       \/ HandleTopic(s, p) \/ HandleMode(s, p)

Step ==
    \/ UserStep
    \/ Tick
    \/ \E s, p \in play.servers :
        LinkUp(s, p) \/ CloseLink(s, p) \/ ReadEof(s, p) \/ Reap(s, p) \/ Receive(s, p)

Next == Step /\ UNCHANGED play

Spec == Init /\ [][Next]_vars

(***************************************************************************)
(* What the code has to keep.                                              *)
(***************************************************************************)
TypeOK ==
    /\ play \in Plays
    /\ known \in [Server -> SUBSET User]
    /\ channel \in [Server -> Copy]
    /\ members \in [Server -> SUBSET User]
    /\ chanops \in [Server -> SUBSET User]
    /\ lc \in [Server -> [Server -> {"down", "up", "closing"}]]
    /\ wire \in [Link -> Seq(Msg)]
    /\ now \in Time
    /\ spent \in [moves : 0..play.moves, faults : 0..play.faults, refused : 0..play.refused]

\* A member entry points to a client the server still has, whatever QUITs, splits
\* and late JOINs or SJOINs come in: handle_sjoin and handle_join look the user up
\* each time, and server_remove_client takes it out of its channels.
MembersKnown == \A s \in Server : chanops[s] \subseteq members[s] /\ members[s] \subseteq known[s]

\* channel.h: only a +P channel "survives going empty".
Stranded(s) == Exists(s) /\ members[s] = {} /\ "P" \notin channel[s].flags
OnlyPermanentEmpty == \A s \in Server : ~Stranded(s)

\* Where somebody is, there is a channel: nothing that frees one forgets a member.
Occupied == \A s \in Server : members[s] # {} => Exists(s)

\* Every path that takes out a member (PART, KICK, QUIT, KILL, splits) drops the channel with the last,
\* and every path that makes a channel puts somebody in: one without +P is left empty only by a MODE
\* that takes the P off when it is empty already, or made so by an SJOIN of which a nick collision
\* has taken everybody it lists.
StrandedByMode ==
    [][\A s \in Server : ~Stranded(s) /\ Stranded(s)' => members[s] = {} /\ (Exists(s) \/ spent.refused # 0)]_vars

\* All links are up and every line has been handled.
Quiet == Calm /\ \A s, t \in play.servers : <<s, t>> \in Link => lc[s][t] = "up"

\* Every server lists the same members: JOIN, PART, QUIT, splits and bursts may
\* cross as they like, since each is sent by the user's own server.
MembersAgree == Quiet => \A s, t \in play.servers : members[s] = members[t]

\* netsync.h: "Channel state converges by timestamp (TS6-style): the older channel
\* wins; the younger side drops its modes and strips its members' ranks".  That is so
\* as long as nothing but joins, bursts and splits cross: a MODE or PART carries no
\* timestamp.
Orderly == play.crossing \subseteq {"join"}
RanksConverge == Quiet => \A s, t \in play.servers : chanops[s] = chanops[t]
AgesConverge == Quiet => \A s, t \in play.servers : channel[s].created = channel[t].created

\* Once the network is quiet, every server has the same ops ...
RanksAgree == Orderly => RanksConverge

\* ... the same creation time, which decides the next merge ...
AgesAgree == Orderly => AgesConverge

\* ... the same flags ...
FlagsAgree == Quiet /\ Orderly => \A s, t \in play.servers : channel[s].flags = channel[t].flags

\* ... and the same bans, whichever server they were set on.
BansAgree == Quiet /\ Orderly => \A s, t \in play.servers : channel[s].bans = channel[t].bans

\* netsync.c (handle_tb): "Same second: the text decides, so both sides still pick
\* the same one": servers that have been linked show one topic.
TopicsAgree == Quiet /\ Orderly => \A s, t \in play.servers : channel[s].topic = channel[t].topic

\* netsync.h: "the older channel wins": a user who knows the key gets in everywhere.
KeysAgree == Quiet => \A s, t \in play.servers : channel[s].key = channel[t].key

\* netsync.c (handle_tb): "The newer topic wins, so one changed during a netsplit
\* survives the relink": a TB never replaces what was set after it.
NewerTopicStays ==
    [][\A s, p \in play.servers : HandleTb(s, p) =>
          \/ channel'[s].topic = channel[s].topic
          \/ Head(wire[<<p, s>>]).ts >= channel[s].topicTime]_vars

\* netsync.c (send_burst): a server that sends no SJOIN for a channel does so
\* because "they have the channel".
PermanentKnown ==
    Quiet => \A s, t \in play.servers : Exists(s) /\ "P" \in channel[s].flags => Exists(t)

\* Each server's copy is sound by itself, whatever crosses on its links: a member is a client it
\* has, in a channel it has (channel_remove_member, server_remove_client).
CopiesSound == TypeOK /\ MembersKnown /\ Occupied

\* netsync.h: "Channel state converges by timestamp": when all is quiet, every server has the
\* same ranks, age, flags, bans and topic, however the copies had grown apart.
CopiesAgree == RanksAgree /\ AgesAgree /\ FlagsAgree /\ BansAgree /\ TopicsAgree
=============================================================================
