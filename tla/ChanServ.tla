------------------------------ MODULE ChanServ ------------------------------
(***************************************************************************)
(* The channel service (services/chanserv.c) and the part of the ircd that *)
(* talks to it (link.c): a registered channel on the hub, the record of it *)
(* in the service's store, and the two directions of the link between the  *)
(* processes, each in order and each as far behind as it likes.            *)
(*                                                                         *)
(* ChanServ keeps no picture of the channel.  It hears of joins, MODEs and *)
(* TOPICs, answers with trusted commands that name users by nick, and asks *)
(* the hub (SVCMEMBERS) when it wants to know who is there.  Everything it *)
(* decides is decided on what was so when the line was written.  What it   *)
(* writes goes through a buffer of fixed size, which the other channels'   *)
(* lines fill too: a line that does not fit is gone.                       *)
(*                                                                         *)
(* One channel.  A user's host is the user: an entry of the access, AKICK  *)
(* or ban list is a host or an account.  One channel flag stands for the   *)
(* modes an MLOCK can hold.  Voices and all other ranks as in the code.    *)
(***************************************************************************)
EXTENDS Integers, Sequences, FiniteSets, SequencesExt

CONSTANTS
    User, Nick, Account, Topic, Password, None,
    Level,        \* levels the ACCESS command is used with, and users hand each other
    Plays,        \* the workloads of this instance (see play)
    FounderMode,  \* [chanserv] founder_mode: "q" or "o"
    FirstNick,    \* the nicks to start with
    MaxLost,      \* bound: losses of the link
    MaxClock      \* bound: seconds in which a channel can be made, the most of any workload

Rank == {"q", "a", "o", "h", "v"}
Ops == Rank \ {"v"}
\* access_level_rank; -1 is "no access"
RankOf == [v |-> 0, h |-> 1, o |-> 2, a |-> 3, q |-> 4]

Entry == User \cup Account
Record ==
    [pw : Password, ts : 0..MaxClock, founder : Account \cup {None}, secureops : BOOLEAN,
     restricted : BOOLEAN, guard : BOOLEAN, topiclock : BOOLEAN, topic : Topic \cup {None},
     mlock : {"on", "off", None}, access : SUBSET (Entry \X Level), akick : SUBSET Entry,
     successor : Entry \cup {None}]

ArgOf(k) ==
    CASE k \in {"ACCESS ADD"} -> Entry \X Level
      [] k \in {"ACCESS DEL", "AKICK ADD", "AKICK DEL", "SUCCESSOR SET"} -> Entry
      [] k \in {"SETPASS", "SUCCESSOR CLAIM"} -> Password
      [] k \in {"TOPICLOCK", "RESTRICTED", "SECUREOPS"} -> BOOLEAN
      [] k = "MLOCK" -> {"on", "off", None}
      [] k = "FOUNDER" -> Account \cup {None}
      [] k \in {"OP", "DEOP", "KICK", "UNBAN", "INVITE"} -> Nick
      [] k = "TOPIC" -> Topic
      [] OTHER -> {None}

ASSUME PlayType == \A p \in Plays : p.records \subseteq Record \cup {None} /\ p.clock \in 1..MaxClock /\ {p.moves, p.drops} \subseteq Nat
ASSUME CmdType == \A p \in Plays : \A t \in p.typed : t.user \in User /\ t.pw \in Password \cup {None} /\ t.arg \in ArgOf(t.cmd)
ASSUME NoneType == None \notin User \cup Nick \cup Account \cup Topic \cup Password
ASSUME LevelType == Level \subseteq Rank /\ FounderMode \in {"q", "o"}
ASSUME NickType == FirstNick \in [User -> Nick] /\ \A u, v \in User : FirstNick[u] = FirstNick[v] => u = v

VARIABLES
    play,      \* what happens in this behaviour: the acts of users, the commands typed, whether records
               \* and identifications run out, the record to start with, bounds on moves, clock and
               \* steps whose lines do not all fit
    clock,     \* time(NULL) on the hub, in seconds
    nick,      \* who is online, under which nick
    acct,      \* the account a user is logged in to
    chan,      \* the channel on the hub
    up,        \* the services link stands and ChanServ's nick is introduced
    watch,     \* lc->watch_users: the user feed is on
    gone, back,    \* srv->svc_gone_at, srv->svc_back_at
    toSvc, toHub,  \* the lines on the link
    rec,       \* the channel's record in the store, or None
    ident,     \* g_identified: nick, and who it was when it was earned
    granted,   \* g_granted
    inc,       \* g_inc: the verdict on the channel's incarnation
    pendReg, pendClaim,  \* g_pending_register, g_pending_claim
    fails,     \* g_fails: nicks that must wait
    excused,   \* ranks nobody has to answer for (see VettedRanks)
    slipped,   \* members who changed nick while a line that names them was on the link
    lapsed,    \* users whose identification ran out
    cut,       \* lines that undo a takeover were lost with the link, or did not fit
    shed,      \* a line about the channel did not fit, and it has not been swept whole since
    moves, lost, drops

hub == <<clock, nick, acct, chan, watch, gone, back>>
tables == <<ident, granted, inc>>
ghosts == <<excused, slipped, lapsed>>
pending == <<pendReg, pendClaim>>
wire == <<toHub, cut, shed, drops>>
vars == <<play, hub, up, toSvc, wire, rec, tables, pending, fails, ghosts, moves, lost>>

NoChan == [ts |-> 0, reg |-> FALSE, lock |-> FALSE, bans |-> {}, topic |-> None,
           rank |-> [u \in {} |-> {}], bot |-> FALSE, own |-> FALSE]
NoInc == [ts |-> 0, takeover |-> FALSE]
Member == DOMAIN chan.rank
Online == {u \in User : nick[u] # None}
Exists == Member # {} \/ chan.bot
Quiet == up /\ toSvc = << >> /\ toHub = << >>
Known == {e[1] : e \in ident}

(***************************************************************************)
(* The hub: what users do, and what ChanServ hears of it.                  *)
(***************************************************************************)
\* What a line says of a user: host, nick, account, ranks (send_member_line).  The
\* owner is there for IdentFollows: who it is, if the feed will say what becomes of him.
Owner(u) == IF watch THEN u ELSE None
Who(u) == [u |-> u, owner |-> Owner(u), nick |-> nick[u], acct |-> acct[u],
           ranks |-> IF u \in Member THEN chan.rank[u] ELSE {}]
Line(c, u, flag) == [c |-> c, who |-> Who(u), flag |-> flag]

Tell(lines) == toSvc' = IF up THEN toSvc \o lines ELSE toSvc
Move(a) == a \in play.acts /\ moves < play.moves /\ moves' = moves + 1
HubOnly == UNCHANGED <<up, wire, rec, tables, pending, fails, lost, clock, watch, gone, back>>

\* channel_is_banned
Banned(u) == \E e \in chan.bans : e \in {u, acct[u]}

Without(f, u) == [v \in DOMAIN f \ {u} |-> f[v]]
\* Mutant: the last one to leave leaves an empty channel.
NoDrop(c, u) == [c EXCEPT !.rank = Without(c.rank, u)]

\* server_maybe_drop_channel
Left(c, u) ==
    LET r == Without(c.rank, u) IN
    IF DOMAIN r = {} /\ ~c.bot THEN NoChan ELSE [c EXCEPT !.rank = r]
Forget(u) == {e \in excused : e[1] # u}
Held == UNION {{u} \X chan.rank[u] : u \in Member}

\* link_notify_channel_join: a new channel, then a join of a +r or guarded one.
JoinNotice(fresh, u, c) ==
    (IF fresh THEN <<[c |-> "SVCNEW", ts |-> c.ts, hint |-> TRUE],
                     [c |-> "SVCSYNC", who |-> [Who(u) EXCEPT !.ranks = {"o"}], flag |-> None]>>
     ELSE << >>)
    \o (IF c.reg \/ c.bot
        THEN <<[c |-> "SVCJOIN", who |-> [Who(u) EXCEPT !.ranks = {}], flag |-> None]>> ELSE << >>)

\* do_join_one: whoever makes a channel is its op.
Join(u) ==
    LET fresh == ~Exists
        c == IF fresh THEN [NoChan EXCEPT !.ts = clock, !.rank = (u :> {"o"})]
             ELSE [chan EXCEPT !.rank = @ @@ (u :> {})] IN
    /\ Move("join") /\ u \in Online \ Member /\ ~Banned(u)
    /\ chan' = c
    /\ Tell(JoinNotice(fresh, u, c))
    /\ excused' = IF fresh /\ (rec = None \/ (~rec.secureops /\ clock <= rec.ts))
                  THEN excused \cup {<<u, "o">>} ELSE excused
    /\ slipped' = slipped \ {u} /\ UNCHANGED lapsed
    /\ HubOnly /\ UNCHANGED <<nick, acct>>

Part(u) ==
    /\ Move("part") /\ u \in Member
    /\ chan' = Left(chan, u)
    /\ excused' = Forget(u) /\ slipped' = slipped \ {u} /\ UNCHANGED lapsed
    /\ Tell(<< >>) /\ HubOnly /\ UNCHANGED <<nick, acct>>

\* Of users ChanServ shares a channel with it hears in any case.
Seen(u) == watch \/ (chan.bot /\ u \in Member)
News(u, c, n) == IF Seen(u) THEN <<[c |-> c, nick |-> nick[u], new |-> n]>> ELSE << >>

Quit(u) ==
    /\ Move("quit") /\ u \in Online
    /\ nick' = [nick EXCEPT ![u] = None] /\ acct' = [acct EXCEPT ![u] = None]
    /\ chan' = Left(chan, u)
    /\ excused' = Forget(u) /\ slipped' = slipped \ {u} /\ lapsed' = lapsed \ {u}
    /\ Tell(News(u, "QUIT", None)) /\ HubOnly

Free(n) == \A u \in User : nick[u] # n
Arrive(u, n) ==
    /\ Move("arrive") /\ u \notin Online /\ Free(n)
    /\ nick' = [nick EXCEPT ![u] = n]
    /\ Tell(<< >>) /\ HubOnly /\ UNCHANGED <<acct, chan, ghosts>>

\* The nicks the lines on the link name.
Names(lines) ==
    {m.nick : m \in {x \in ToSet(lines) : "nick" \in DOMAIN x}}
    \cup {m.who.nick : m \in {x \in ToSet(lines) : "who" \in DOMAIN x /\ x.who # None}}
Rename(u, n) ==
    /\ Move("nick") /\ u \in Online /\ Free(n)
    /\ nick' = [nick EXCEPT ![u] = n]
    /\ slipped' = IF u \in Member /\ nick[u] \in Names(toSvc) \cup Names(toHub) THEN slipped \cup {u} ELSE slipped
    /\ Tell(News(u, "NICK", n)) /\ HubOnly /\ UNCHANGED <<acct, chan, excused, lapsed>>

\* Logging out is not vetted: what the user holds stays.
Login(u, a) ==
    /\ Move("login") /\ u \in Online /\ acct[u] # a
    /\ acct' = [acct EXCEPT ![u] = a]
    /\ Tell(IF watch THEN <<[c |-> "SVCACCOUNT", nick |-> nick[u], in |-> a # None]>> ELSE << >>)
    /\ excused' = IF a = None /\ u \in Member THEN excused \cup ({u} \X chan.rank[u]) ELSE excused
    /\ HubOnly /\ UNCHANGED <<nick, chan, slipped, lapsed>>

\* A MODE of a user: +qa make an op of the target, -o is a full demotion.
Given(r) == {r} \cup IF r \in {"q", "a"} THEN {"o"} ELSE {}
Taken(r) == {r} \cup IF r = "o" THEN {"q", "a"} ELSE {}
IsOp(u) == u \in Member /\ "o" \in chan.rank[u]

\* Ranks users hand each other are theirs to hand, unless SECUREOPS is watching
\* or the services were away and the channel has to be vetted.
Owned == rec = None \/ (up /\ ~(rec.secureops /\ chan.bot)) \/ (~rec.secureops /\ chan.ts <= rec.ts)
RankMode(u, v, r) ==
    /\ Move("op") /\ IsOp(u) /\ v \in Member /\ r \notin chan.rank[v]
    /\ chan' = [chan EXCEPT !.rank[v] = @ \cup Given(r)]
    /\ Tell(IF chan.bot THEN <<[c |-> "RANK", nick |-> nick[v], rank |-> r]>> ELSE << >>)
    /\ excused' = IF Owned THEN excused \cup ({v} \X Given(r)) ELSE excused
    /\ HubOnly /\ UNCHANGED <<nick, acct, slipped, lapsed>>

\* A user's MODE of the flag, and a user's TOPIC.
FlagMode(u) ==
    /\ Move("flag") /\ IsOp(u)
    /\ chan' = [chan EXCEPT !.lock = ~@]
    /\ Tell(IF chan.bot THEN <<[c |-> "FLAG", on |-> ~chan.lock]>> ELSE << >>)
    /\ HubOnly /\ UNCHANGED <<nick, acct, ghosts>>

SetTopic(u, t) ==
    /\ Move("topic") /\ IsOp(u) /\ chan.topic # t
    /\ chan' = [chan EXCEPT !.topic = t]
    /\ Tell(IF chan.bot THEN <<[c |-> "TOPIC", own |-> FALSE, topic |-> t]>> ELSE << >>)
    /\ HubOnly /\ UNCHANGED <<nick, acct, ghosts>>

\* A command to ChanServ: the sender's nick, and the account as a message tag.
Founders == IF rec = None \/ ~watch THEN {}
            ELSE {u \in Member \ slipped : rec.founder # None /\ acct[u] = rec.founder /\ {u, acct[u]} \cap rec.akick = {}}
Say(t) ==
    /\ moves < play.moves /\ moves' = moves + 1
    /\ t.user \in Online /\ up
    /\ Tell(<<[c |-> "PRIVMSG", who |-> Who(t.user), cmd |-> t.cmd, arg |-> t.arg, pw |-> t.pw,
              founders |-> Founders]>>)
    /\ HubOnly /\ UNCHANGED <<nick, acct, chan, ghosts>>

\* Time matters when a channel is made.
Tick == clock < play.clock /\ ~Exists /\ clock' = clock + 1
        /\ UNCHANGED <<nick, acct, chan, watch, gone, back, up, toSvc, wire, rec, tables, pending,
                       fails, ghosts, moves, lost>>

(***************************************************************************)
(* The hub: what it does for ChanServ (link_process_line).  The commands   *)
(* are trusted; one that names a channel or a nick that is gone does       *)
(* nothing.                                                                *)
(***************************************************************************)
Cmd(c) == up /\ toHub # << >> /\ Head(toHub).c = c /\ toHub' = Tail(toHub) /\ UNCHANGED <<cut, shed, drops>>
ByHub == UNCHANGED <<clock, nick, acct, up, gone, back, rec, tables, pending, fails, moves, lost>>
HeldBy(n) == {u \in User : nick[u] = n}

\* cmd_force_join and the op the guard always gets
HubJoin ==
    /\ Cmd("JOIN")
    /\ chan' = IF Exists THEN [chan EXCEPT !.bot = TRUE] ELSE [NoChan EXCEPT !.ts = clock, !.bot = TRUE, !.own = TRUE]
    /\ ByHub /\ UNCHANGED <<watch, toSvc, ghosts>>

HubPart ==
    /\ Cmd("PART")
    /\ chan' = IF Member = {} THEN NoChan ELSE [chan EXCEPT !.bot = FALSE]
    /\ ByHub /\ UNCHANGED <<watch, toSvc, ghosts>>

\* The mode lines ChanServ writes: +r and -r, the locked flag, a ban, ranks.
Moded(m) ==
    CASE m.what = "r"    -> [chan EXCEPT !.reg = m.on]
      [] m.what = "lock" -> [chan EXCEPT !.lock = m.on]
      [] m.what = "b"    -> [chan EXCEPT !.bans = @ \cup {m.entry}]
      [] m.what = "rank" -> [chan EXCEPT !.rank =
            [u \in Member |-> IF nick[u] # m.nick THEN @[u]
                              ELSE (@[u] \ UNION {Taken(r) : r \in m.minus}) \cup UNION {Given(r) : r \in m.plus}]]
HubMode ==
    /\ Cmd("MODE")
    /\ LET m == Head(toHub) IN
       /\ chan' = IF Exists THEN Moded(m) ELSE chan
       /\ excused' = IF m.what # "rank" THEN excused
                     ELSE {e \in excused : e[1] \notin HeldBy(m.nick) \/ e[2] \notin UNION {Taken(r) : r \in m.minus}}
                          \cup ((HeldBy(m.nick) \cap Member) \X UNION {Given(r) : r \in m.plus})
    /\ ByHub /\ UNCHANGED <<watch, toSvc, slipped, lapsed>>

\* SVCRESET: default modes, no bans; never r.
HubReset ==
    /\ Cmd("SVCRESET")
    /\ chan' = IF Exists THEN [chan EXCEPT !.lock = FALSE, !.bans = {}] ELSE chan
    /\ ByHub /\ UNCHANGED <<watch, toSvc, ghosts>>

\* The bot sees its own TOPIC, as everybody in the channel does.
HubTopic ==
    /\ Cmd("TOPIC")
    /\ chan' = IF Exists THEN [chan EXCEPT !.topic = Head(toHub).topic] ELSE chan
    /\ Tell(IF chan.bot THEN <<[c |-> "TOPIC", own |-> TRUE, topic |-> Head(toHub).topic]>> ELSE << >>)
    /\ ByHub /\ UNCHANGED <<watch, ghosts>>

HubKick ==
    /\ Cmd("KICK")
    /\ \/ \E u \in HeldBy(Head(toHub).nick) \cap Member :
            chan' = Left(chan, u) /\ excused' = Forget(u) /\ slipped' = slipped \ {u} /\ UNCHANGED lapsed
       \/ HeldBy(Head(toHub).nick) \cap Member = {} /\ UNCHANGED <<chan, ghosts>>
    /\ ByHub /\ UNCHANGED <<watch, toSvc>>

HubUnban ==
    /\ Cmd("UNBAN")
    /\ chan' = [chan EXCEPT !.bans = @ \ UNION {{u, acct[u]} : u \in HeldBy(Head(toHub).nick)}]
    /\ ByHub /\ UNCHANGED <<watch, toSvc, ghosts>>

\* SVCWATCH: the feed of users, from here on.
HubWatch == Cmd("SVCWATCH") /\ watch' = TRUE /\ ByHub /\ UNCHANGED <<chan, toSvc, ghosts>>

\* WHOISUSER: who has that nick now.
HubWhoisUser ==
    /\ Cmd("WHOISUSER")
    /\ LET n == Head(toHub).nick
           who == IF HeldBy(n) = {} THEN None ELSE Who(CHOOSE u \in HeldBy(n) : TRUE) IN
       Tell(<<[c |-> "WHOISUSERREPLY", nick |-> n, who |-> who,
               founders |-> Founders \cap Head(toHub).founders]>>)
    /\ ByHub /\ UNCHANGED <<watch, chan, ghosts>>

\* WHOISCHAN: whether that nick is an op now, and the channel's TS.
HubWhoisChan ==
    /\ Cmd("WHOISCHAN")
    /\ LET n == Head(toHub).nick
           who == HeldBy(n) \cap Member IN
       Tell(<<[c |-> "WHOISCHANREPLY", nick |-> n, op |-> \E u \in who : "o" \in chan.rank[u], ts |-> chan.ts,
               owner |-> IF who = {} THEN None ELSE Owner(CHOOSE u \in who : TRUE)]>>)
    /\ ByHub /\ UNCHANGED <<watch, chan, ghosts>>

\* SVCMEMBERS: all members after the topic; with SYNC each line carries the TS and
\* whether the channel was made while ChanServ was away.
SyncFlag(sync) ==
    IF ~sync THEN None
    ELSE [ts |-> chan.ts, hint |-> chan.ts >= gone /\ (back = 0 \/ chan.ts <= back)]
MemberLines(m) ==
    IF m.nick = None
    THEN <<[c |-> "SVCTOPIC", topic |-> chan.topic]>>
         \o [i \in 1..Cardinality(Member) |-> Line("SVCMEMBER", SetToSeq(Member)[i], SyncFlag(m.sync))]
    ELSE IF HeldBy(m.nick) \cap Member = {} \/ (m.all /\ ~chan.reg) THEN << >>
    ELSE <<Line("SVCMEMBER", CHOOSE u \in HeldBy(m.nick) : TRUE, None)>>
HubMembers ==
    /\ Cmd("SVCMEMBERS")
    /\ Tell(IF Exists THEN MemberLines(Head(toHub)) ELSE << >>)
    /\ ByHub /\ UNCHANGED <<watch, chan, ghosts>>

HubStep ==
    \/ HubJoin \/ HubPart \/ HubMode \/ HubReset \/ HubTopic \/ HubKick \/ HubUnban
    \/ HubWatch \/ HubWhoisUser \/ HubWhoisChan \/ HubMembers

(***************************************************************************)
(* ChanServ: lines and lists.                                              *)
(***************************************************************************)
WireJoin == <<[c |-> "JOIN"]>>
WirePart == <<[c |-> "PART"]>>
WireReg(on) == <<[c |-> "MODE", what |-> "r", on |-> on]>>
WireRank(n, minus, plus) ==
    IF minus \cup plus = {} THEN << >>
    ELSE <<[c |-> "MODE", what |-> "rank", nick |-> n, minus |-> minus, plus |-> plus]>>
WireTopic(t) == <<[c |-> "TOPIC", topic |-> t]>>
WireMembers(sync) == <<[c |-> "SVCMEMBERS", nick |-> None, all |-> FALSE, sync |-> sync]>>
WireMember(n, all) == <<[c |-> "SVCMEMBERS", nick |-> n, all |-> all, sync |-> FALSE]>>
Expel(m, e) == <<[c |-> "MODE", what |-> "b", entry |-> e], [c |-> "KICK", nick |-> m.nick]>>
If(b, lines) == IF b THEN lines ELSE << >>
ApplyMlock(r) == If(r.mlock # None, <<[c |-> "MODE", what |-> "lock", on |-> r.mlock = "on"]>>)

\* entry_matches, access_level_for, akick_matches
Matches(e, w) == e = w.u \/ (w.acct # None /\ e = w.acct)
LevelsFor(r, w) == {e[2] : e \in {x \in r.access : Matches(x[1], w)}}
LevelFor(r, w) == IF LevelsFor(r, w) = {} THEN None
                  ELSE CHOOSE l \in LevelsFor(r, w) : \A k \in LevelsFor(r, w) : RankOf[k] <= RankOf[l]
Akicks(r, w) == {e \in r.akick : Matches(e, w)}
IsFounder(r, w) == r.founder # None /\ w.acct = r.founder

\* mark_identified
Mark(n, u) == IF n \in Known THEN ident ELSE ident \cup {<<n, u>>}

\* Mutant: voices are taken like every other rank, ranks only under SECUREOPS.
NoRevoke(r, w, tk) ==
    {k \in w.ranks : RankOf[k] > (IF LevelFor(r, w) = None THEN -1 ELSE RankOf[LevelFor(r, w)]) /\ r.secureops}

\* What is taken from a member: ranks above the level, if nobody vetted them, SECUREOPS
\* is on or ChanServ gave them; a voice only if ChanServ gave it.
TakenFrom(r, w, tk) ==
    {k \in w.ranks : /\ RankOf[k] > (IF LevelFor(r, w) = None THEN -1 ELSE RankOf[LevelFor(r, w)])
                     /\ w.nick \in granted \/ (k # "v" /\ (tk \/ r.secureops))}

\* enforce_member: the lines it writes, who becomes identified, who granted.
Enforced(r, w, tk) ==
    LET l == LevelFor(r, w)
        same == [out |-> << >>, ident |-> ident, granted |-> granted] IN
    CASE Akicks(r, w) # {} -> [same EXCEPT !.out = Expel(w, CHOOSE e \in Akicks(r, w) : TRUE)]
      [] Akicks(r, w) = {} /\ IsFounder(r, w) ->
            [out |-> WireRank(w.nick, {}, {FounderMode} \ w.ranks),
             ident |-> Mark(w.nick, w.owner), granted |-> granted \cup {w.nick}]
      [] Akicks(r, w) = {} /\ ~IsFounder(r, w) /\ w.nick \in Known -> same
      [] OTHER ->
            IF r.restricted /\ l = None /\ (tk \/ w.ranks \cap {"q", "a", "o"} = {})
            THEN [same EXCEPT !.out = Expel(w, w.u)]
            ELSE [same EXCEPT !.out = WireRank(w.nick, TakenFrom(r, w, tk), IF l = None THEN {} ELSE {l} \ w.ranks),
                              !.granted = IF l = None THEN @ \ {w.nick} ELSE @ \cup {w.nick}]

\* A channel newer than the one ChanServ last vetted was made by whoever came first.
IsNewer(r, ts, hint) == IF r.ts > 0 THEN ts > r.ts ELSE hint

\* judge_incarnation: once per incarnation; a takeover is reset at once.
Judge(r, ts, hint, restore) ==
    IF ts > 0 /\ inc.ts = ts THEN [takeover |-> inc.takeover, rec |-> r, inc |-> inc, out |-> << >>]
    ELSE LET tk == IsNewer(r, ts, hint) IN
         [takeover |-> tk, rec |-> [r EXCEPT !.ts = IF ts > 0 THEN ts ELSE @], inc |-> [ts |-> ts, takeover |-> tk],
          out |-> If(tk, <<[c |-> "SVCRESET"]>> \o If(restore, ApplyMlock(r))
                         \o If(r.topiclock /\ r.topic # None, WireTopic(r.topic)))]

(***************************************************************************)
(* ChanServ: what it hears (process_line).                                 *)
(***************************************************************************)
Got(c) == up /\ toSvc # << >> /\ Head(toSvc).c = c /\ toSvc' = Tail(toSvc)
\* queue_line: a line that does not fit in the buffer is dropped, a shorter one after it need not be.
Undoes(lines) == inc.takeover \/ \E k \in DOMAIN lines : lines[k].c = "SVCRESET"
Out(lines) ==
    \/ toHub' = toHub \o lines /\ UNCHANGED <<cut, shed, drops>>
    \/ /\ drops < play.drops /\ drops' = drops + 1
       /\ \E kept \in AllSubSeqs(lines) \ {lines} : toHub' = toHub \o kept
       /\ shed' = TRUE /\ cut' = (cut \/ Undoes(lines))
BySvc == UNCHANGED <<hub, up, moves, lost>>

\* QUIT and NICK (and SVCQUIT, SVCNICK): the tables go by nick.
OnQuit ==
    /\ Got("QUIT")
    /\ ident' = {e \in ident : e[1] # Head(toSvc).nick} /\ granted' = granted \ {Head(toSvc).nick}
    /\ BySvc /\ UNCHANGED <<wire, rec, inc, pending, fails, ghosts>>

\* Mutant: only what was granted follows a user to his new nick.
GrantsOnly ==
    /\ Got("NICK")
    /\ granted' = {IF n = Head(toSvc).nick THEN Head(toSvc).new ELSE n : n \in granted}
    /\ BySvc /\ UNCHANGED <<wire, rec, ident, inc, pending, fails, ghosts>>

Renamed(n) == IF n = Head(toSvc).nick THEN Head(toSvc).new ELSE n
OnNick ==
    /\ Got("NICK")
    /\ ident' = {<<Renamed(e[1]), e[2]>> : e \in ident} /\ granted' = {Renamed(n) : n \in granted}
    /\ BySvc /\ UNCHANGED <<wire, rec, inc, pending, fails, ghosts>>

\* SVCACCOUNT: somebody logged in; have them vetted in every +r channel.
OnAccount ==
    /\ Got("SVCACCOUNT")
    /\ Out(If(Head(toSvc).in, WireMember(Head(toSvc).nick, TRUE)))
    /\ BySvc /\ UNCHANGED <<rec, tables, pending, fails, ghosts>>

\* TOPIC: ChanServ's own, or the first, becomes the locked one; others are undone.
OnTopic ==
    /\ Got("TOPIC")
    /\ LET m == Head(toSvc) IN
       IF rec = None \/ ~rec.topiclock THEN UNCHANGED <<rec, wire>>
       ELSE IF m.own \/ rec.topic = None THEN rec' = [rec EXCEPT !.topic = m.topic] /\ Out(<< >>)
       ELSE Out(If(m.topic # rec.topic, WireTopic(rec.topic))) /\ rec' = rec
    /\ BySvc /\ UNCHANGED <<tables, pending, fails, ghosts>>

\* MODE: a rank somebody was given, under SECUREOPS, is asked about ...
OnRank ==
    /\ Got("RANK")
    /\ Out(If(rec # None /\ rec.secureops /\ Head(toSvc).rank \in Ops, WireMember(Head(toSvc).nick, FALSE)))
    /\ BySvc /\ UNCHANGED <<rec, tables, pending, fails, ghosts>>

\* Mutant: a lock is against taking a mode away only.
MinusOnly ==
    /\ Got("FLAG")
    /\ Out(If(rec # None /\ rec.mlock = "on" /\ Head(toSvc).on, ApplyMlock(rec)))
    /\ BySvc /\ UNCHANGED <<rec, tables, pending, fails, ghosts>>

\* ... and a locked flag is put back.
OnFlag ==
    /\ Got("FLAG")
    /\ Out(If(rec # None /\ Head(toSvc).on # (rec.mlock = "on"), ApplyMlock(rec)))
    /\ BySvc /\ UNCHANGED <<rec, tables, pending, fails, ghosts>>

\* handle_svcjoin
OnSvcJoin ==
    /\ Got("SVCJOIN")
    /\ LET w == Head(toSvc).who
           l == LevelFor(rec, w) IN
       IF rec = None THEN UNCHANGED <<wire, ident, granted>>
       ELSE IF Akicks(rec, w) # {}
       THEN Out(Expel(w, CHOOSE e \in Akicks(rec, w) : TRUE)) /\ UNCHANGED <<ident, granted>>
       ELSE IF rec.restricted /\ ~IsFounder(rec, w) /\ l = None /\ w.nick \notin Known
       THEN Out(Expel(w, w.u)) /\ UNCHANGED <<ident, granted>>
       ELSE /\ Out(WireRank(w.nick, {}, IF IsFounder(rec, w) THEN {FounderMode} ELSE {l} \ {None}))
            /\ ident' = IF IsFounder(rec, w) THEN Mark(w.nick, w.owner) ELSE ident
            /\ granted' = IF IsFounder(rec, w) \/ l # None THEN granted \cup {w.nick} ELSE granted
    /\ BySvc /\ UNCHANGED <<rec, inc, pending, fails, ghosts>>

\* handle_svcnew: judge it, and put back what the ircd forgets with a channel.
OnSvcNew ==
    /\ Got("SVCNEW")
    /\ LET j == Judge(rec, Head(toSvc).ts, Head(toSvc).hint, FALSE) IN
       IF rec = None THEN UNCHANGED <<rec, inc, wire>>
       ELSE /\ rec' = j.rec /\ inc' = j.inc
            /\ Out(j.out \o If(rec.guard, WireJoin) \o WireReg(TRUE) \o ApplyMlock(rec) \o WireMembers(FALSE))
    /\ BySvc /\ UNCHANGED <<ident, granted, pending, fails, ghosts>>

\* handle_svcsync: the first op of a channel that was just announced.
OnSvcSync ==
    /\ Got("SVCSYNC")
    /\ LET e == Enforced(rec, Head(toSvc).who, inc.takeover) IN
       IF rec = None THEN UNCHANGED <<wire, ident, granted>>
       ELSE Out(e.out) /\ ident' = e.ident /\ granted' = e.granted
    /\ BySvc /\ UNCHANGED <<rec, inc, pending, fails, ghosts>>

\* handle_svcmember: with a TS it answers the sweep after a relink.
OnSvcMember ==
    /\ Got("SVCMEMBER")
    /\ LET m == Head(toSvc)
           j == IF m.flag = None THEN [takeover |-> FALSE, rec |-> rec, inc |-> inc, out |-> << >>]
                ELSE Judge(rec, m.flag.ts, m.flag.hint, TRUE)
           e == Enforced(j.rec, m.who, j.takeover) IN
       IF rec = None THEN UNCHANGED <<rec, inc, wire, ident, granted>>
       ELSE rec' = j.rec /\ inc' = j.inc /\ Out(j.out \o e.out) /\ ident' = e.ident /\ granted' = e.granted
    /\ BySvc /\ UNCHANGED <<pending, fails, ghosts>>

OnSvcTopic ==
    /\ Got("SVCTOPIC")
    /\ rec' = IF rec # None /\ rec.topiclock /\ rec.topic = None
              THEN [rec EXCEPT !.topic = Head(toSvc).topic] ELSE rec
    /\ BySvc /\ UNCHANGED <<wire, tables, pending, fails, ghosts>>

ForRegister(m) == pendReg # None /\ pendReg.nick = m.nick
\* WHOISCHANREPLY and finish_register
OnWhoisChan ==
    /\ Got("WHOISCHANREPLY")
    /\ LET m == Head(toSvc) IN
       IF ~ForRegister(m) THEN UNCHANGED <<rec, ident, pendReg, wire>>
       ELSE /\ pendReg' = None
            /\ IF ~m.op THEN UNCHANGED <<rec, ident, wire>>
               ELSE /\ rec' = [pw |-> pendReg.pw, ts |-> m.ts, founder |-> pendReg.acct, secureops |-> TRUE,
                               restricted |-> FALSE, guard |-> FALSE, topiclock |-> FALSE, topic |-> None,
                               mlock |-> None, access |-> {}, akick |-> {}, successor |-> None]
                    /\ ident' = Mark(m.nick, m.owner)
                    /\ Out(WireReg(TRUE))
    /\ BySvc /\ UNCHANGED <<granted, inc, pendClaim, fails, ghosts>>

\* Mutant: a CLAIM is not looked at again when the answer is there.
NoSecondLook(m) == rec # None /\ rec.successor # None /\ Matches(rec.successor, m.who)

\* finish_claim looks again: much can have happened since it asked.
MayClaim(m) ==
    /\ rec # None /\ rec.successor # None /\ ident = {}
    /\ Matches(rec.successor, m.who)
\* WHOISUSERREPLY and finish_claim
OnWhoisUser ==
    /\ Got("WHOISUSERREPLY")
    /\ LET m == Head(toSvc) IN
       IF pendClaim = None \/ pendClaim.nick # m.nick THEN UNCHANGED <<rec, ident, pendClaim, wire>>
       ELSE /\ pendClaim' = None
            /\ IF m.who = None \/ ~MayClaim(m) THEN UNCHANGED <<rec, ident, wire>>
               ELSE /\ rec' = [rec EXCEPT !.pw = pendClaim.pw, !.successor = None]
                    /\ ident' = Mark(m.nick, m.who.owner)
                    /\ Out(WireRank(m.nick, {}, {FounderMode}))
    /\ BySvc /\ UNCHANGED <<granted, inc, pendReg, fails, ghosts>>

Hear ==
    \/ OnQuit \/ OnNick \/ OnAccount \/ OnTopic \/ OnRank \/ OnFlag \/ OnSvcJoin \/ OnSvcNew
    \/ OnSvcSync \/ OnSvcMember \/ OnSvcTopic \/ OnWhoisChan \/ OnWhoisUser

(***************************************************************************)
(* ChanServ: what it is told (dispatch_privmsg).                           *)
(***************************************************************************)
Told(k) == Got("PRIVMSG") /\ Head(toSvc).cmd = k
Arg == Head(toSvc).arg
From == Head(toSvc).who

\* check_password; "*" is the founder account's.
Trusted(m) ==
    /\ rec # None /\ m.who.nick \notin fails
    /\ m.pw = rec.pw \/ (m.pw = None /\ IsFounder(rec, m.who))
Allowed(k) == Told(k) /\ Trusted(Head(toSvc))
Refuse ==
    /\ Got("PRIVMSG") /\ Head(toSvc).cmd \notin {"REGISTER", "SUCCESSOR CLAIM"} /\ ~Trusted(Head(toSvc))
    /\ fails' = IF rec = None THEN fails ELSE fails \cup {From.nick}
    /\ BySvc /\ UNCHANGED <<wire, rec, tables, pending, ghosts>>

CmdRegister ==
    /\ Told("REGISTER")
    /\ IF rec # None \/ pendReg # None THEN UNCHANGED <<pendReg, wire>>
       ELSE /\ pendReg' = [nick |-> From.nick, pw |-> Head(toSvc).pw, acct |-> From.acct]
            /\ Out(<<[c |-> "WHOISCHAN", nick |-> From.nick]>>)
    /\ BySvc /\ UNCHANGED <<rec, tables, pendClaim, fails, ghosts>>

CmdIdentify ==
    /\ Allowed("IDENTIFY")
    /\ ident' = Mark(From.nick, From.owner)
    /\ Out(WireRank(From.nick, {}, {FounderMode}))
    /\ BySvc /\ UNCHANGED <<rec, granted, inc, pending, fails, ghosts>>

\* cmd_drop, and expire_sweep for a record nobody has used
Dropped ==
    /\ rec' = None /\ ident' = {} /\ granted' = {}
    /\ Out(WireReg(FALSE) \o If(rec.guard, WirePart))
    /\ excused' = Held
    /\ UNCHANGED <<hub, up, inc, pending, fails, slipped, lapsed, lost>>
CmdDrop == Allowed("DROP") /\ Dropped /\ UNCHANGED moves
ExpireSweep ==
    /\ play.forgets /\ moves < play.moves /\ moves' = moves + 1
    /\ up /\ rec # None /\ Dropped /\ UNCHANGED toSvc

\* A command that changes the record and writes some lines.
Set(r, lines) ==
    /\ rec' = r /\ Out(lines)
    /\ BySvc /\ UNCHANGED <<tables, pending, fails, slipped, lapsed>>

CmdGuardJoin == Allowed("JOIN") /\ Set([rec EXCEPT !.guard = TRUE], WireJoin) /\ UNCHANGED excused
CmdGuardPart == Allowed("PART") /\ Set([rec EXCEPT !.guard = FALSE], WirePart) /\ UNCHANGED excused
CmdSetpass == Allowed("SETPASS") /\ Set([rec EXCEPT !.pw = Arg], << >>) /\ UNCHANGED excused
CmdTopicLock ==
    /\ Allowed("TOPICLOCK") /\ UNCHANGED excused
    /\ IF Arg THEN Set([rec EXCEPT !.topiclock = TRUE, !.guard = TRUE, !.topic = None], WireJoin \o WireMembers(FALSE))
       ELSE Set([rec EXCEPT !.topiclock = FALSE], << >>)

CmdAccessAdd ==
    /\ Allowed("ACCESS ADD") /\ UNCHANGED excused
    /\ Set([rec EXCEPT !.access = {e \in @ : e[1] # Arg[1]} \cup {Arg}], WireMembers(FALSE))
CmdAccessDel ==
    /\ Allowed("ACCESS DEL") /\ UNCHANGED excused
    /\ Set([rec EXCEPT !.access = {e \in @ : e[1] # Arg}],
           If(\E e \in rec.access : e[1] = Arg, WireMembers(FALSE)))
\* Mutant: an AKICK is for those who join later.
QuietAkick == Allowed("AKICK ADD") /\ UNCHANGED excused /\ Set([rec EXCEPT !.akick = @ \cup {Arg}], << >>)

CmdAkickAdd ==
    /\ Allowed("AKICK ADD") /\ UNCHANGED excused
    /\ IF Arg \in rec.akick THEN Set(rec, << >>)
       ELSE Set([rec EXCEPT !.akick = @ \cup {Arg}], WireMembers(FALSE))
CmdAkickDel == Allowed("AKICK DEL") /\ Set([rec EXCEPT !.akick = @ \ {Arg}], << >>) /\ UNCHANGED excused

CmdSuccessorSet ==
    Allowed("SUCCESSOR SET") /\ Set([rec EXCEPT !.successor = Arg], << >>) /\ UNCHANGED excused
CmdSuccessorClaim ==
    /\ Told("SUCCESSOR CLAIM")
    /\ IF rec = None \/ ident # {} \/ pendClaim # None THEN UNCHANGED <<pendClaim, wire>>
       ELSE IF rec.successor = None THEN UNCHANGED <<pendClaim, wire>>
       ELSE /\ pendClaim' = [nick |-> From.nick, pw |-> Arg]
            /\ Out(<<[c |-> "WHOISUSER", nick |-> From.nick, founders |-> Head(toSvc).founders]>>)
    /\ BySvc /\ UNCHANGED <<rec, tables, pendReg, fails, ghosts>>

CmdSetMlock ==
    /\ Allowed("MLOCK") /\ UNCHANGED excused
    /\ LET r == [rec EXCEPT !.mlock = Arg, !.guard = @ \/ Arg # None] IN
       Set(r, If(Arg # None, WireJoin) \o ApplyMlock(r))
CmdSetRestricted ==
    /\ Allowed("RESTRICTED") /\ UNCHANGED excused
    /\ Set([rec EXCEPT !.restricted = Arg, !.guard = @ \/ Arg], If(Arg, WireJoin \o WireMembers(FALSE)))
CmdSetSecureops ==
    /\ Allowed("SECUREOPS")
    /\ Set([rec EXCEPT !.secureops = Arg, !.guard = @ \/ Arg], If(Arg, WireJoin \o WireMembers(FALSE)))
    /\ excused' = IF Arg THEN {} ELSE Held
CmdSetFounder ==
    Allowed("FOUNDER") /\ Set([rec EXCEPT !.founder = Arg], WireMembers(FALSE)) /\ UNCHANGED excused

\* cmd_chanmode_one, cmd_svc_kick, cmd_svc_unban, cmd_svc_topic
CmdOp == Allowed("OP") /\ Set(rec, WireRank(Arg, {}, {"o"})) /\ UNCHANGED excused
CmdDeop == Allowed("DEOP") /\ Set(rec, WireRank(Arg, {"o"}, {})) /\ UNCHANGED excused
CmdKick == Allowed("KICK") /\ Set(rec, <<[c |-> "KICK", nick |-> Arg]>>) /\ UNCHANGED excused
CmdUnban == Allowed("UNBAN") /\ Set(rec, <<[c |-> "UNBAN", nick |-> Arg]>>) /\ UNCHANGED excused
CmdTopic == Allowed("TOPIC") /\ Set(rec, WireTopic(Arg)) /\ UNCHANGED excused

Obey ==
    \/ Refuse \/ CmdRegister \/ CmdIdentify \/ CmdDrop \/ CmdGuardJoin \/ CmdGuardPart \/ CmdSetpass
    \/ CmdTopicLock \/ CmdAccessAdd \/ CmdAccessDel \/ CmdAkickAdd \/ CmdAkickDel \/ CmdSuccessorSet
    \/ CmdSuccessorClaim \/ CmdSetMlock \/ CmdSetRestricted \/ CmdSetSecureops \/ CmdSetFounder
    \/ CmdOp \/ CmdDeop \/ CmdKick \/ CmdUnban \/ CmdTopic

(***************************************************************************)
(* Time passes, the link is lost and comes back (run_session, link_reap).  *)
(***************************************************************************)
\* No answer within five seconds; the cooldown of three seconds is over.
GiveUp ==
    /\ up /\ pending # <<None, None>>
    /\ \/ pendReg # None /\ pendReg' = None /\ UNCHANGED pendClaim
       \/ pendClaim # None /\ pendClaim' = None /\ UNCHANGED pendReg
    /\ BySvc /\ UNCHANGED <<toSvc, wire, rec, tables, fails, ghosts>>
CoolDown ==
    /\ fails # {} /\ fails' = {}
    /\ BySvc /\ UNCHANGED <<toSvc, wire, rec, tables, pending, ghosts>>

\* prune_identified and the eviction in mark_identified: an entry is forgotten.
Lapse ==
    /\ play.forgets /\ moves < play.moves /\ moves' = moves + 1
    /\ \E e \in ident :
         /\ ident' = ident \ {e}
         /\ excused' = excused \cup UNION {{u} \X chan.rank[u] : u \in HeldBy(e[1]) \cap Member}
         /\ lapsed' = lapsed \cup HeldBy(e[1])
    /\ UNCHANGED <<hub, up, toSvc, wire, rec, granted, inc, pending, fails, slipped, lost>>

\* link_reap: the bots go, and from now on channels are made unwatched.
LoseLink ==
    /\ up /\ lost < MaxLost /\ lost' = lost + 1
    /\ up' = FALSE /\ watch' = FALSE /\ gone' = clock /\ back' = 0
    /\ toSvc' = << >> /\ toHub' = << >>
    /\ chan' = IF Member = {} THEN NoChan ELSE [chan EXCEPT !.bot = FALSE]
    /\ slipped' = (IF rec # None /\ rec.secureops THEN {} ELSE slipped)
    /\ cut' = (cut \/ (inc.takeover /\ ~Quiet))
    /\ UNCHANGED <<shed, drops, clock, nick, acct, rec, tables, pending, fails, excused, lapsed, moves>>

\* What was identified or granted in the last session is not any more.
FreshTables == ident' = {} /\ granted' = {} /\ inc' = NoInc

\* Mutant: only guarded channels are looked at after a relink.
GuardedOnly(r) ==
    If(r.guard, WireJoin \o WireReg(TRUE) \o ApplyMlock(r) \o WireMembers(TRUE)
                \o If(r.topiclock /\ r.topic # None, WireTopic(r.topic)))

\* guard_join_all
Sweep(r) ==
    If(r.guard, WireJoin \o If(r.topiclock /\ r.topic # None, WireTopic(r.topic)))
    \o WireReg(TRUE) \o ApplyMlock(r) \o WireMembers(TRUE)

\* do_handshake, the NICK that introduces the bot, and the start of the session: nothing is
\* written out before every channel's sweep is queued.
LinkUp ==
    /\ ~up /\ up' = TRUE /\ back' = clock
    /\ FreshTables
    /\ LET sweep == IF rec = None THEN << >> ELSE Sweep(rec) IN
       \/ toHub' = <<[c |-> "SVCWATCH"]>> \o sweep /\ shed' = FALSE /\ UNCHANGED drops
       \/ /\ drops < play.drops /\ drops' = drops + 1 /\ shed' = TRUE
          /\ \E kept \in AllSubSeqs(sweep) \ {sweep} : toHub' = <<[c |-> "SVCWATCH"]>> \o kept
    /\ excused' = IF rec # None /\ (rec.secureops \/ (Exists /\ chan.ts > rec.ts)) THEN {} ELSE excused
    /\ UNCHANGED <<clock, nick, acct, chan, watch, gone, toSvc, rec, pending, fails, slipped, lapsed, cut, moves, lost>>

(***************************************************************************)
(* The specification.  It starts in a session at rest: the sweep is done,  *)
(* some users without an entry in the record are in the channel, nobody is *)
(* logged in.                                                              *)
(***************************************************************************)
Strangers == IF rec = None THEN User ELSE {u \in User : \A e \in rec.access : e[1] # u}
Start(m) ==
    [ts |-> 1, reg |-> rec # None, lock |-> rec # None /\ rec.mlock = "on", bans |-> {},
     topic |-> IF rec = None THEN None ELSE rec.topic, own |-> FALSE, bot |-> rec # None /\ rec.guard,
     rank |-> [u \in m |-> IF rec # None /\ rec.secureops THEN {} ELSE {"o"}]]
Init ==
    /\ clock = 1 /\ gone = 1 /\ back = 1 /\ up = TRUE /\ watch = TRUE
    /\ nick = FirstNick
    /\ acct = [u \in User |-> None]
    /\ play \in Plays /\ rec \in play.records
    /\ \E m \in SUBSET Strangers :
         chan = IF m = {} /\ ~(rec # None /\ rec.guard) THEN NoChan ELSE Start(m)
    /\ toSvc = << >> /\ toHub = << >> /\ ident = {} /\ granted = {} /\ inc = NoInc
    /\ pendReg = None /\ pendClaim = None /\ fails = {}
    /\ excused = Held /\ slipped = {} /\ lapsed = {} /\ moves = 0 /\ lost = 0
    /\ cut = FALSE /\ shed = FALSE /\ drops = 0

UserStep ==
    \/ \E t \in play.typed : Say(t)
    \/ \E u \in User :
        \/ Join(u) \/ Part(u) \/ Quit(u) \/ FlagMode(u)
        \/ \E n \in Nick : Arrive(u, n) \/ Rename(u, n)
        \/ \E a \in Account \cup {None} : Login(u, a)
        \/ \E v \in User, r \in Level : RankMode(u, v, r)
        \/ \E t \in Topic : SetTopic(u, t)

Next ==
    /\ \/ UserStep \/ Tick \/ HubStep \/ Hear \/ Obey \/ ExpireSweep
       \/ GiveUp \/ CoolDown \/ Lapse \/ LoseLink \/ LinkUp
    /\ UNCHANGED play

Spec == Init /\ [][Next]_vars

(***************************************************************************)
(* Properties.                                                             *)
(***************************************************************************)
\* All state is of its type, and the tables name nicks.
TypeOK ==
    /\ clock \in 1..MaxClock /\ nick \in [User -> Nick \cup {None}] /\ acct \in [User -> Account \cup {None}]
    /\ chan.rank \in [Member -> SUBSET Rank] /\ Member \subseteq Online /\ chan.bans \subseteq Entry
    /\ chan.ts \in 0..MaxClock /\ (chan.ts > 0) = Exists
    /\ rec \in Record \cup {None} /\ Known \cup granted \subseteq Nick
    /\ ~up => toSvc = << >> /\ toHub = << >>

\* A rank the record backs: the founder account, an identified nick, the access list.
Backs(u, r) ==
    \/ IsFounder(rec, Who(u)) \/ nick[u] \in Known
    \/ LevelFor(rec, Who(u)) # None /\ RankOf[r] <= RankOf[LevelFor(rec, Who(u))]

\* When nothing is on the link, nobody in a registered channel holds an op rank that
\* is not backed, except ranks that were handed out by ChanServ or, without SECUREOPS,
\* by those who may; the first op of a channel that was made anew, and ranks given
\* while the services were away under SECUREOPS, are gone (enforce_member, judge_incarnation);
\* unless a line about the channel did not fit in the buffer since the last whole sweep.
VettedRanks ==
    Quiet /\ rec # None /\ ~shed /\ ~(cut /\ ~rec.secureops) =>
        \A u \in Member \ slipped : \A r \in chan.rank[u] \cap Ops : <<u, r>> \in excused \/ Backs(u, r)

\* When nothing is on the link, nobody who is on the AKICK list is in the channel,
\* whether he joined, logged in, or was there before (akick_matches).
Expelled ==
    Quiet /\ rec # None /\ chan.reg => \A u \in Member \ slipped : Akicks(rec, Who(u)) = {}

\* When nothing is on the link, a locked mode of a guarded channel is as locked, and
\* a locked topic is the topic, whoever changed it and wherever ChanServ was (MLOCK, TOPICLOCK).
LocksHold ==
    Quiet /\ rec # None /\ chan.reg /\ chan.bot /\ rec.guard =>
        /\ rec.mlock # None => chan.lock = (rec.mlock = "on")
        /\ rec.topiclock /\ rec.topic # None => chan.topic = rec.topic

\* When nothing is on the link and the feed is on, an identified nick is held by the
\* very user who proved it, not by one who took the nick (cs_user_quit, cs_user_nick).
IdentFollows ==
    Quiet /\ watch => \A e \in ident : e[2] # None => nick[e[2]] = e[1]

\* When nothing is on the link, a registered channel is +r on the hub, so that joins
\* are reported and logins looked at; but the JOIN command makes an empty channel anew
\* and does not mark it.  (The reverse fails: the -r of a DROP is lost with the link.)
FlagFollows == Quiet /\ Exists /\ ~chan.own /\ rec # None => chan.reg

\* A CLAIM takes nothing from a founder account that was in the channel from when the
\* question was caused to when the hub answered it, if it has not run out, also right
\* after a relink emptied the table of the identified (finish_claim looks a second time),
\* unless a line about the channel did not fit in the buffer since the last whole sweep.
ClaimSparesFounder ==
    [][OnWhoisUser /\ rec' # rec /\ ~shed => Head(toSvc).founders \subseteq lapsed]_vars

\* The comment in mark_identified has it as a fault of an older version that a successor could CLAIM
\* the channel while "a real founder was actively in the channel": nor when the sweep did not fit.
FounderSpared ==
    [][OnWhoisUser /\ rec' # rec => Head(toSvc).founders \subseteq lapsed]_vars

\* The comment on enforce_member says ranks "handed out while ChanServ couldn't watch" are
\* taken back "whatever SECUREOPS says": also when the link is lost while that is done.
GrabUndone ==
    Quiet /\ rec # None /\ ~shed =>
        \A u \in Member \ slipped : \A r \in chan.rank[u] \cap Ops : <<u, r>> \in excused \/ Backs(u, r)

\* When nothing is on the link a registered channel is as its record says, whatever was lost with
\* a link: AKICKs are out, locked modes and topic are back, and the channel is +r (guard_join_all);
\* unless a line about the channel did not fit in the buffer since the last whole sweep.
RecordHolds == ~shed => Expelled /\ LocksHold /\ FlagFollows

\* The comment on guard_join_all says that it "reasserts +r/MLOCK for EVERY registered channel" after
\* a dropped link: also for those whose lines do not fit.
SweptAll == Expelled /\ LocksHold /\ FlagFollows

\* The tables that go by nick (identified, granted) name nicks, and those who proved them.
TablesSound == TypeOK /\ IdentFollows
=============================================================================
