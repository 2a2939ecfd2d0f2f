------------------------------- MODULE Login --------------------------------
(***************************************************************************)
(* Logging in to an account.  The ircd (cmd_reg.c) relays SASL, PASS and   *)
(* REGISTER to the account service and turns its lines into the state of a *)
(* connection; NickServ (services/nickserv.c) keeps the accounts, a slot   *)
(* for each running SASL exchange, and a picture of the network's users    *)
(* that it is fed by the hub.  Between the two is a link that delivers in  *)
(* order, late, and loses what it holds when it breaks.                    *)
(*                                                                         *)
(* A nick and an account name are the same kind of thing.  A certificate   *)
(* is the connection that shows it; all connections share one address.     *)
(***************************************************************************)
EXTENDS Integers, Sequences, FiniteSets

CONSTANTS
    Conn, Nick, Password, None,
    Guest,       \* the nicks guest_nick makes up
    FirstNick,   \* the nick a connection asks for
    Plays,       \* the workloads of this instance (see play)
    Admin,       \* [nickserv] admins
    Enforce,     \* [nickserv] enforce_nicks
    Far,         \* connections that are on another server
    SlotMax,     \* SASL_SLOTS
    FailMax,     \* AUTH_FAIL_MAX, FAIL_MAX
    RegisterMax, \* REGISTER_MAX_PER_CONNECTION
    MaxQueue, MaxLost

Account ==
    [pw : Password, cert : Conn \cup {None}, suspended : BOOLEAN, nicks : SUBSET Nick,
     verified : BOOLEAN, code : BOOLEAN, reset : BOOLEAN]
\* nsuser_t: what NickServ keeps of a user
Seen == [nick : Nick, acct : Nick \cup {None}, due : Nick \cup {None}]
\* n is the name of account a, or grouped to it.
Filed(s, n, a) == s[a] # None /\ (n = a \/ n \in s[a].nicks)
\* No nick belongs to two accounts: REGISTER and GROUP refuse a nick that has an owner.
Lone(s) == \A n, a, b \in Nick : Filed(s, n, a) /\ Filed(s, n, b) => a = b
\* What a user sends: a PLAIN message, the two of SCRAM; a command to NickServ.
Data == [kind : {"plain"}, acct : Nick, pw : Password] \cup [kind : {"first"}, acct : Nick] \cup [kind : {"final"}, pw : Password]
Typed == [c : Conn, cmd : STRING, arg : Nick, pw : Password, new : Password]

ASSUME Types ==
    /\ IsFiniteSet(Conn) /\ Guest \subseteq Nick /\ Guest # {} /\ FirstNick \in [Conn -> Nick \ Guest] /\ Admin \subseteq Nick
    /\ \A p \in Plays : /\ p.start \in [Conn -> {"none", "open", "user"}]
                        /\ p.acct \in [Conn -> Nick \cup {None}] /\ p.store \in [Nick -> Account \cup {None}]
                        /\ Lone(p.store) /\ p.typed \subseteq Typed /\ \A c \in Conn : p.data[c] \cup p.pass[c] \subseteq Data
                        /\ \A c \in Conn : p.acct[c] # None => p.start[c] = "user"
                        /\ \A c, d \in {x \in Conn : p.start[x] # "none"} : FirstNick[c] = FirstNick[d] => c = d
    /\ None \notin Conn \cup Nick \cup Password \cup Account \cup Seen
    /\ {SlotMax, FailMax} \subseteq Nat \ {0} /\ Enforce \in BOOLEAN

VARIABLES
    play,      \* where the connections are at the beginning ("none", "open", "user"), their accounts, the
               \* accounts there are; the commands typed, the AUTHENTICATE payloads, mechanisms and PASS lines
               \* of each connection, what users do besides, and a bound on their moves
    conn,      \* the connections on the ircd
    up, watch, \* the services link stands; its user feed is on
    toNs, toIrc,
    hubBad,    \* g_auth_fail_tracks of the ircd
    store,     \* the accounts
    view,      \* NickServ's picture of the users (nsuser_t)
    slot,      \* g_sasl, oldest first
    nsBad,     \* g_fail of NickServ
    proved,    \* who has shown NickServ that an account is his
    excused,   \* users nobody has to rename (see Squatters)
    moves, lost

hub == <<conn, up, watch, hubBad>>
ns == <<store, view, slot, nsBad>>
ghosts == <<proved, excused>>
vars == <<play, hub, toNs, toIrc, ns, ghosts, moves, lost>>

Users == {c \in Conn : conn[c].st = "user"}
Here == {c \in Conn : conn[c].st \in {"open", "user"}}
Quiet == up /\ watch /\ toNs = << >> /\ toIrc = << >>

(***************************************************************************)
(* The ircd.                                                               *)
(***************************************************************************)
\* to_services and link_svc_user: without a service, or a feed, nobody is told.
ToServices(lines) == IF up THEN lines ELSE << >>
Feed(c, line) == IF watch /\ conn[c].st = "user" THEN <<line>> ELSE << >>
Tell(lines) == toNs' = toNs \o lines
User(c, k) == [k |-> "SVCUSER", c |-> c, nick |-> k.nick, acct |-> k.acct]

Move(a) == a \in play.acts /\ Len(toNs) < MaxQueue /\ moves < play.moves /\ moves' = moves + 1
ByUser == UNCHANGED <<up, watch, toIrc, ns, proved, lost>>
\* auth_fail_record, fail_record: failures count up to the limit.
More(n) == IF n < FailMax THEN n + 1 ELSE n
HubThrottled == hubBad >= FailMax

NoSasl(k) == [k EXCEPT !.mech = None]
Registered(k) == [k EXCEPT !.st = "user", !.pass = None]

\* cmd_send_welcome_if_ready and cmd_pass_login: a PASS becomes a PLAIN exchange that
\* registration waits for, unless SASL did it or it cannot be asked.
Welcome(c, k) ==
    LET asks == k.pass # None /\ k.acct = None /\ k.mech = None /\ up /\ ~HubThrottled IN
    IF k.st # "open" \/ ~k.ready \/ k.held THEN [conn |-> k, out |-> << >>]
    ELSE IF asks
    THEN [conn |-> [k EXCEPT !.pass = None, !.held = TRUE, !.style = "pass", !.mech = "PLAIN"],
          out |-> <<[k |-> "START", c |-> c, mech |-> "PLAIN"], [k |-> "DATA", c |-> c, data |-> k.pass]>>]
    ELSE [conn |-> Registered(k), out |-> IF watch THEN <<User(c, k)>> ELSE << >>]
Put(c, w) == conn' = [conn EXCEPT ![c] = w.conn] /\ Tell(w.out)

\* NICK, USER, CAP END: the connection is complete, or asks again.
Ready(c) ==
    /\ Move("ready") /\ conn[c].st = "open"
    /\ Put(c, Welcome(c, [conn[c] EXCEPT !.ready = TRUE]))
    /\ ByUser /\ UNCHANGED <<hubBad, excused>>

\* Someone connects; PASS comes first if it comes at all.
Connect(c, p) ==
    /\ Move("connect") /\ conn[c].st = "none"
    /\ conn' = [conn EXCEPT ![c].st = "open", ![c].pass = p,
                            ![c].nick = IF \E d \in Here : conn[d].nick = FirstNick[c] THEN None ELSE FirstNick[c]]
    /\ conn'[c].nick # None
    /\ UNCHANGED toNs /\ ByUser /\ UNCHANGED <<hubBad, excused>>

\* cmd_authenticate: begin (sasl_start), go on (sasl_data), give up.
Authenticate(c, m) ==
    /\ Move("sasl") /\ c \in Here /\ conn[c].mech = None /\ up /\ ~HubThrottled
    /\ conn' = [conn EXCEPT ![c].mech = m, ![c].style = "legacy"]
    /\ Tell(<<[k |-> "START", c |-> c, mech |-> m]>>)
    /\ ByUser /\ UNCHANGED <<hubBad, excused>>
AuthData(c, d) ==
    /\ Move("sasl") /\ c \in Here /\ conn[c].mech # None
    /\ Tell(ToServices(<<[k |-> "DATA", c |-> c, data |-> d]>>))
    /\ ByUser /\ UNCHANGED <<conn, hubBad, excused>>
AuthAbort(c) ==
    /\ Move("abort") /\ c \in Here /\ conn[c].mech # None
    /\ conn' = [conn EXCEPT ![c] = NoSasl(@)]
    /\ Tell(ToServices(<<[k |-> "ABORT", c |-> c]>>))
    /\ ByUser /\ UNCHANGED <<hubBad, excused>>

\* cmd_register; the cooldown between two is left to the user's patience.
Register(c, p) ==
    /\ Move("register") /\ c \in Users /\ up /\ conn[c].acct = None /\ conn[c].regs < RegisterMax
    /\ conn' = [conn EXCEPT ![c].regs = @ + 1, ![c].style = "legacy"]
    /\ Tell(<<[k |-> "SVCREGISTER", c |-> c, name |-> conn[c].nick, pw |-> p]>>)
    /\ ByUser /\ UNCHANGED <<hubBad, excused>>

Taken(n) == \E d \in Here : conn[d].nick = n
ChangeNick(c, n) ==
    /\ Move("nick") /\ c \in Users /\ ~Taken(n) /\ n \notin Guest
    /\ conn' = [conn EXCEPT ![c].nick = n]
    /\ Tell(Feed(c, [k |-> "SVCNICK", c |-> c, nick |-> n]))
    /\ excused' = excused \ {c}
    /\ ByUser /\ UNCHANGED hubBad
Leave(c) ==
    /\ Move("quit") /\ c \in Here
    /\ conn' = [conn EXCEPT ![c].st = "gone", ![c].mech = None, ![c].held = FALSE]
    /\ Tell(Feed(c, [k |-> "SVCQUIT", c |-> c]))
    /\ excused' = excused \ {c}
    /\ ByUser /\ UNCHANGED hubBad

\* A message to NickServ: the sender is a nick.
Say(t) ==
    /\ Len(toNs) < MaxQueue /\ moves < play.moves /\ moves' = moves + 1
    /\ t.c \in Users /\ up
    /\ Tell(<<[k |-> "PRIVMSG", nick |-> conn[t.c].nick, t |-> t]>>)
    /\ ByUser /\ UNCHANGED <<conn, hubBad, excused>>

\* Mutant: a PASS login that ends does not let the connection in.
QuietEnd(c, ok) ==
    [conn |-> [NoSasl(conn[c]) EXCEPT !.style = "legacy", !.held = IF conn[c].style = "pass" THEN FALSE ELSE @],
     out |-> << >>]

\* sasl_finish: after a PASS login the connection is welcomed.
SaslFinish(c, ok) ==
    LET k == [NoSasl(conn[c]) EXCEPT !.style = "legacy"] IN
    IF conn[c].style # "pass" THEN [conn |-> k, out |-> << >>]
    ELSE Welcome(c, [k EXCEPT !.held = FALSE])
Count(ok) == hubBad' = IF ok THEN hubBad ELSE More(hubBad)

\* cmd_services_tick: no answer in time.  NickServ is not told.
SaslTimeout(c) ==
    /\ c \in Here /\ conn[c].mech # None
    /\ Put(c, SaslFinish(c, FALSE)) /\ Count(FALSE)
    /\ UNCHANGED <<up, watch, toIrc, ns, ghosts, moves, lost>>

\* net.c's rescue of a lost password check: auth_started is not set here, so it comes
\* with the next tick, and it does not look whether the connection is complete.
Rescue(c) ==
    /\ c \in Here /\ conn[c].held
    /\ conn' = [conn EXCEPT ![c].held = FALSE]
    /\ UNCHANGED <<up, watch, hubBad, toNs, toIrc, ns, ghosts, moves, lost>>

\* A window of the failure counts is over.
Calm ==
    /\ Move("calm") /\ <<hubBad, nsBad>> # <<0, 0>>
    /\ hubBad' = 0 /\ nsBad' = 0
    /\ UNCHANGED <<conn, up, watch, toNs, toIrc, store, view, slot, ghosts, lost>>

(***************************************************************************)
(* The ircd: svc_command.  A target that is gone is passed over.           *)
(***************************************************************************)
Line(k) == up /\ toIrc # << >> /\ Head(toIrc).k = k /\ toIrc' = Tail(toIrc)
Target == Head(toIrc).c
ByHub == UNCHANGED <<up, ns, proved, moves, lost>>

HubWatch ==
    /\ Line("SVCWATCH") /\ watch' = TRUE
    /\ \E s \in [1..Cardinality(Users) -> Users] :
         /\ \A c \in Users : \E i \in DOMAIN s : s[i] = c
         /\ Tell([i \in DOMAIN s |-> User(s[i], conn[s[i]])])
    /\ ByHub /\ UNCHANGED <<conn, hubBad, excused>>

\* accounts_owner_of_nick
OwnerOf(n) ==
    IF store[n] # None THEN n
    ELSE IF \E a \in Nick : store[a] # None /\ n \in store[a].nicks
    THEN CHOOSE a \in Nick : store[a] # None /\ n \in store[a].nicks ELSE None

\* Mutant: the feed is not told of a login.
QuietLogin ==
    /\ Line("SVSLOGIN")
    /\ LET a == Head(toIrc).acct
           acts == Target \in Here /\ (a # None \/ conn[Target].acct # None) IN
       /\ conn' = IF acts THEN [conn EXCEPT ![Target].acct = a] ELSE conn
       /\ excused' = IF acts /\ a # OwnerOf(conn[Target].nick) THEN excused \cup ({Target} \cap Users) ELSE excused
    /\ ByHub /\ UNCHANGED <<watch, hubBad, toNs>>

\* SVSLOGIN: server_login, or server_logout of one who is logged in.
HubLogin ==
    /\ Line("SVSLOGIN")
    /\ LET a == Head(toIrc).acct
           acts == Target \in Here /\ (a # None \/ conn[Target].acct # None) IN
       /\ conn' = IF acts THEN [conn EXCEPT ![Target].acct = a] ELSE conn
       /\ Tell(IF acts THEN Feed(Target, [k |-> "SVCACCOUNT", c |-> Target, acct |-> a]) ELSE << >>)
       /\ excused' = IF acts /\ a # OwnerOf(conn[Target].nick) THEN excused \cup ({Target} \cap Users) ELSE excused
    /\ ByHub /\ UNCHANGED <<watch, hubBad>>

\* Mutant: a nick is forced on its target whoever has it.
ForceNick ==
    /\ Line("SVSNICK")
    /\ LET n == Head(toIrc).nick
           acts == Target \in Users IN
       /\ conn' = IF acts THEN [conn EXCEPT ![Target].nick = n] ELSE conn
       /\ Tell(IF acts THEN Feed(Target, [k |-> "SVCNICK", c |-> Target, nick |-> n]) ELSE << >>)
       /\ excused' = IF acts THEN excused \ {Target} ELSE excused \cup ({Target} \cap Users)
    /\ ByHub /\ UNCHANGED <<watch, hubBad>>

\* SVSNICK: force_nick_change, if the nick is free.
HubSvsnick ==
    /\ Line("SVSNICK")
    /\ LET n == Head(toIrc).nick
           acts == Target \in Users /\ (~Taken(n) \/ conn[Target].nick = n) IN
       /\ conn' = IF acts THEN [conn EXCEPT ![Target].nick = n] ELSE conn
       /\ Tell(IF acts THEN Feed(Target, [k |-> "SVCNICK", c |-> Target, nick |-> n]) ELSE << >>)
       /\ excused' = IF acts THEN excused \ {Target} ELSE excused \cup ({Target} \cap Users)
    /\ ByHub /\ UNCHANGED <<watch, hubBad>>

HubKill ==
    /\ Line("KILL")
    /\ IF Target \notin Here THEN UNCHANGED <<conn, toNs, excused>>
       ELSE /\ conn' = [conn EXCEPT ![Target].st = "gone", ![Target].mech = None, ![Target].held = FALSE]
            /\ Tell(Feed(Target, [k |-> "SVCQUIT", c |-> Target]))
            /\ excused' = excused \ {Target}
    /\ ByHub /\ UNCHANGED <<watch, hubBad>>

\* SVCSASL: the next challenge goes to the client; a verdict ends the exchange that is
\* running now, if one is.
HubChallenge == Line("CHALLENGE") /\ ByHub /\ UNCHANGED <<conn, watch, hubBad, toNs, excused>>
HubVerdict ==
    /\ Line("VERDICT")
    /\ IF Target \notin Here \/ conn[Target].mech = None THEN UNCHANGED <<conn, hubBad, toNs>>
       ELSE Put(Target, SaslFinish(Target, Head(toIrc).ok)) /\ Count(Head(toIrc).ok)
    /\ ByHub /\ UNCHANGED <<watch, excused>>
HubRegResult ==
    /\ Line("SVCREGRESULT")
    /\ conn' = IF Target \in Here THEN [conn EXCEPT ![Target].style = "legacy"] ELSE conn
    /\ ByHub /\ UNCHANGED <<watch, hubBad, toNs, excused>>

(***************************************************************************)
(* NickServ: accounts.                                                     *)
(***************************************************************************)
Throttled == nsBad >= FailMax
Fresh(p) == [pw |-> p, cert |-> None, suspended |-> FALSE, nicks |-> {}, verified |-> FALSE,
             code |-> FALSE, reset |-> FALSE]
Suspended(a) == a # None /\ store[a].suspended
\* check_password
Checked(a, p) == IF OwnerOf(a) # None /\ store[OwnerOf(a)].pw = p THEN OwnerOf(a) ELSE None

\* login: the line, and the picture, which runs ahead of the hub; the deadline goes
\* with any account.
LoginLine(c, a) == [k |-> "SVSLOGIN", c |-> c, acct |-> a]
LoggedIn(v, c, a) ==
    IF v[c] = None THEN v
    ELSE [v EXCEPT ![c].acct = a, ![c].due = IF a # None THEN None ELSE @]
\* logout_all
On(v, a) == {c \in Conn : v[c] # None /\ v[c].acct = a}
Seqs(S) == {s \in [1..Cardinality(S) -> S] : \A x \in S : \E i \in DOMAIN s : s[i] = x}
LogoutLines(a) == LET s == CHOOSE q \in Seqs(On(view, a)) : TRUE IN [i \in DOMAIN s |-> LoginLine(s[i], None)]
LogoutAll(a) == [c \in Conn |-> IF c \in On(view, a) THEN [view[c] EXCEPT !.acct = None] ELSE view[c]]

\* enforce_check
Due(n, a) == IF Enforce /\ OwnerOf(n) # None /\ OwnerOf(n) # a THEN OwnerOf(n) ELSE None

(***************************************************************************)
(* NickServ: the user feed and SASL (ns_event).                            *)
(***************************************************************************)
Heard(k) == up /\ toNs # << >> /\ Head(toNs).k = k /\ toNs' = Tail(toNs)
Out(lines) == toIrc' = toIrc \o lines
ByNs == UNCHANGED <<hub, moves, lost>>
Msg == Head(toNs)

\* ev_user: everyone after SVCWATCH, and who registers.
NsUser ==
    /\ Heard("SVCUSER")
    /\ LET m == Msg
           same == view[m.c] # None /\ view[m.c].nick = m.nick IN
       view' = [view EXCEPT ![m.c] = [nick |-> m.nick, acct |-> m.acct,
                                      due |-> IF same THEN view[m.c].due ELSE Due(m.nick, m.acct)]]
    /\ Out(<< >>) /\ ByNs /\ UNCHANGED <<store, slot, nsBad, ghosts>>

\* Mutant: a new nick is not looked at.
NickOnly ==
    /\ Heard("SVCNICK")
    /\ view' = IF view[Msg.c] = None THEN view ELSE [view EXCEPT ![Msg.c].nick = Msg.nick]
    /\ Out(<< >>) /\ ByNs /\ UNCHANGED <<store, slot, nsBad, ghosts>>

NsNick ==
    /\ Heard("SVCNICK")
    /\ view' = IF view[Msg.c] = None THEN view
               ELSE [view EXCEPT ![Msg.c].nick = Msg.nick, ![Msg.c].due = Due(Msg.nick, view[Msg.c].acct)]
    /\ Out(<< >>) /\ ByNs /\ UNCHANGED <<store, slot, nsBad, ghosts>>
NsQuit ==
    /\ Heard("SVCQUIT") /\ view' = [view EXCEPT ![Msg.c] = None]
    /\ Out(<< >>) /\ ByNs /\ UNCHANGED <<store, slot, nsBad, ghosts>>
NsAccount ==
    /\ Heard("SVCACCOUNT")
    /\ view' = IF view[Msg.c] = None THEN view
               ELSE [view EXCEPT ![Msg.c].acct = Msg.acct,
                                 ![Msg.c].due = IF Msg.acct = @ THEN None ELSE @]
    /\ Out(<< >>) /\ ByNs /\ UNCHANGED <<store, slot, nsBad, ghosts>>

\* The slots of g_sasl (sasl_find): one for each connection; the oldest makes room.
SlotOf(c) == {i \in DOMAIN slot : slot[i].c = c}
Without(s, i) == SubSeq(s, 1, i - 1) \o SubSeq(s, i + 1, Len(s))
Cleared(c) == IF SlotOf(c) = {} THEN slot ELSE Without(slot, CHOOSE i \in SlotOf(c) : TRUE)
Slot(c) == slot[CHOOSE i \in SlotOf(c) : TRUE]
WithSlot(x) == [i \in DOMAIN slot |-> IF slot[i].c = x.c THEN x ELSE slot[i]]

\* Mutant: a slot that changes hands keeps what was in it.
Recycled(c, m) ==
    IF SlotOf(c) # {} THEN WithSlot([Slot(c) EXCEPT !.mech = m])
    ELSE IF Len(slot) < SlotMax THEN Append(slot, [c |-> c, mech |-> m, step |-> 0, acct |-> None])
    ELSE Append(Tail(slot), [slot[1] EXCEPT !.c = c])

\* Mutant: there is always room.
Unbounded(c, m) ==
    IF SlotOf(c) # {} THEN WithSlot([Slot(c) EXCEPT !.mech = m])
    ELSE Append(slot, [c |-> c, mech |-> m, step |-> 0, acct |-> None])

\* ev_sasl S: a slot that is there is taken over with its step and account.
Started(c, m) ==
    IF SlotOf(c) # {} THEN WithSlot([Slot(c) EXCEPT !.mech = m])
    ELSE Append(IF Len(slot) < SlotMax THEN slot ELSE Tail(slot), [c |-> c, mech |-> m, step |-> 0, acct |-> None])
NsStart ==
    /\ Heard("START") /\ slot' = Started(Msg.c, Msg.mech)
    /\ Out(<< >>) /\ ByNs /\ UNCHANGED <<store, view, nsBad, ghosts>>
NsAbort ==
    /\ Heard("ABORT") /\ slot' = Cleared(Msg.c)
    /\ Out(<< >>) /\ ByNs /\ UNCHANGED <<store, view, nsBad, ghosts>>
\* ns_tick: a slot nobody came back to
NsAbandon ==
    /\ slot # << >> /\ \E i \in DOMAIN slot : slot' = Without(slot, i)
    /\ UNCHANGED <<hub, toNs, toIrc, store, view, nsBad, ghosts, moves, lost>>

\* sasl_done: first the login, then the verdict; the slot is cleared.  The session is
\* named by the connection, which has no UID in the picture.
Verdict(c, ok) == [k |-> "VERDICT", c |-> c, ok |-> ok]
Done(c, a) ==
    /\ slot' = Cleared(c)
    /\ Out((IF a # None THEN <<LoginLine(c, a)>> ELSE << >>) \o <<Verdict(c, a # None)>>)
    /\ nsBad' = IF a = None THEN More(nsBad) ELSE nsBad
Go(x) == slot' = WithSlot(x) /\ Out(<<[k |-> "CHALLENGE", c |-> x.c]>>) /\ UNCHANGED nsBad
Proves(c, a) == proved' = IF a = None THEN proved ELSE proved \cup {<<c, a>>}

\* A line for an exchange NickServ does not know.
NsUnknown ==
    /\ Heard("DATA") /\ SlotOf(Msg.c) = {} /\ Out(<<Verdict(Msg.c, FALSE)>>)
    /\ ByNs /\ UNCHANGED <<store, view, slot, nsBad, ghosts>>
DataFor(m) == Heard("DATA") /\ SlotOf(Msg.c) # {} /\ Slot(Msg.c).mech = m /\ ByNs /\ UNCHANGED <<store, view, excused>>

\* sasl_plain
NsPlain ==
    /\ DataFor("PLAIN")
    /\ LET d == Msg.data
           a == IF d.kind = "plain" /\ ~Throttled THEN Checked(d.acct, d.pw) ELSE None
           b == IF Suspended(a) THEN None ELSE a IN
       Done(Msg.c, b) /\ Proves(Msg.c, b)
\* sasl_scram: the account is named (and looked at) first, proved next, logged in last.
NsScramFirst ==
    /\ DataFor("SCRAM") /\ Slot(Msg.c).step = 0 /\ UNCHANGED proved
    /\ LET a == IF Msg.data.kind = "first" THEN OwnerOf(Msg.data.acct) ELSE None IN
       IF a = None \/ Suspended(a) THEN Done(Msg.c, None)
       ELSE Go([Slot(Msg.c) EXCEPT !.step = 1, !.acct = <<a, store[a].pw>>])
NsScramFinal ==
    /\ DataFor("SCRAM") /\ Slot(Msg.c).step = 1
    /\ LET v == Slot(Msg.c).acct IN
       IF Msg.data.kind = "final" /\ Msg.data.pw = v[2]
       THEN Go([Slot(Msg.c) EXCEPT !.step = 2]) /\ Proves(Msg.c, v[1])
       ELSE Done(Msg.c, None) /\ UNCHANGED proved
NsScramAck ==
    /\ DataFor("SCRAM") /\ Slot(Msg.c).step = 2
    /\ Done(Msg.c, Slot(Msg.c).acct[1]) /\ UNCHANGED proved
NsExternal ==
    /\ DataFor("EXTERNAL")
    /\ LET S == {a \in Nick : store[a] # None /\ store[a].cert = Msg.c}
           a == IF S = {} THEN None ELSE CHOOSE x \in S : TRUE
           b == IF Suspended(a) THEN None ELSE a IN
       Done(Msg.c, b) /\ Proves(Msg.c, b)

(***************************************************************************)
(* NickServ: what it is told (ns_privmsg).                                 *)
(***************************************************************************)
\* do_register: registrations spend the same budget as wrong passwords.
MayRegister(n) == OwnerOf(n) = None /\ ~Throttled
Holders(n) == {c \in Users : conn[c].nick = n}

\* ev_register
NsRegister ==
    /\ Heard("SVCREGISTER")
    /\ LET ok == MayRegister(Msg.name) IN
       /\ store' = IF ok THEN [store EXCEPT ![Msg.name] = Fresh(Msg.pw)] ELSE store
       /\ nsBad' = IF ok THEN More(nsBad) ELSE nsBad
       /\ Out((IF ok THEN <<LoginLine(Msg.c, Msg.name)>> ELSE << >>) \o <<[k |-> "SVCREGRESULT", c |-> Msg.c]>>)
       /\ Proves(Msg.c, IF ok THEN Msg.name ELSE None)
       /\ excused' = IF ok THEN excused \cup Holders(Msg.name) ELSE excused
    /\ ByNs /\ UNCHANGED <<view, slot>>

\* Who a message is from, by nick.
Sender == {c \in Conn : view[c] # None /\ view[c].nick = Msg.nick}
Cmd == Msg.t
Me == CHOOSE c \in Sender : TRUE
Mine == view[Me].acct

\* The checks of each command, in the order of the code; a wrong password is counted.
Asked(k) == Heard("PRIVMSG") /\ Sender # {} /\ Cmd.cmd = k /\ ByNs
Owns(c, n) == view[c].acct # None /\ OwnerOf(n) = view[c].acct
Found(n) == {c \in Conn : view[c] # None /\ view[c].nick = n}
CheckedHere == IF Cmd.cmd = "IDENTIFY" THEN Checked(Cmd.arg, Cmd.pw) ELSE Checked(Mine, Cmd.pw)
WrongPassword ==
    \/ /\ Cmd.cmd = "IDENTIFY" /\ Mine = None /\ ~Throttled /\ ~Suspended(OwnerOf(Cmd.arg))
       /\ CheckedHere = None
    \/ Cmd.cmd \in {"SET PASSWORD", "DROP"} /\ Mine # None /\ ~Throttled /\ CheckedHere = None
    \/ Cmd.cmd = "RESETPASS" /\ (Throttled \/ OwnerOf(Cmd.arg) = None \/ ~store[OwnerOf(Cmd.arg)].reset)
Valid ==
    \/ Cmd.cmd = "REGISTER" /\ Mine = None /\ MayRegister(view[Me].nick)
    \/ /\ Cmd.cmd = "IDENTIFY" /\ Mine = None /\ ~Throttled /\ ~Suspended(OwnerOf(Cmd.arg))
       /\ CheckedHere # None
    \/ Cmd.cmd \in {"SET PASSWORD", "DROP"} /\ Mine # None /\ ~Throttled /\ CheckedHere # None
    \/ /\ Cmd.cmd = "GHOST" /\ Mine # None /\ Found(Cmd.arg) \notin {{}, {Me}}
       /\ Owns(Me, Cmd.arg) \/ \E c \in Found(Cmd.arg) : view[c].acct = Mine
    \/ Cmd.cmd = "REGAIN" /\ Owns(Me, Cmd.arg) /\ Found(Cmd.arg) # {Me}
    \/ Cmd.cmd = "RESETPASS" /\ ~WrongPassword
    \/ Cmd.cmd = "RESET MAIL" /\ OwnerOf(Cmd.arg) # None /\ store[OwnerOf(Cmd.arg)].verified
    \/ Cmd.cmd = "GROUP" /\ Mine # None /\ store[Mine] # None /\ OwnerOf(view[Me].nick) = None
    \/ Cmd.cmd = "UNGROUP" /\ Mine # None /\ store[Mine] # None /\ Cmd.arg \in store[Mine].nicks
    \/ Cmd.cmd \in {"CERT ADD", "CERT DEL", "SET EMAIL"} /\ Mine # None /\ store[Mine] # None
    \/ Cmd.cmd = "VERIFY" /\ Mine # None /\ store[Mine] # None /\ store[Mine].code
    \/ Cmd.cmd = "LOGOUT" /\ Mine # None
    \/ Cmd.cmd \in {"SUSPEND", "UNSUSPEND", "FDROP", "SASET"} /\ Mine \in Admin /\ OwnerOf(Cmd.arg) # None
NsRefuse ==
    /\ Heard("PRIVMSG") /\ ~(Sender # {} /\ Valid)
    /\ nsBad' = IF Sender # {} /\ WrongPassword THEN More(nsBad) ELSE nsBad
    /\ Out(<< >>) /\ ByNs /\ UNCHANGED <<store, view, slot, ghosts>>
Told(k) == Asked(k) /\ Valid
Keep == UNCHANGED <<slot, nsBad>>

NsCmdRegister ==
    /\ Told("REGISTER") /\ UNCHANGED slot /\ nsBad' = More(nsBad)
    /\ LET n == view[Me].nick IN
       /\ store' = [store EXCEPT ![n] = Fresh(Cmd.pw)]
       /\ view' = LoggedIn(view, Me, n) /\ Out(<<LoginLine(Me, n)>>)
       /\ Proves(Cmd.c, n) /\ excused' = excused \cup Holders(n)
NsIdentify ==
    /\ Told("IDENTIFY") /\ Keep /\ UNCHANGED <<store, excused>>
    /\ view' = LoggedIn(view, Me, CheckedHere) /\ Out(<<LoginLine(Me, CheckedHere)>>)
    /\ Proves(Cmd.c, CheckedHere)
NsLogout ==
    /\ Told("LOGOUT") /\ Keep /\ UNCHANGED <<store, ghosts>>
    /\ view' = LoggedIn(view, Me, None) /\ Out(<<LoginLine(Me, None)>>)
NsGhost ==
    /\ Told("GHOST") /\ Keep /\ UNCHANGED <<store, view, ghosts>>
    /\ Out(<<[k |-> "KILL", c |-> CHOOSE c \in Found(Cmd.arg) : TRUE]>>)

\* guest_nick
GuestNick == CHOOSE g \in Guest : Found(g) = {} \/ \A h \in Guest : Found(h) # {}
Rename(c, n) == [k |-> "SVSNICK", c |-> c, nick |-> n]
\* cmd_regain: a holder on another server has to go, one on the same is renamed.
NsRegain ==
    /\ Told("REGAIN") /\ Keep /\ UNCHANGED <<store, view, ghosts>>
    /\ Out(IF \E t \in Found(Cmd.arg) : (t \in Far) # (Me \in Far)
           THEN <<[k |-> "KILL", c |-> CHOOSE t \in Found(Cmd.arg) : TRUE]>>
           ELSE IF Found(Cmd.arg) = {} THEN <<Rename(Me, Cmd.arg)>>
           ELSE <<Rename(CHOOSE t \in Found(Cmd.arg) : TRUE, GuestNick), Rename(Me, Cmd.arg)>>)

\* accounts_set_hash: a pending reset is moot.
Rekeyed(a, p) == [store EXCEPT ![a].pw = p, ![a].reset = FALSE]
NsSetPassword ==
    /\ Told("SET PASSWORD") /\ Keep /\ Out(<< >>) /\ UNCHANGED <<view, ghosts>>
    /\ store' = Rekeyed(OwnerOf(Mine), Cmd.new)
NsResetMail ==
    /\ Told("RESET MAIL") /\ Keep /\ Out(<< >>) /\ UNCHANGED <<view, ghosts>>
    /\ store' = [store EXCEPT ![OwnerOf(Cmd.arg)].reset = TRUE]
\* cmd_resetpass: whoever knew the old password is out.
NsResetPass ==
    /\ Told("RESETPASS") /\ Keep
    /\ LET a == OwnerOf(Cmd.arg)
           v == LogoutAll(a)
           in == v[Me].acct = None /\ ~Suspended(a) IN
       /\ store' = Rekeyed(a, Cmd.new)
       /\ view' = IF in THEN LoggedIn(v, Me, a) ELSE v
       /\ Out(LogoutLines(a) \o IF in THEN <<LoginLine(Me, a)>> ELSE << >>)
       /\ Proves(Cmd.c, IF in THEN a ELSE None)
       /\ UNCHANGED excused
NsSetEmail ==
    /\ Told("SET EMAIL") /\ Keep /\ Out(<< >>) /\ UNCHANGED <<view, ghosts>>
    /\ store' = [store EXCEPT ![Mine].code = TRUE]
NsVerify ==
    /\ Told("VERIFY") /\ Keep /\ Out(<< >>) /\ UNCHANGED <<view, ghosts>>
    /\ store' = [store EXCEPT ![Mine].verified = TRUE, ![Mine].code = FALSE]
NsCert ==
    /\ \/ Told("CERT ADD") /\ store' = [store EXCEPT ![Mine].cert = Me]
       \/ Told("CERT DEL") /\ store' = [store EXCEPT ![Mine].cert = None]
    /\ Keep /\ Out(<< >>) /\ UNCHANGED <<view, ghosts>>
NsGroup ==
    /\ Told("GROUP") /\ Keep /\ Out(<< >>) /\ UNCHANGED <<view, proved>>
    /\ store' = [store EXCEPT ![Mine].nicks = @ \cup {view[Me].nick}]
    /\ excused' = excused \cup Holders(view[Me].nick)
NsUngroup ==
    /\ Told("UNGROUP") /\ Keep /\ Out(<< >>) /\ UNCHANGED <<view, ghosts>>
    /\ store' = [store EXCEPT ![Mine].nicks = @ \ {Cmd.arg}]

\* DROP, FDROP and SUSPEND log everybody out that the picture shows.
LoggedOut(a) == view' = LogoutAll(a) /\ Out(LogoutLines(a)) /\ Keep /\ UNCHANGED ghosts
NsDrop ==
    \/ Told("DROP") /\ LoggedOut(OwnerOf(Mine)) /\ store' = [store EXCEPT ![OwnerOf(Mine)] = None]
    \/ Told("FDROP") /\ LoggedOut(OwnerOf(Cmd.arg)) /\ store' = [store EXCEPT ![OwnerOf(Cmd.arg)] = None]
NsSuspend ==
    /\ Told("SUSPEND") /\ LoggedOut(OwnerOf(Cmd.arg))
    /\ store' = [store EXCEPT ![OwnerOf(Cmd.arg)].suspended = TRUE]
NsUnsuspend ==
    /\ Told("UNSUSPEND") /\ Keep /\ Out(<< >>) /\ UNCHANGED <<view, ghosts>>
    /\ store' = [store EXCEPT ![OwnerOf(Cmd.arg)].suspended = FALSE]
NsSaset ==
    /\ Told("SASET") /\ Keep /\ Out(<< >>) /\ UNCHANGED <<view, ghosts>>
    /\ store' = Rekeyed(OwnerOf(Cmd.arg), Cmd.new)

\* ns_tick: the time for logging in is over.
NsEnforce ==
    /\ up /\ \E c \in Conn :
         /\ view[c] # None /\ view[c].due # None
         /\ view' = [view EXCEPT ![c].due = None] /\ Out(<<Rename(c, GuestNick)>>)
    /\ UNCHANGED <<hub, toNs, store, slot, nsBad, ghosts, moves, lost>>

(***************************************************************************)
(* The link, and the specification.                                        *)
(***************************************************************************)
LoseLink ==
    /\ up /\ lost < MaxLost /\ lost' = lost + 1
    /\ up' = FALSE /\ watch' = FALSE /\ toNs' = << >> /\ toIrc' = << >>
    /\ UNCHANGED <<conn, hubBad, ns, ghosts, moves>>
\* ns_session_start: a new picture, no exchanges.
LinkUp ==
    /\ ~up /\ up' = TRUE
    /\ view' = [c \in Conn |-> None] /\ slot' = << >>
    /\ Out(<<[k |-> "SVCWATCH"]>>) /\ excused' = {}
    /\ UNCHANGED <<conn, watch, hubBad, toNs, store, nsBad, proved, moves, lost>>

Init ==
    /\ play \in Plays
    /\ \E p \in [Conn -> {None} \cup UNION {play.pass[c] : c \in Conn}] :
       /\ \A c \in Conn : p[c] \in IF play.start[c] = "open" /\ play.pass[c] # {} THEN play.pass[c] ELSE {None}
       /\ conn = [c \in Conn |->
                 [st |-> play.start[c], nick |-> IF play.start[c] = "none" THEN None ELSE FirstNick[c],
                  acct |-> play.acct[c], mech |-> None, style |-> "legacy", held |-> FALSE, pass |-> p[c],
                  ready |-> play.start[c] = "user", regs |-> 0]]
    /\ up = TRUE /\ watch = TRUE /\ toNs = << >> /\ toIrc = << >> /\ hubBad = 0
    /\ store = play.store
    /\ view = [c \in Conn |-> IF play.start[c] = "user"
                               THEN [nick |-> FirstNick[c], acct |-> play.acct[c], due |-> Due(FirstNick[c], play.acct[c])]
                               ELSE None]
    /\ slot = << >> /\ nsBad = 0
    /\ proved = {<<c, play.acct[c]>> : c \in Conn} /\ excused = {} /\ moves = 0 /\ lost = 0

ByUsers ==
    \/ \E t \in play.typed : Say(t)
    \/ \E c \in Conn :
        \/ Ready(c) \/ AuthAbort(c) \/ Leave(c)
        \/ \E p \in play.pass[c] \cup {None} : Connect(c, p)
        \/ \E m \in play.mech[c] : Authenticate(c, m)
        \/ \E d \in play.data[c] : AuthData(c, d)
        \/ \E p \in Password : Register(c, p)
        \/ \E n \in Nick : ChangeNick(c, n)
HubStep ==
    \/ HubWatch \/ HubLogin \/ HubSvsnick \/ HubKill \/ HubChallenge \/ HubVerdict \/ HubRegResult
NsStep ==
    \/ NsUser \/ NsNick \/ NsQuit \/ NsAccount \/ NsStart \/ NsAbort \/ NsUnknown \/ NsPlain
    \/ NsScramFirst \/ NsScramFinal \/ NsScramAck \/ NsExternal \/ NsRegister \/ NsRefuse
    \/ NsCmdRegister \/ NsIdentify \/ NsLogout \/ NsGhost \/ NsRegain \/ NsSetPassword \/ NsResetMail
    \/ NsResetPass \/ NsSetEmail \/ NsVerify \/ NsCert \/ NsGroup \/ NsUngroup \/ NsDrop \/ NsSuspend
    \/ NsUnsuspend \/ NsSaset
Timers == (\E c \in Conn : SaslTimeout(c) \/ Rescue(c)) \/ NsAbandon \/ NsEnforce \/ Calm

Next == (ByUsers \/ HubStep \/ NsStep \/ Timers \/ LoseLink \/ LinkUp) /\ UNCHANGED play
Spec == Init /\ [][Next]_vars
\* The tick of the event loop comes; that the services answer is not assumed.
FairSpec == Spec /\ \A c \in Conn : WF_vars(SaslTimeout(c) /\ UNCHANGED play)

(***************************************************************************)
(* Properties.                                                             *)
(***************************************************************************)
\* All state is of its type, and there are never more exchanges than slots (g_sasl).
TypeOK ==
    /\ \A c \in Conn : /\ conn[c].st \in {"none", "open", "user", "gone"} /\ conn[c].acct \in Nick \cup {None}
                       /\ view[c] = None \/ view[c].nick \in Nick
    /\ store \in [Nick -> Account \cup {None}]
    /\ Len(slot) <= SlotMax /\ \A i, j \in DOMAIN slot : slot[i].c = slot[j].c => i = j
    /\ ~up => toNs = << >> /\ toIrc = << >>

\* Whoever is logged in to an account has shown on that very connection that it is his:
\* answers of interleaved exchanges, of aborted and timed out ones, of slots that change
\* hands, and commands of somebody whose nick has moved on meanwhile never log in
\* somebody else (sasl_find, sasl_done, svc_command, ns_privmsg).
Earned == \A c \in Here : conn[c].acct # None => <<c, conn[c].acct>> \in proved

\* When nothing is on the link, NickServ's picture is the hub's: who is there, under
\* which nick, logged in to what, although login writes it ahead of the hub.
ViewAgrees ==
    Quiet => \A c \in Conn :
        IF c \in Users THEN view[c] # None /\ view[c].nick = conn[c].nick /\ view[c].acct = conn[c].acct
        ELSE view[c] = None

\* When nothing is on the link, a user on somebody's nick has a deadline, whichever way
\* he came to it, unless he was there first, changed his account there (which is not
\* looked at), or the guest nick for him was taken (enforce_check).
Squatters ==
    Quiet /\ Enforce => \A c \in Users \ excused :
        OwnerOf(conn[c].nick) \in {None, conn[c].acct} \/ view[c].due # None

\* No two connections ever have one nick, whatever SVSNICK, REGAIN and
\* the users' own NICKs did at the same time (force_nick_change).
NicksApart == \A c, d \in Here : conn[c].nick = conn[d].nick => c = d

\* A connection whose PASS login is being asked about gets in or goes, or ends the
\* exchange itself, also when the services go away in the middle (sasl_finish).
PassEnds == \A c \in Conn :
    (conn[c].style = "pass" /\ conn[c].mech # None) ~> (conn[c].st # "open" \/ (conn[c].mech = None /\ conn[c].style = "pass"))

\* accounts.h says of a suspension: "every login to the account is refused while set".
\* NickServ orders no login to an account that is suspended.
NoSuspendedLogin ==
    [][\A i \in Len(toIrc) + 1..Len(toIrc') :
         toIrc'[i].k = "SVSLOGIN" => ~Suspended(toIrc'[i].acct)]_vars

\* cmd.c says of a PASS login in flight: "same hold as a SASL one".  Nobody is registered
\* while his PASS is being checked.
PassHolds == \A c \in Conn : conn[c].style = "pass" /\ conn[c].mech # None => conn[c].st = "open"

\* The hub has no two users of one nick, the number of exchanges is bounded, and NickServ's
\* picture, rebuilt from lines that can be lost, is the hub's once the link is quiet.
PicturesAgree == TypeOK /\ NicksApart /\ ViewAgrees
=============================================================================
