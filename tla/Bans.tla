-------------------------------- MODULE Bans --------------------------------
(***************************************************************************)
(* Server bans: K-, G- and Z-lines, SHUNs and ELINEs of two linked servers *)
(* (server.c, cmd_oper.c, netsync.c) and everything that sets one by       *)
(* itself: connect floods and DNSBL verdicts (net.c), the proxy scan       *)
(* (protection.c) and the spam filter (spam.c).  A connection is checked   *)
(* when it is accepted, when only its address is known, and again when it  *)
(* registers; a new line disconnects whom it hits; G-lines and SHUNs       *)
(* travel, and are exchanged when a link comes up.                         *)
(*                                                                         *)
(* A mask is known by whom it can hit: by address, by resolved name, or by *)
(* ident.  Of the list order only the first match of UNKLINE shows, and    *)
(* that is any one here.                                                   *)
(***************************************************************************)
EXTENDS Integers, FiniteSets, Sequences

CONSTANTS
    Servers, Users, Opers, Home, \* users and the server each connects to
    Masks, Addr, Name, Ident,    \* whom a mask hits by address, by name; the ident it hits
    Idents, Plain,               \* idents, the one everybody connects with
    Own,                         \* the mask that is a user's own address
    Types,                       \* the line types each operator sets in this instance
    Comers,                      \* the users that connect, leave and draw the server's own lines
    Durations,                   \* what operators give; 0: for ever
    AutoFor,                     \* what the configuration gives for the server's own lines
    ReverseNames,                \* users whose address has a name
    MaxClock, MaxLines,
    MaxEvents,                   \* removals, splits and changes of ident
    None

ASSUME BanTypes ==
    /\ IsFiniteSet(Servers) /\ Cardinality(Servers) = 2 /\ Opers \subseteq Users /\ Home \in [Users -> Servers]
    /\ Addr \in [Masks -> SUBSET Users] /\ Name \in [Masks -> SUBSET Users] /\ Ident \in [Masks -> Idents \cup {None}]
    /\ Plain \in Idents /\ Own \in [Users -> Masks] /\ \A u \in Users : u \in Addr[Own[u]]
    /\ \A u \in Users : Name[Own[u]] = {} /\ Ident[Own[u]] = None  \* an address is no name and has no ident
    /\ Types \in [Opers -> SUBSET {"K", "G", "Z", "S", "E"}] /\ Comers \subseteq Users \ Opers /\ Durations \cup {AutoFor} \subseteq Nat
    /\ {MaxClock, MaxLines, MaxEvents} \subseteq Nat /\ None \notin Users

VARIABLES
    st,      \* a user's connection: off, conn (accepted), on (registered), quit (marked to be closed)
    named, ident,
    lines,   \* klines of a server: expiry by type and mask
    shun,    \* the cached verdict of server_is_shunned, None when kline_gen has moved on
    up, wire,\* whether the two are linked; the lines on their way to a server
    now,
    spared,  \* a user and a line on its server that it may stay connected under
    torn,    \* network-wide lines set and removed at once on the two sides, or removed on one
    nlines, events
conns == <<st, named, ident>>
net == <<up, wire>>
counts == <<nlines, events>>
vars == <<conns, lines, shun, net, now, spared, torn, counts>>

Bans == {"K", "G", "Z"}
Wide == {"G", "S"}
Line == {"K", "G", "Z", "S", "E"} \X Masks
Other(s) == CHOOSE t \in Servers : t # s
At(f, x, v) == [y \in DOMAIN f \cup {x} |-> IF y = x THEN v ELSE f[y]]
Less(f, S) == [y \in DOMAIN f \ S |-> f[y]]
Event == events < MaxEvents /\ events' = events + 1
Local(s) == {u \in Users : Home[u] = s}

(***************************************************************************)
(* The list of one server.                                                 *)
(***************************************************************************)
\* server_line_mask_hits: a Z-line goes by the address only; user is what USER or identd gave, if it came.
Hits(t, m, u, user, name) ==
    \/ u \in Addr[m]
    \/ t # "Z" /\ ((user # None /\ user = Ident[m]) \/ (name /\ u \in Name[m]))
HitsNow(t, m, u) == Hits(t, m, u, ident[u], named[u])

\* An ELINE hits the user, too: server_client_eline_exempt, and the inner loop of server_kline_match.
Exempt(ls, u, user, name) == \E l \in DOMAIN ls : l[1] = "E" /\ Hits("K", l[2], u, user, name)
\* server_kline_match
Matches(ls, u, user, name) ==
    \E l \in DOMAIN ls :
      /\ l[1] \in Bans /\ Hits(l[1], l[2], u, user, name)
      /\ l[1] = "Z" \/ ~Exempt(ls, u, user, name)

\* Mutant: a refresh sets the expiry it is given.
ResetExpiry(old, new) == new

\* Of two expiries the later; 0 is for ever.
Longer(old, new) == IF old = 0 \/ new = 0 THEN 0 ELSE IF new > old THEN new ELSE old

Expiry(d) == IF d > 0 THEN now + d ELSE 0
\* server_kline_add: an identical line is refreshed.
Added(ls, l, exp) == At(ls, l, IF l \in DOMAIN ls THEN Longer(ls[l], exp) ELSE exp)

Expired(ls) == {l \in DOMAIN ls : ls[l] # 0 /\ ls[l] <= now}
\* server_kline_prune_expired
Pruned(ls) == Less(ls, Expired(ls))

\* kline_gen moves on: every verdict of this server is stale.
Bumped(s) == [u \in Users |-> IF Home[u] = s THEN None ELSE shun[u]]
\* The lines of a server that hit a registered user of it.
Under(s, u) == {<<u, l[1], l[2]>> : l \in {k \in DOMAIN lines[s] : st[u] = "on" /\ k[1] \in Bans /\ HitsNow(k[1], k[2], u)}}
Unexempted(s) == UNION {Under(s, u) : u \in {v \in Local(s) : Exempt(lines[s], v, ident[v], named[v])}}

\* server_kline_enforce: everyone connected whom the mask hits is marked, registered or not.
Enforced(s, ls, t, m, except) ==
    [u \in Users |->
       IF /\ Home[u] = s /\ st[u] \in {"conn", "on"} /\ u # except
          /\ HitsNow(t, m, u) /\ (t = "Z" \/ ~Exempt(ls, u, ident[u], named[u]))
       THEN "quit" ELSE st[u]]

(***************************************************************************)
(* What travels.                                                           *)
(***************************************************************************)
\* Mutant: nobody asks whether there is a link.
SendAnyway(s, x) == wire' = [wire EXCEPT ![Other(s)] = Append(@, x)]

Send(s, x) == wire' = IF up THEN [wire EXCEPT ![Other(s)] = Append(@, x)] ELSE wire
InFlight(s, l, kind) == \E i \in DOMAIN wire[s] : wire[s][i].kind = kind /\ wire[s][i].line = l

\* An add that crosses a removal of the same line, or a removal that crosses an add or finds the
\* other side away, leaves the two sides with different lists.
TornByAdd(s, l) == IF InFlight(s, l, "un") THEN {l} ELSE {}
TornByRemoval(s, l) == IF ~up \/ InFlight(s, l, "add") THEN {l} ELSE {}

(***************************************************************************)
(* Operators.                                                              *)
(***************************************************************************)
\* line_common: what has expired goes first; the line is added, sent and enforced, but not on its setter.
SetLine(o, t, m, d) ==
    LET s == Home[o]
        ls == Added(Pruned(lines[s]), <<t, m>>, Expiry(d))
    IN /\ st[o] = "on" /\ t \in Types[o]
       /\ nlines < MaxLines /\ nlines' = nlines + 1
       /\ lines' = [lines EXCEPT ![s] = ls]
       /\ shun' = Bumped(s)
       /\ IF t \in Wide THEN Send(s, [kind |-> "add", line |-> <<t, m>>, exp |-> Expiry(d)]) /\ torn' = torn \cup TornByAdd(s, <<t, m>>)
          ELSE UNCHANGED <<wire, torn>>
       /\ st' = IF t \in Bans THEN Enforced(s, ls, t, m, o) ELSE st
       /\ spared' = spared \cup (IF t \in Bans /\ HitsNow(t, m, o) THEN {<<o, t, m>>} ELSE {})
            \cup (IF \E l \in Expired(lines[s]) : l[1] = "E" THEN Unexempted(s) ELSE {})
       /\ UNCHANGED <<named, ident, up, now, events>>

\* server_kline_remove_typed: without the line nothing changes.
Removed(s, l) ==
    IF l \in DOMAIN lines[s]
    THEN lines' = [lines EXCEPT ![s] = Less(@, {l})] /\ shun' = Bumped(s)
    ELSE UNCHANGED <<lines, shun>>

Unset(o) == st[o] = "on" /\ Event
\* UNGLINE, UNSHUN: told to the network whether it was there or not
Unwide(o, t, m) ==
    /\ Unset(o) /\ t \in Wide \cap Types[o]
    /\ Removed(Home[o], <<t, m>>)
    /\ Send(Home[o], [kind |-> "un", line |-> <<t, m>>, exp |-> 0])
    /\ torn' = torn \cup TornByRemoval(Home[o], <<t, m>>)
    /\ UNCHANGED <<conns, up, now, spared, nlines>>
Uneline(o, m) ==
    /\ Unset(o) /\ <<"E", m>> \in DOMAIN lines[Home[o]]
    /\ Removed(Home[o], <<"E", m>>)
    /\ spared' = spared \cup Unexempted(Home[o])
    /\ UNCHANGED <<conns, net, now, torn, nlines>>
\* UNKLINE, UNZLINE: some ban with that mask, a G-line too, and on this server only
Unkline(o, m) ==
    /\ Unset(o)
    /\ \E t \in Bans : /\ <<t, m>> \in DOMAIN lines[Home[o]] /\ Removed(Home[o], <<t, m>>)
                       /\ torn' = IF t = "G" THEN torn \cup {<<t, m>>} ELSE torn
    /\ UNCHANGED <<conns, net, now, spared, nlines>>

\* Mutant: the verdict on the old ident is kept.
ChgIdentCached(u, i) ==
    /\ st[u] = "on" /\ ident[u] # i /\ Event
    /\ ident' = [ident EXCEPT ![u] = i]
    /\ spared' = spared \cup {<<u, l[1], l[2]>> : l \in {k \in DOMAIN lines[Home[u]] : k[1] \in Bans}}
    /\ UNCHANGED <<st, named, lines, shun, net, now, torn, nlines>>

\* CHGIDENT: the verdict is asked again, bans are not.
ChgIdent(u, i) ==
    /\ st[u] = "on" /\ ident[u] # i /\ Event
    /\ ident' = [ident EXCEPT ![u] = i] /\ shun' = [shun EXCEPT ![u] = None]
    /\ spared' = spared \cup {<<u, l[1], l[2]>> : l \in {k \in DOMAIN lines[Home[u]] : k[1] \in Bans}}
    /\ UNCHANGED <<st, named, lines, net, now, torn, nlines>>

(***************************************************************************)
(* Connections.                                                            *)
(***************************************************************************)
\* accept_common: only the address is known.
Accept(u) ==
    /\ st[u] = "off" /\ ~Matches(lines[Home[u]], u, None, FALSE)
    /\ st' = [st EXCEPT ![u] = "conn"] /\ named' = [named EXCEPT ![u] = FALSE]
    /\ ident' = [ident EXCEPT ![u] = Plain] /\ shun' = [shun EXCEPT ![u] = None]
    /\ UNCHANGED <<lines, net, now, spared, torn, counts>>

\* The name is looked up, and identd answers, before registration or not at all.
RdnsResult(u) ==
    /\ st[u] = "conn" /\ u \in ReverseNames /\ ~named[u] /\ named' = [named EXCEPT ![u] = TRUE]
    /\ UNCHANGED <<st, ident, lines, shun, net, now, spared, torn, counts>>
IdentResult(u, i) ==
    /\ st[u] = "conn" /\ ident[u] # i /\ ident' = [ident EXCEPT ![u] = i]
    /\ UNCHANGED <<st, named, lines, shun, net, now, spared, torn, counts>>

\* Mutant: the accept-time check is not repeated.
WelcomeUnchecked(u) ==
    /\ st[u] = "conn" /\ st' = [st EXCEPT ![u] = "on"]
    /\ UNCHANGED <<named, ident, lines, shun, net, now, spared, torn, counts>>

\* cmd_send_welcome_if_ready: the first time a name or an ident can be looked at.
Welcome(u) ==
    /\ st[u] = "conn"
    /\ st' = [st EXCEPT ![u] = IF Matches(lines[Home[u]], u, ident[u], named[u]) THEN "quit" ELSE "on"]
    /\ UNCHANGED <<named, ident, lines, shun, net, now, spared, torn, counts>>

\* A user leaves, or the loop takes down who was marked.
Leave(u) ==
    /\ st[u] = "quit" \/ (u \in Comers /\ st[u] # "off")
    /\ st' = [st EXCEPT ![u] = "off"]
    /\ named' = [named EXCEPT ![u] = FALSE] /\ ident' = [ident EXCEPT ![u] = Plain] /\ shun' = [shun EXCEPT ![u] = None]
    /\ spared' = {x \in spared : x[1] # u}
    /\ UNCHANGED <<lines, net, now, torn, counts>>

\* server_is_shunned, at a command of a registered user who is no operator
Speak(u) ==
    /\ st[u] = "on" /\ u \notin Opers /\ shun[u] = None
    /\ shun' = [shun EXCEPT ![u] = \E l \in DOMAIN lines[Home[u]] : l[1] = "S" /\ HitsNow("K", l[2], u)]
    /\ UNCHANGED <<conns, lines, net, now, spared, torn, counts>>

(***************************************************************************)
(* Lines set by the server itself, on the address of one connection.       *)
(***************************************************************************)
AutoLine(u, t, after) ==
    LET s == Home[u]
        ls == Added(lines[s], <<t, Own[u]>>, Expiry(AutoFor))
    IN /\ nlines < MaxLines /\ nlines' = nlines + 1
       /\ lines' = [lines EXCEPT ![s] = ls] /\ shun' = Bumped(s)
       /\ st' = after

\* One connection too many in the window: a Z-line for the next ones; those who are here stay.
ConnectFlood(u) ==
    /\ st[u] = "off" /\ ~Matches(lines[Home[u]], u, None, FALSE)
    /\ AutoLine(u, "Z", st)
    /\ spared' = spared \cup {<<v, "Z", Own[u]>> : v \in {w \in Local(Home[u]) : st[w] = "on"}}
    /\ UNCHANGED <<named, ident, net, now, torn, events>>

\* A DNSBL verdict, for a connection that may have registered since; an open proxy found by the
\* scan.  The line is a Z- or a K-line by the configuration, and enforced as a Z-line.
Listed(u, t) ==
    /\ st[u] \in {"conn", "on"} /\ t \in {"K", "Z"}
    /\ AutoLine(u, t, [Enforced(Home[u], lines[Home[u]], "Z", Own[u], u) EXCEPT ![u] = "quit"])
    /\ UNCHANGED <<named, ident, net, now, spared, torn, events>>

\* apply_action of the spam filter: with a Z-line the sender and the others of its address go, but no operators.
SpamZline(u) ==
    /\ st[u] = "on" /\ u \notin Opers
    /\ AutoLine(u, "Z", [v \in Users |-> IF Home[v] = Home[u] /\ v \in Addr[Own[u]] /\ st[v] \in {"conn", "on"} /\ v \notin Opers
                                         THEN "quit" ELSE st[v]])
    /\ spared' = spared \cup {<<v, "Z", Own[u]>> : v \in Opers \cap Local(Home[u]) \cap Addr[Own[u]]}
    /\ UNCHANGED <<named, ident, net, now, torn, events>>
SpamShun(u) ==
    /\ st[u] = "on" /\ u \notin Opers
    /\ AutoLine(u, "S", st)
    /\ Send(Home[u], [kind |-> "add", line |-> <<"S", Own[u]>>, exp |-> Expiry(AutoFor)])
    /\ torn' = torn \cup TornByAdd(Home[u], <<"S", Own[u]>>)
    /\ UNCHANGED <<named, ident, up, now, spared, events>>

(***************************************************************************)
(* Links and time.                                                         *)
(***************************************************************************)
\* handle_gline, handle_ungline: one that has expired on the way is dropped.
Receive(s) ==
    /\ up /\ wire[s] # <<>>
    /\ wire' = [wire EXCEPT ![s] = Tail(@)]
    /\ LET x == Head(wire[s])
           ls == Added(lines[s], x.line, x.exp)
       IN \/ x.kind = "add" /\ x.exp # 0 /\ x.exp <= now /\ UNCHANGED <<lines, shun, st>>
          \/ /\ x.kind = "add" /\ ~(x.exp # 0 /\ x.exp <= now)
             /\ lines' = [lines EXCEPT ![s] = ls] /\ shun' = Bumped(s)
             /\ st' = IF x.line[1] = "G" THEN Enforced(s, ls, "G", x.line[2], None) ELSE st
          \/ x.kind = "un" /\ Removed(s, x.line) /\ UNCHANGED st
    /\ UNCHANGED <<named, ident, up, now, spared, torn, counts>>

Sequenced(S) == CHOOSE q \in [1..Cardinality(S) -> S] : \A i, j \in DOMAIN q : i # j => q[i] # q[j]
\* Mutant: the burst tells G-lines only.
BurstGlines(s) == Sequenced({[kind |-> "add", line |-> l, exp |-> lines[s][l]] : l \in {k \in DOMAIN lines[s] : k[1] = "G"}})

\* netsync_burst: G-lines and SHUNs, with their expiry.
Burst(s) == Sequenced({[kind |-> "add", line |-> l, exp |-> lines[s][l]] : l \in {k \in DOMAIN lines[s] : k[1] \in Wide}})
LinkUp ==
    /\ ~up /\ up' = TRUE /\ wire' = [s \in Servers |-> Burst(Other(s))]
    /\ UNCHANGED <<conns, lines, shun, now, spared, torn, counts>>
\* The link is lost with what was on it.
Split ==
    /\ up /\ Event
    /\ up' = FALSE /\ wire' = [s \in Servers |-> <<>>]
    /\ torn' = torn \cup {x.line : x \in {y \in UNION {{wire[s][i] : i \in DOMAIN wire[s]} : s \in Servers} : y.kind = "un"}}
    /\ UNCHANGED <<conns, lines, shun, now, spared, nlines>>

Prune(s) ==
    /\ Expired(lines[s]) # {} /\ lines' = [lines EXCEPT ![s] = Pruned(@)]
    /\ shun' = Bumped(s)
    /\ spared' = IF \E l \in Expired(lines[s]) : l[1] = "E" THEN spared \cup Unexempted(s) ELSE spared
    /\ UNCHANGED <<conns, net, now, torn, counts>>
Tick ==
    /\ now < MaxClock /\ now' = now + 1
    /\ UNCHANGED <<conns, lines, shun, net, spared, torn, counts>>

Init ==
    /\ st = [u \in Users |-> IF u \in Comers THEN "off" ELSE "on"]
    /\ named = [u \in Users |-> FALSE] /\ ident = [u \in Users |-> Plain] /\ shun = [u \in Users |-> None]
    /\ lines = [s \in Servers |-> <<>>] /\ up \in BOOLEAN /\ wire = [s \in Servers |-> <<>>] /\ now = 0
    /\ spared = {} /\ torn = {} /\ nlines = 0 /\ events = 0

Next ==
    \/ \E o \in Opers, m \in Masks :
         \/ \E t \in Types[o], d \in Durations : SetLine(o, t, m, d)
         \/ \E t \in Wide : Unwide(o, t, m)
         \/ Uneline(o, m) \/ Unkline(o, m)
    \/ \E u \in Users : Leave(u) \/ Speak(u)
    \/ \E u \in Comers :
         \/ Accept(u) \/ RdnsResult(u) \/ Welcome(u)
         \/ \E i \in Idents : IdentResult(u, i) \/ ChgIdent(u, i)
         \/ ConnectFlood(u) \/ SpamZline(u) \/ SpamShun(u) \/ \E t \in {"K", "Z"} : Listed(u, t)
    \/ \E s \in Servers : Receive(s) \/ Prune(s)
    \/ LinkUp \/ Split \/ Tick
Spec == Init /\ [][Next]_vars

(***************************************************************************)
(* Properties.                                                             *)
(***************************************************************************)
\* All state is of its type.
TypeOK ==
    /\ st \in [Users -> {"off", "conn", "on", "quit"}] /\ named \in [Users -> BOOLEAN] /\ ident \in [Users -> Idents]
    /\ \A s \in Servers : DOMAIN lines[s] \subseteq Line /\ \A l \in DOMAIN lines[s] : lines[s][l] \in Nat
    /\ shun \in [Users -> BOOLEAN \cup {None}] /\ up \in BOOLEAN /\ torn \subseteq Line /\ spared \subseteq Users \X {"K", "G", "Z", "S", "E"} \X Masks
    /\ ~up => \A s \in Servers : wire[s] = <<>>

\* Nobody is registered under a ban of its server, whichever came first, the line, the user's name or
\* its ident, and wherever the line was set: except who set it, operators a spam Z-line passes over,
\* who was here when a connect flood was cut off, lost an exemption or was given another ident.
NoneBanned ==
    \A u \in Users : st[u] = "on" =>
      \A l \in DOMAIN lines[Home[u]] :
        l[1] \in Bans /\ HitsNow(l[1], l[2], u) =>
          \/ l[1] # "Z" /\ Exempt(lines[Home[u]], u, ident[u], named[u])
          \/ <<u, l[1], l[2]>> \in spared

\* The verdict server_is_shunned keeps is the one it would give now, whatever lines came, went or
\* expired and whatever became of the user's ident since.
ShunCurrent ==
    \A u \in Users : st[u] = "on" /\ shun[u] # None =>
      shun[u] = \E l \in DOMAIN lines[Home[u]] : l[1] = "S" /\ HitsNow("K", l[2], u)

\* When nothing is on its way two linked servers have the same G-lines and SHUNs until the same time,
\* except those removed while they were being set or while the servers were apart, and G-lines
\* taken away with UNKLINE (netsync_burst, handle_gline, handle_ungline).
WideAgree ==
    (up /\ \A s \in Servers : wire[s] = <<>>) =>
      \A s \in Servers : \A l \in DOMAIN lines[s] :
        l[1] \in Wide /\ l \notin torn /\ l \notin Expired(lines[s]) =>
          l \in DOMAIN lines[Other(s)] /\ lines[Other(s)][l] = lines[s][l]

\* A line goes when it has expired or when it is removed here or by the other side, and a refresh never
\* ends it earlier, nor ends one that is for ever (server_kline_add).
NeverShortened ==
    [][\A s \in Servers : \A l \in DOMAIN lines[s] :
         \/ l \in Expired(lines[s])
         \/ events' # events
         \/ wire[s] # <<>> /\ wire'[s] = Tail(wire[s]) /\ Head(wire[s]).kind = "un"
         \/ l \in DOMAIN lines'[s] /\ (lines'[s][l] = 0 \/ (lines[s][l] # 0 /\ lines'[s][l] >= lines[s][l]))]_vars

\* What the lines say is so for everybody: who is banned is not on, and who may not speak is
\* known, whichever of line, user, name or ident came last.
LinesBite == TypeOK /\ NoneBanned /\ ShunCurrent
=============================================================================
