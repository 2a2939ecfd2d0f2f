---------------------------- MODULE NickNetProofs ----------------------------
(***************************************************************************)
(* Proofs about NickNet for every tree of servers, every set of users and  *)
(* nicks, and every bound: the tables each server keeps stay consistent,   *)
(* and a network that has come to rest knows its users.                    *)
(***************************************************************************)
EXTENDS NickNet, FiniteSetTheorems, SequenceTheorems, WellFoundedInduction, TLAPS

(***************************************************************************)
(* What is sent is a line.                                                 *)
(***************************************************************************)

\* What a handler sends to its neighbours, as types.
LEMMA OutTypes ==
    ASSUME NEW m \in Msg, NEW p \in Server
    PROVE  /\ Nothing \in [Server -> Seq(Msg)]
           /\ FloodAll(m) \in [Server -> Seq(Msg)]
           /\ Flood(p, m) \in [Server -> Seq(Msg)]
           /\ RouteTo(p, m) \in [Server -> Seq(Msg)]
  <1>1. << >> \in Seq(Msg) /\ <<m>> \in Seq(Msg)
    OBVIOUS
  <1>2. Nothing \in [Server -> Seq(Msg)] /\ FloodAll(m) \in [Server -> Seq(Msg)]
    BY <1>1 DEF Nothing, FloodAll
  <1> QED
    BY <1>1, <1>2 DEF Flood, RouteTo

\* Sending one thing after another is sending lines.
LEMMA ThenType ==
    ASSUME NEW o1 \in [Server -> Seq(Msg)], NEW o2 \in [Server -> Seq(Msg)]
    PROVE  Then(o1, o2) \in [Server -> Seq(Msg)]
  BY DEF Then

\* send_link keeps a stream a sequence of lines.
LEMMA SentType ==
    ASSUME TypeOK, NEW s \in Server, NEW out \in [Server -> Seq(Msg)]
    PROVE  Sent(s, out) \in [Link -> Seq(Msg)]
  BY DEF Sent, TypeOK, Link

\* So does reading a line while sending others.
LEMMA SentOnReadType ==
    ASSUME TypeOK, NEW s \in Server, NEW p \in Server, <<p, s>> \in Link,
           chan[<<p, s>>] # << >>, NEW out \in [Server -> Seq(Msg)]
    PROVE  SentOnRead(s, p, out) \in [Link -> Seq(Msg)]
  <1>1. Sent(s, out) \in [Link -> Seq(Msg)]
    BY SentType
  <1>2. Sent(s, out)[<<p, s>>] = chan[<<p, s>>]
    BY DEF Sent, Link
  <1>3. Tail(chan[<<p, s>>]) \in Seq(Msg)
    BY DEF TypeOK
  <1> QED
    BY <1>1, <1>2, <1>3 DEF SentOnRead

\* The fields of a line, by its type.
LEMMA MsgFields ==
    ASSUME NEW m \in Msg
    PROVE  /\ m.type \in {"UID", "NICK"} => m.user \in User /\ m.nick \in Nick /\ m.ts \in Time
           /\ m.type \in {"QUIT", "KILL"} => m.user \in User
           /\ m.type \in {"SERVER", "SQUIT"} => m.sid \in Server
  BY DEF Msg

\* The lines the code builds are lines.
LEMMA LineTypes ==
    ASSUME NEW u \in User, NEW n \in Nick, NEW t \in Time, NEW s \in Server
    PROVE  /\ UidLine(u, n, t) \in Msg
           /\ NickLine(u, n, t) \in Msg
           /\ QuitLine(u) \in Msg
           /\ KillLine(u) \in Msg
           /\ ServerLine(s) \in Msg
           /\ SquitLine(s) \in Msg
  BY DEF Msg, UidLine, NickLine, QuitLine, KillLine, ServerLine, SquitLine

\* The line a handler reads has the fields of its type.
LEMMA ReadingFields ==
    ASSUME TypeOK, NEW s \in Server, NEW p \in Server, NEW type, Reading(s, p, type)
    PROVE  /\ <<p, s>> \in Link /\ chan[<<p, s>>] # << >> /\ p # s
           /\ Head(chan[<<p, s>>]) \in Msg
           /\ Head(chan[<<p, s>>]).type = type
  <1>1. <<p, s>> \in Link /\ chan[<<p, s>>] # << >> /\ Head(chan[<<p, s>>]).type = type
    BY DEF Reading
  <1>2. p # s
    BY <1>1 DEF Link
  <1>3. chan[<<p, s>>] \in Seq(Msg)
    BY <1>1 DEF TypeOK
  <1>4. Head(chan[<<p, s>>]) \in Msg
    BY <1>1, <1>3
  <1> QED
    BY <1>1, <1>2, <1>4

(***************************************************************************)
(* The tree.                                                               *)
(***************************************************************************)

\* What lies beyond a neighbour is behind it, and is what routes through it.
LEMMA BehindPeer ==
    ASSUME NEW s \in Server, NEW p \in Server, NEW t \in Server,
           <<s, p>> \in Link, t # s, Route[s][t] = p
    PROVE  IsBehind(s, t, p)
  <1>1. <<p, s>> \in Link /\ s # p /\ Route[p][s] = s
    BY LinkSymmetric DEF Link
  <1>2. CASE t = p
    BY <1>2 DEF IsBehind
  <1>3. CASE t # p
    BY <1>1, <1>3, RouteForward DEF IsBehind
  <1> QED
    BY <1>2, <1>3

\* A server hangs off its uplink: with the uplink goes the server.
LEMMA BehindUplink ==
    ASSUME NEW s \in Server, NEW r \in Server, NEW t \in Server,
           r # s, t # s, IsBehind(s, Route[t][s], r)
    PROVE  IsBehind(s, t, r)
  <1> DEFINE q == Route[t][s]
  <1>1. q \in Server /\ <<t, q>> \in Link /\ <<q, t>> \in Link
    BY RouteType, RouteAdjacent, LinkSymmetric
  <1>2. CASE q = r
    <2>1. Route[r][t] = t
      BY <1>1, <1>2 DEF Link
    <2>2. Route[t][s] # s
      BY <1>2
    <2>3. Route[r][s] # t
      BY <1>2, <2>2, RouteForward
    <2> QED
      BY <2>1, <2>3 DEF IsBehind
  <1>3. CASE q # r /\ t # r
    <2>1. Route[r][q] = Route[r][t]
      BY <1>1, <1>3, RouteShared
    <2> QED
      BY <1>3, <2>1 DEF IsBehind
  <1>4. CASE t = r
    BY <1>4 DEF IsBehind
  <1> QED
    BY <1>2, <1>3, <1>4

\* A server is reached through the same neighbour as its uplink.
LEMMA UplinkRoute ==
    ASSUME NEW s \in Server, NEW t \in Server, t # s, Route[t][s] # s
    PROVE  Route[s][t] = Route[s][Route[t][s]]
  <1>1. Route[t][s] \in Server /\ <<t, Route[t][s]>> \in Link
    BY RouteType, RouteAdjacent
  <1> QED
    BY <1>1, RouteShared

(***************************************************************************)
(* Settling a collision, or dropping users, at one server.                 *)
(***************************************************************************)
\* Settle keeps the tables well typed.
LEMMA SettleTypes ==
    ASSUME TypeOK, NEW s \in Server, NEW gone \in SUBSET User, NEW new \in SUBSET User,
           NEW n \in Nick \cup {NoNick}, NEW t \in 0..MaxTS, Settle(s, gone, new, n, t)
    PROVE  /\ alive' \in [User -> {"new", "open", "quitting", "gone"}]
           /\ users' \in [Server -> SUBSET User]
           /\ byUid' \in [Server -> SUBSET User]
           /\ nick' \in [Server -> [User -> Nick \cup {NoNick}]]
           /\ nickTs' \in [Server -> [User -> 0..MaxTS]]
  <1>1. alive' \in [User -> {"new", "open", "quitting", "gone"}]
    BY DEF TypeOK, Settle, TsAfter, AliveAfter
  <1>2. users' \in [Server -> SUBSET User] /\ byUid' \in [Server -> SUBSET User]
    BY DEF TypeOK, Settle, TsAfter, AliveAfter
  <1>3. nick' \in [Server -> [User -> Nick \cup {NoNick}]]
    BY DEF TypeOK, Settle, TsAfter, AliveAfter
  <1>4. nickTs' \in [Server -> [User -> 0..MaxTS]]
    BY BoundType DEF TypeOK, Settle, TsAfter, AliveAfter
  <1> QED
    BY <1>1, <1>2, <1>3, <1>4

\* What Settle leaves in the tables of the server itself and of the others.
Settled(s, gone, new, n, t) ==
    /\ \A x \in Server : x # s => users'[x] = users[x] /\ byUid'[x] = byUid[x]
    /\ \A x \in Server : \A v \in User : x # s => nick'[x][v] = nick[x][v] /\ nickTs'[x][v] = nickTs[x][v]
    /\ users'[s] = (users[s] \ gone) \cup new
    /\ byUid'[s] = (byUid[s] \ {w \in gone : Remote(s, w)}) \cup new
    /\ \A v \in new : nick'[s][v] = n /\ nickTs'[s][v] = t
    /\ \A v \in User : v \notin new /\ v \notin gone => nick'[s][v] = nick[s][v] /\ nickTs'[s][v] = nickTs[s][v]
    /\ \A v \in User : v \notin new /\ ~Remote(s, v) => nickTs'[s][v] = nickTs[s][v]
    /\ \A v \in User : alive'[v] = IF v \in gone /\ ~Remote(s, v) THEN "quitting" ELSE alive[v]

\* Settle, one table entry at a time.
LEMMA SettleTables ==
    ASSUME TypeOK, NEW s \in Server, NEW gone \in SUBSET User, NEW new \in SUBSET User,
           NEW n, NEW t, Settle(s, gone, new, n, t)
    PROVE  Settled(s, gone, new, n, t)
  BY DEF TypeOK, Settle, Settled, TsAfter, AliveAfter

\* Settle keeps every table consistent when the newcomer's nick is held only by
\* users that lose it.
LEMMA SettleKeeps ==
    ASSUME IInv, NEW s \in Server, NEW gone \in SUBSET users[s], NEW new \in SUBSET User,
           NEW n, NEW t, Settle(s, gone, new, n, t),
           \A v \in new : Remote(s, v) /\ v \notin gone,
           \A v, w \in new : v = w,
           new # {} => /\ n \in Nick /\ t \in Time
                       /\ \A v \in users[s] : nick[s][v] = n => v \in gone \cup new,
           servers' \in [Server -> SUBSET Server], \A x \in Server : x \in servers'[x]
    PROVE  /\ NickUnique'
           /\ OpenHoldsNick'
           /\ Support'
           /\ \A x \in Server : \A u \in byUid'[x] : Remote(x, u) => u \in users'[x]
  <1>0. gone \in SUBSET User
    BY DEF IInv, TypeOK
  <1>t. Settled(s, gone, new, n, t)
    BY <1>0, SettleTables DEF IInv
  <1>u. users' \in [Server -> SUBSET User] /\ byUid' \in [Server -> SUBSET User]
    BY <1>0 DEF Settle, IInv, TypeOK
  <1>1. NickUnique'
    <2> SUFFICES ASSUME NEW x \in Server, NEW u \in users'[x], NEW v \in users'[x],
                        nick'[x][u] = nick'[x][v]
                 PROVE  u = v
      BY DEF NickUnique
    <2>1. u \in User /\ v \in User
      BY <1>u
    <2>2. CASE x # s
      BY <1>0, <2>1, <2>2, <1>t DEF Settled, IInv, NickUnique
    <2>3. CASE x = s
      <3>1. \A w \in users'[s] : w \in new \/ (w \in users[s] /\ w \notin gone /\ nick'[s][w] = nick[s][w])
        BY <1>t DEF Settled, IInv, TypeOK
      <3>2. \A w \in new : nick'[s][w] = n
        BY <1>t DEF Settled
      <3>3. CASE u \in new
        BY <2>3, <3>1, <3>2, <3>3
      <3>4. CASE v \in new
        BY <2>3, <3>1, <3>2, <3>4
      <3>5. CASE u \notin new /\ v \notin new
        BY <2>3, <3>1, <3>5 DEF IInv, NickUnique
      <3> QED
        BY <3>3, <3>4, <3>5
    <2> QED
      BY <2>2, <2>3
  <1>2. OpenHoldsNick'
    <2> SUFFICES ASSUME NEW u \in User, alive'[u] = "open"
                 PROVE  u \in users'[Home[u]] /\ nick'[Home[u]][u] \in Nick
      BY DEF OpenHoldsNick
    <2>1. alive[u] = "open" /\ Home[u] \in Server /\ ~(u \in gone /\ Home[u] = s)
      BY <1>0, <1>t, HomeType DEF Settled, IInv, TypeOK, Remote
    <2>2. u \in users[Home[u]] /\ nick[Home[u]][u] \in Nick
      BY <2>1 DEF IInv, OpenHoldsNick
    <2>3. Home[u] = s => u \notin new
      BY DEF Remote
    <2> QED
      BY <1>0, <2>1, <2>2, <2>3, <1>t DEF Settled
  <1>3. \A x \in Server : \A u \in users'[x] : nick'[x][u] \in Nick /\ (Remote(x, u) => u \in byUid'[x])
    <2> SUFFICES ASSUME NEW x \in Server, NEW u \in users'[x]
                 PROVE  nick'[x][u] \in Nick /\ (Remote(x, u) => u \in byUid'[x])
      OBVIOUS
    <2>1. u \in User
      BY <1>u
    <2>2. CASE x # s
      BY <1>0, <2>1, <2>2, <1>t DEF Settled, IInv, Support
    <2>3. CASE x = s
      BY <1>0, <2>1, <2>3, <1>t DEF Settled, IInv, Support
    <2> QED
      BY <2>2, <2>3
  <1>4. \A x \in Server : \A u \in byUid'[x] : nickTs'[x][u] \in Time /\ (Remote(x, u) => u \in users'[x])
    <2> SUFFICES ASSUME NEW x \in Server, NEW u \in byUid'[x]
                 PROVE  nickTs'[x][u] \in Time /\ (Remote(x, u) => u \in users'[x])
      OBVIOUS
    <2>1. u \in User
      BY <1>u
    <2>2. CASE x # s
      BY <1>0, <2>1, <2>2, <1>t DEF Settled, IInv, Support, RemoteAnchored
    <2>3. CASE x = s
      BY <1>0, <2>1, <2>3, <1>t DEF Settled, IInv, Support, RemoteAnchored
    <2> QED
      BY <2>2, <2>3
  <1>5. \A x \in Server : \A u \in users'[x] \cup byUid'[x] :
            ~Remote(x, u) => alive'[u] \in {"open", "quitting"}
    <2> SUFFICES ASSUME NEW x \in Server, NEW u \in users'[x] \cup byUid'[x], ~Remote(x, u)
                 PROVE  alive'[u] \in {"open", "quitting"}
      OBVIOUS
    <2>1. u \in User
      BY <1>u
    <2>2. u \in users[x] \cup byUid[x]
      BY <1>0, <2>1, <1>t DEF Settled
    <2> QED
      BY <1>0, <2>1, <2>2, <1>t DEF Settled, IInv, Support
  <1>6. Support'
    BY <1>3, <1>4, <1>5 DEF Support, Remote
  <1> QED
    BY <1>1, <1>2, <1>4, <1>6

(***************************************************************************)
(* Local connections.                                                      *)
(***************************************************************************)

\* A step that files local user u under n, and changes nothing else.
LocalChange(u, n) ==
    /\ users'[Home[u]] = users[Home[u]] \cup {u}
    /\ byUid'[Home[u]] \in {byUid[Home[u]], byUid[Home[u]] \cup {u}}
    /\ \A x \in Server : x # Home[u] => users'[x] = users[x] /\ byUid'[x] = byUid[x]
    /\ nick'[Home[u]][u] = n
    /\ u \in byUid'[Home[u]] => nickTs'[Home[u]][u] \in Time
    /\ \A x \in Server : \A v \in User :
           v # u \/ x # Home[u] => nick'[x][v] = nick[x][v] /\ nickTs'[x][v] = nickTs[x][v]
    /\ alive'[u] \in {"open", "quitting"}
    /\ \A v \in User : v # u => alive'[v] = alive[v]
    /\ UNCHANGED <<servers, lc>>

\* It keeps the tables consistent if nobody else holds the nick.
LEMMA LocalNick ==
    ASSUME IInv, NEW u \in User, NEW n \in Nick, NickFree(u, n), LocalChange(u, n)
    PROVE  NickUnique' /\ RemoteAnchored' /\ ServerAnchored' /\ OpenHoldsNick' /\ Support'
  <1> DEFINE s == Home[u]
  <1>0. s \in Server /\ TypeOK
    BY HomeType DEF IInv
  <1>1. LocalChange(u, n)
    OBVIOUS
  <1>2. \A x \in Server : users[x] \subseteq User /\ byUid[x] \subseteq User
    BY <1>0 DEF TypeOK
  <1>3. NickUnique'
    <2> SUFFICES ASSUME NEW x \in Server, NEW v \in users'[x], NEW w \in users'[x],
                        nick'[x][v] = nick'[x][w]
                 PROVE  v = w
      BY DEF NickUnique
    <2>1. CASE x # s
      BY <1>1, <1>2, <2>1 DEF LocalChange, IInv, NickUnique
    <2>2. CASE x = s
      <3>1. \A y \in users[s] : nick[s][y] = n => y = u
        BY DEF NickFree, Holders
      <3>2. \A y \in users'[s] : y = u \/ (y \in users[s] /\ nick'[s][y] = nick[s][y])
        BY <1>0, <1>1, <1>2 DEF LocalChange
      <3> QED
        BY <1>0, <1>1, <2>2, <3>1, <3>2 DEF LocalChange, IInv, NickUnique
    <2> QED
      BY <2>1, <2>2
  <1>4. RemoteAnchored'
    BY <1>0, <1>1, <1>2 DEF LocalChange, IInv, RemoteAnchored, Remote
  <1>5. ServerAnchored'
    BY <1>1 DEF LocalChange, IInv, ServerAnchored
  <1>6. OpenHoldsNick'
    BY <1>0, <1>1, HomeType DEF LocalChange, IInv, OpenHoldsNick
  <1>7. Support'
    <2> SUFFICES ASSUME NEW x \in Server
                 PROVE  /\ x \in servers'[x]
                        /\ \A v \in users'[x] : nick'[x][v] \in Nick /\ (Remote(x, v) => v \in byUid'[x])
                        /\ \A v \in byUid'[x] : nickTs'[x][v] \in Time
                        /\ \A v \in users'[x] \cup byUid'[x] :
                               ~Remote(x, v) => alive'[v] \in {"open", "quitting"}
      BY DEF Support, Remote
    <2>1. x \in servers'[x]
      BY <1>1 DEF LocalChange, IInv, Support
    <2>2. \A v \in users'[x] : nick'[x][v] \in Nick /\ (Remote(x, v) => v \in byUid'[x])
      BY <1>0, <1>1, <1>2 DEF LocalChange, IInv, Support, Remote
    <2>3. \A v \in byUid'[x] : nickTs'[x][v] \in Time
      BY <1>0, <1>1, <1>2 DEF LocalChange, IInv, Support
    <2>4. \A v \in users'[x] \cup byUid'[x] : ~Remote(x, v) => alive'[v] \in {"open", "quitting"}
      BY <1>0, <1>1, <1>2 DEF LocalChange, IInv, Support, Remote
    <2> QED
      BY <2>1, <2>2, <2>3, <2>4
  <1> QED
    BY <1>3, <1>4, <1>5, <1>6, <1>7

\* Taking a nick before registration.
LEMMA NickUnregisteredKeeps ==
    ASSUME IInv, NEW u \in User, NEW n \in Nick, NickUnregistered(u, n)
    PROVE  IInv'
  <1>0. Home[u] \in Server /\ TypeOK
    BY HomeType DEF IInv
  <1>1. TypeOK'
    BY <1>0 DEF TypeOK, NickUnregistered
  <1>2. u \notin byUid'[Home[u]]
    BY DEF NickUnregistered, Registered
  <1>3. NickUnique' /\ RemoteAnchored' /\ ServerAnchored' /\ OpenHoldsNick' /\ Support'
    <2>1. LocalChange(u, n)
      BY <1>0, <1>2 DEF LocalChange, TypeOK, NickUnregistered
    <2> QED
      BY <2>1, LocalNick DEF NickUnregistered
  <1> QED
    BY <1>1, <1>3 DEF IInv

\* Completing a registration: the nick was held already.
LEMMA RegisterKeeps ==
    ASSUME IInv, NEW u \in User, NEW t \in Time, Register(u, t)
    PROVE  IInv'
  <1> DEFINE s == Home[u]
             stamp == IF nickTs[s][u] = 0 THEN t ELSE nickTs[s][u]
  <1>0. s \in Server /\ TypeOK /\ u \in users[s] /\ nick[s][u] \in Nick
    BY HomeType DEF IInv, Register, Support
  <1>1. stamp \in Time
    BY <1>0, BoundType DEF TypeOK, Time
  <1>2. chan' \in [Link -> Seq(Msg)]
    <2>1. FloodAll(UidLine(u, nick[s][u], stamp)) \in [Server -> Seq(Msg)]
      BY <1>0, <1>1, LineTypes, OutTypes
    <2> QED
      BY <1>0, <2>1, SentType DEF Register
  <1>3. TypeOK'
    BY <1>0, <1>1, <1>2 DEF TypeOK, Register, Time
  <1>4. NickFree(u, nick[s][u])
    BY <1>0 DEF IInv, NickUnique, NickFree, Holders
  <1>5. LocalChange(u, nick[s][u])
    BY <1>0, <1>1 DEF LocalChange, TypeOK, Register
  <1>7. NickUnique' /\ RemoteAnchored' /\ ServerAnchored' /\ OpenHoldsNick' /\ Support'
    BY <1>0, <1>4, <1>5, LocalNick
  <1> QED
    BY <1>3, <1>7 DEF IInv

\* A service bot takes a free nick.
LEMMA ServiceNickKeeps ==
    ASSUME IInv, NEW u \in User, NEW n \in Nick, NEW t \in Time, ServiceNick(u, n, t)
    PROVE  IInv'
  <1> DEFINE s == Home[u]
  <1>0. s \in Server /\ TypeOK
    BY HomeType DEF IInv
  <1>1. chan' \in [Link -> Seq(Msg)]
    <2>1. FloodAll(UidLine(u, n, t)) \in [Server -> Seq(Msg)]
      BY <1>0, LineTypes, OutTypes
    <2> QED
      BY <1>0, <2>1, SentType DEF ServiceNick
  <1>2. TypeOK'
    BY <1>0, <1>1, BoundType DEF TypeOK, ServiceNick, Time
  <1>3. NickFree(u, n)
    BY DEF ServiceNick, NickFree
  <1>4. LocalChange(u, n)
    BY <1>0 DEF LocalChange, ServiceNick, TypeOK
  <1>5. NickUnique' /\ RemoteAnchored' /\ ServerAnchored' /\ OpenHoldsNick' /\ Support'
    BY <1>3, <1>4, LocalNick
  <1> QED
    BY <1>2, <1>5 DEF IInv

\* A registered user moves to a free nick.
LEMMA RenameKeeps ==
    ASSUME IInv, NEW u \in User, NEW n \in Nick, NEW t \in Time, Rename(u, n, t)
    PROVE  IInv'
  <1> DEFINE s == Home[u]
  <1>0. s \in Server /\ TypeOK
    BY HomeType DEF IInv
  <1>1. chan' \in [Link -> Seq(Msg)]
    <2>1. FloodAll(NickLine(u, n, t)) \in [Server -> Seq(Msg)]
      BY <1>0, LineTypes, OutTypes
    <2> QED
      BY <1>0, <2>1, SentType DEF Rename
  <1>2. TypeOK'
    BY <1>0, <1>1, BoundType DEF TypeOK, Rename, Time
  <1>3. alive[u] \in {"open", "quitting"}
    BY <1>0 DEF Rename, Registered, IInv, Support, Remote
  <1>4. LocalChange(u, n)
    BY <1>0, <1>3 DEF LocalChange, Rename, TypeOK
  <1>5. NickUnique' /\ RemoteAnchored' /\ ServerAnchored' /\ OpenHoldsNick' /\ Support'
    BY <1>4, LocalNick DEF Rename
  <1> QED
    BY <1>2, <1>5 DEF IInv

\* Marking a local user as quitting leaves it in the tables until the teardown.
LEMMA MarkQuitKeeps ==
    ASSUME IInv, NEW u \in User, NEW x \in Server, u \in users[x] \cup byUid[x], Home[u] = x,
           alive' = [alive EXCEPT ![u] = "quitting"],
           chan' \in [Link -> Seq(Msg)],
           UNCHANGED <<users, byUid, nick, nickTs, servers, lc, faults, moves>>
    PROVE  IInv'
  <1>1. TypeOK'
    BY DEF IInv, TypeOK
  <1>2. NickUnique' /\ RemoteAnchored' /\ ServerAnchored'
    BY DEF IInv, NickUnique, RemoteAnchored, ServerAnchored, Remote
  <1>3. OpenHoldsNick'
    BY DEF IInv, OpenHoldsNick, TypeOK
  <1>4. Support'
    BY DEF IInv, Support, TypeOK, Remote
  <1> QED
    BY <1>1, <1>2, <1>3, <1>4 DEF IInv

\* The teardown takes the user out of every table of its server.
LEMMA RemoveLocalKeeps ==
    ASSUME IInv, NEW u \in User, RemoveLocal(u)
    PROVE  IInv'
  <1> DEFINE s == Home[u]
  <1>0. s \in Server /\ TypeOK
    BY HomeType DEF IInv
  <1>1. chan' \in [Link -> Seq(Msg)]
    <2>1. QuitLine(u) \in Msg
      BY DEF QuitLine, Msg
    <2>2. FloodAll(QuitLine(u)) \in [Server -> Seq(Msg)]
      BY <1>0, <2>1, OutTypes
    <2> QED
      BY <1>0, <2>2, SentType DEF RemoveLocal, TypeOK
  <1>2. TypeOK'
    BY <1>0, <1>1, BoundType DEF TypeOK, RemoveLocal
  <1>3. /\ users'[s] = users[s] \ {u} /\ byUid'[s] = byUid[s] \ {u}
        /\ \A x \in Server : x # s => users'[x] = users[x] /\ byUid'[x] = byUid[x]
        /\ \A x \in Server : \A v \in User :
               v # u \/ x # s => nick'[x][v] = nick[x][v] /\ nickTs'[x][v] = nickTs[x][v]
        /\ alive'[u] = "gone" /\ \A v \in User : v # u => alive'[v] = alive[v]
        /\ UNCHANGED <<servers, lc>>
    BY <1>0 DEF RemoveLocal, TypeOK
  <1>4. \A x \in Server : users[x] \subseteq User /\ byUid[x] \subseteq User
    BY <1>0 DEF TypeOK
  <1>5. NickUnique'
    BY <1>0, <1>3, <1>4 DEF IInv, NickUnique
  <1>6. RemoteAnchored' /\ ServerAnchored'
    BY <1>0, <1>3, <1>4 DEF IInv, RemoteAnchored, ServerAnchored, Remote
  <1>7. OpenHoldsNick'
    BY <1>0, <1>3, HomeType DEF IInv, OpenHoldsNick
  <1>8. Support'
    BY <1>0, <1>3, <1>4 DEF IInv, Support, Remote
  <1> QED
    BY <1>2, <1>5, <1>6, <1>7, <1>8 DEF IInv

(***************************************************************************)
(* Links.                                                                  *)
(***************************************************************************)

\* The order a hash table is walked in is a sequence of its elements.
LEMMA OrdersType ==
    ASSUME NEW S, IsFiniteSet(S), NEW q \in Orders(S)
    PROVE  q \in Seq(S)
  <1>1. Cardinality(S) \in Nat
    BY FS_CardinalityType
  <1> QED
    BY <1>1 DEF Orders

\* A burst is a sequence of well-formed lines.
LEMMA BurstType ==
    ASSUME IInv, NEW s \in Server, NEW p \in Server,
           NEW qs \in ServerOrders(s, p), NEW qu \in Orders(BurstUsers(s, p))
    PROVE  Burst(s, qs, qu) \in Seq(Msg)
  <1>1. BurstServers(s, p) \subseteq Server /\ BurstUsers(s, p) \subseteq User
    BY DEF BurstServers, BurstUsers, IInv, TypeOK
  <1>2. IsFiniteSet(BurstServers(s, p)) /\ IsFiniteSet(BurstUsers(s, p))
    BY <1>1, FS_Subset, UserFinite, ServerFinite
  <1>3. qs \in Seq(BurstServers(s, p)) /\ qu \in Seq(BurstUsers(s, p))
    BY <1>2, OrdersType DEF ServerOrders
  <1>4. \A i \in 1..Len(qs) : qs[i] \in Server /\ ServerLine(qs[i]) \in Msg
    BY <1>1, <1>3 DEF ServerLine, Msg
  <1>5. \A i \in 1..Len(qu) : UidLine(qu[i], nick[s][qu[i]], nickTs[s][qu[i]]) \in Msg
    <2> SUFFICES ASSUME NEW i \in 1..Len(qu)
                 PROVE  UidLine(qu[i], nick[s][qu[i]], nickTs[s][qu[i]]) \in Msg
      OBVIOUS
    <2>1. qu[i] \in BurstUsers(s, p)
      BY <1>3
    <2>2. qu[i] \in User /\ nick[s][qu[i]] \in Nick /\ nickTs[s][qu[i]] \in Time
      BY <1>1, <2>1 DEF BurstUsers, IInv, Support
    <2> QED
      BY <2>2 DEF UidLine, Msg
  <1>6. [i \in 1..Len(qs) |-> ServerLine(qs[i])] \in Seq(Msg)
    BY <1>3, <1>4
  <1>7. [i \in 1..Len(qu) |-> UidLine(qu[i], nick[s][qu[i]], nickTs[s][qu[i]])] \in Seq(Msg)
    BY <1>3, <1>5
  <1> QED
    BY <1>6, <1>7 DEF Burst

\* A new link adds each end to the table of the other.
LEMMA LinkUpKeeps ==
    ASSUME IInv, NEW x \in Server, NEW y \in Server, LinkUp(x, y)
    PROVE  IInv'
  <1>0. TypeOK /\ x # y /\ Route[x][y] = y /\ Route[y][x] = x /\ <<x, y>> \in Link /\ <<y, x>> \in Link
    BY LinkSymmetric DEF IInv, LinkUp, Link
  <1>1. chan' \in [Link -> Seq(Msg)]
    <2>1. PICK qa \in ServerOrders(x, y), ua \in Orders(BurstUsers(x, y)),
               qb \in ServerOrders(y, x), ub \in Orders(BurstUsers(y, x)) :
            chan' = [l \in Link |->
                    CASE l = <<x, y>> -> Burst(x, qa, ua)
                      [] l = <<y, x>> -> Burst(y, qb, ub)
                      [] OTHER ->
                           IF l[1] = x /\ CanSend(x, l[2]) THEN Append(chan[l], ServerLine(y))
                           ELSE IF l[1] = y /\ CanSend(y, l[2]) THEN Append(chan[l], ServerLine(x))
                           ELSE chan[l]]
      BY DEF LinkUp
    <2>2. Burst(x, qa, ua) \in Seq(Msg) /\ Burst(y, qb, ub) \in Seq(Msg)
      BY BurstType
    <2>3. ServerLine(x) \in Msg /\ ServerLine(y) \in Msg
      BY DEF ServerLine, Msg
    <2>4. \A l \in Link : chan[l] \in Seq(Msg)
      BY <1>0 DEF TypeOK
    <2>5. \A l \in Link : Append(chan[l], ServerLine(x)) \in Seq(Msg) /\ Append(chan[l], ServerLine(y)) \in Seq(Msg)
      BY <2>3, <2>4
    <2> QED
      BY <2>1, <2>2, <2>4, <2>5
  <1>2. TypeOK'
    BY <1>0, <1>1 DEF TypeOK, LinkUp
  <1>3. /\ servers'[x] = servers[x] \cup {y} /\ servers'[y] = servers[y] \cup {x}
        /\ \A z \in Server : z # x /\ z # y => servers'[z] = servers[z]
        /\ lc'[x][y] = "up" /\ lc'[y][x] = "up"
        /\ \A z, w \in Server : lc'[z][w] = lc[z][w] \/ lc'[z][w] = "up"
        /\ UNCHANGED <<alive, users, byUid, nick, nickTs>>
    BY <1>0 DEF LinkUp, TypeOK
  <1>4. NickUnique' /\ RemoteAnchored' /\ OpenHoldsNick' /\ Support'
    BY <1>3 DEF IInv, NickUnique, RemoteAnchored, OpenHoldsNick, Support, Remote
  <1>5. ServerAnchored'
    <2> SUFFICES ASSUME NEW z \in Server, NEW t \in servers'[z] \ {z}
                 PROVE  Route[t][z] \in servers'[z] /\ lc'[z][Route[z][t]] \in {"up", "closing"}
      BY DEF ServerAnchored
    <2>1. t \in Server
      BY <1>2 DEF TypeOK
    <2>2. CASE t \in servers[z]
      <3>1. /\ Route[t][z] \in servers[z] /\ lc[z][Route[z][t]] \in {"up", "closing"}
            /\ Route[z][t] \in Server
        BY <2>1, <2>2, RouteType DEF IInv, ServerAnchored
      <3>2. servers[z] \subseteq servers'[z]
        BY <1>3
      <3> QED
        BY <1>3, <3>1, <3>2
    <2>3. CASE t \notin servers[z]
      <3>1. (z = x /\ t = y) \/ (z = y /\ t = x)
        BY <1>3, <2>3
      <3>2. z \in servers'[z]
        BY <1>4 DEF Support
      <3> QED
        BY <1>0, <1>3, <3>1, <3>2
    <2> QED
      BY <2>2, <2>3
  <1> QED
    BY <1>2, <1>4, <1>5 DEF IInv

\* Handling a line that changes no table.
LEMMA ChanKeeps ==
    ASSUME IInv, chan' \in [Link -> Seq(Msg)], moves' \in 0..MaxMoves,
           UNCHANGED <<alive, users, byUid, nick, nickTs, servers, lc, faults>>
    PROVE  IInv'
  <1>1. TypeOK'
    BY DEF IInv, TypeOK
  <1>2. NickUnique' /\ RemoteAnchored' /\ OpenHoldsNick' /\ ServerAnchored' /\ Support'
    BY DEF IInv, NickUnique, RemoteAnchored, OpenHoldsNick, ServerAnchored, Support, Remote
  <1> QED
    BY <1>1, <1>2 DEF IInv

\* Marking a link as closing disturbs no table.
LEMMA ClosingKeeps ==
    ASSUME IInv, NEW s \in Server, NEW p \in Server,
           lc[s][p] \in {"up", "closing"}, lc' = [lc EXCEPT ![s][p] = "closing"],
           chan' \in [Link -> Seq(Msg)], faults' \in 0..MaxFaults, moves' \in 0..MaxMoves,
           UNCHANGED <<alive, users, byUid, nick, nickTs, servers>>
    PROVE  IInv'
  <1>1. TypeOK'
    BY DEF IInv, TypeOK
  <1>2. \A x, y \in Server : lc[x][y] \in {"up", "closing"} => lc'[x][y] \in {"up", "closing"}
    BY DEF IInv, TypeOK
  <1>3. NickUnique' /\ RemoteAnchored' /\ OpenHoldsNick' /\ Support'
    BY DEF IInv, NickUnique, RemoteAnchored, OpenHoldsNick, Support, Remote
  <1>4. ServerAnchored'
    BY <1>2, RouteType DEF IInv, ServerAnchored, TypeOK
  <1> QED
    BY <1>1, <1>3, <1>4 DEF IInv

\* remove_server_tree: the servers behind r go, and every user they were home to.
LEMMA TreeKeeps ==
    ASSUME IInv, NEW s \in Server, NEW r \in Server, r # s, RemoveServerTree(s, r),
           chan' \in [Link -> Seq(Msg)], UNCHANGED <<faults, moves>>,
           lc' \in {lc, [lc EXCEPT ![s][r] = "down"]}, lc' # lc => <<s, r>> \in Link
    PROVE  IInv'
  <1> DEFINE gone == UsersBehind(s, r)
  <1>0. TypeOK /\ gone \in SUBSET users[s] /\ gone \in SUBSET User
    BY DEF IInv, TypeOK, UsersBehind
  <1>1. /\ Settle(s, gone, {}, NoNick, 0)
        /\ servers' = [servers EXCEPT ![s] = @ \ ServersBehind(s, r)]
    BY DEF RemoveServerTree
  <1>2. Settled(s, gone, {}, NoNick, 0)
    BY <1>0, <1>1, SettleTables
  <1>3. /\ servers' \in [Server -> SUBSET Server]
        /\ servers'[s] = servers[s] \ ServersBehind(s, r)
        /\ \A x \in Server : x # s => servers'[x] = servers[x]
    BY <1>0, <1>1 DEF TypeOK
  <1>4. \A x \in Server : x \in servers'[x]
    BY <1>3 DEF ServersBehind, IInv, Support
  <1>5. /\ NickUnique' /\ OpenHoldsNick' /\ Support'
        /\ \A x \in Server : \A u \in byUid'[x] : Remote(x, u) => u \in users'[x]
    BY <1>0, <1>1, <1>3, <1>4, SettleKeeps
  <1>6. RemoteAnchored'
    <2> SUFFICES ASSUME NEW x \in Server, NEW u \in byUid'[x], Remote(x, u)
                 PROVE  Home[u] \in servers'[x]
      BY <1>5 DEF RemoteAnchored, Remote
    <2>1. CASE x # s
      BY <1>2, <1>3, <2>1 DEF Settled, IInv, RemoteAnchored
    <2>2. CASE x = s
      <3>1. u \in byUid[s] /\ u \notin gone
        BY <1>0, <1>2, <2>2 DEF Settled
      <3>2. u \in users[s] /\ Home[u] \in servers[s]
        BY <2>2, <3>1 DEF IInv, RemoteAnchored
      <3>3. ~IsBehind(s, Home[u], r)
        BY <2>2, <3>1, <3>2 DEF UsersBehind
      <3> QED
        BY <1>3, <2>2, <3>2, <3>3 DEF ServersBehind
    <2> QED
      BY <2>1, <2>2
  <1>7. ServerAnchored'
    <2> SUFFICES ASSUME NEW x \in Server, NEW t \in servers'[x] \ {x}
                 PROVE  Route[t][x] \in servers'[x] /\ lc'[x][Route[x][t]] \in {"up", "closing"}
      BY DEF ServerAnchored
    <2>1. t \in servers[x] /\ t \in Server
      BY <1>0, <1>3 DEF TypeOK
    <2>2. /\ Route[t][x] \in servers[x] /\ lc[x][Route[x][t]] \in {"up", "closing"}
          /\ Route[t][x] \in Server /\ Route[x][t] \in Server
      BY <2>1, RouteType DEF IInv, ServerAnchored
    <2>3. CASE x # s
      <3>1. lc'[x] = lc[x]
        BY <1>0, <2>3 DEF TypeOK
      <3> QED
        BY <1>3, <2>2, <2>3, <3>1
    <2>4. CASE x = s
      <3>1. ~IsBehind(s, t, r)
        BY <1>3, <2>1, <2>4 DEF ServersBehind
      <3>2. Route[t][s] \in servers'[s]
        <4>1. CASE Route[t][s] = s
          BY <1>4, <4>1
        <4>2. CASE Route[t][s] # s
          BY <1>3, <2>1, <2>2, <2>4, <3>1, <4>2, BehindUplink DEF ServersBehind
        <4> QED
          BY <4>1, <4>2
      <3>3. <<s, r>> \in Link => Route[s][t] # r
        BY <2>1, <2>4, <3>1, BehindPeer
      <3>4. lc'[s][Route[s][t]] = lc[s][Route[s][t]]
        BY <1>0, <2>2, <2>4, <3>3 DEF TypeOK
      <3> QED
        BY <2>2, <2>4, <3>2, <3>4
    <2> QED
      BY <2>3, <2>4
  <1>8. TypeOK'
    <2>1. NoNick \in Nick \cup {NoNick} /\ 0 \in 0..MaxTS /\ {} \in SUBSET User
      BY BoundType
    <2>2. /\ alive' \in [User -> {"new", "open", "quitting", "gone"}]
          /\ users' \in [Server -> SUBSET User]
          /\ byUid' \in [Server -> SUBSET User]
          /\ nick' \in [Server -> [User -> Nick \cup {NoNick}]]
          /\ nickTs' \in [Server -> [User -> 0..MaxTS]]
      BY <1>0, <1>1, <2>1, SettleTypes
    <2>3. lc' \in [Server -> [Server -> {"down", "up", "closing"}]]
      <3> DEFINE T == [Server -> [Server -> {"down", "up", "closing"}]]
                 down == [lc EXCEPT ![s][r] = "down"]
      <3>1. lc \in T
        BY <1>0 DEF TypeOK
      <3>2. down \in T
        BY <3>1
      <3>3. lc' = lc \/ lc' = down
        OBVIOUS
      <3> HIDE DEF T, down
      <3>4. lc' \in T
        BY <3>1, <3>2, <3>3
      <3> QED
        BY <3>4 DEF T
    <2> QED
      BY <1>0, <1>3, <2>2, <2>3 DEF TypeOK
  <1> QED
    BY <1>5, <1>6, <1>7, <1>8 DEF IInv

(***************************************************************************)
(* The handlers of what a link delivers.                                   *)
(***************************************************************************)

\* Settling a collision keeps the invariant: what changes is one server's users.
LEMMA SettleStep ==
    ASSUME IInv, NEW s \in Server, NEW gone \in SUBSET users[s], NEW new \in SUBSET User,
           NEW n \in Nick \cup {NoNick}, NEW t \in 0..MaxTS, Settle(s, gone, new, n, t),
           \A v \in new : Remote(s, v) /\ v \notin gone /\ Home[v] \in servers[s],
           \A v, w \in new : v = w,
           new # {} => /\ n \in Nick /\ t \in Time
                       /\ \A v \in users[s] : nick[s][v] = n => v \in gone \cup new,
           chan' \in [Link -> Seq(Msg)], UNCHANGED <<servers, lc, faults, moves>>
    PROVE  IInv'
  <1>0. TypeOK /\ gone \in SUBSET User
    BY DEF IInv, TypeOK
  <1>1. servers' \in [Server -> SUBSET Server] /\ \A x \in Server : x \in servers'[x]
    BY DEF IInv, TypeOK, Support
  <1>2. /\ NickUnique' /\ OpenHoldsNick' /\ Support'
        /\ \A x \in Server : \A u \in byUid'[x] : Remote(x, u) => u \in users'[x]
    BY <1>1, SettleKeeps
  <1>3. Settled(s, gone, new, n, t)
    BY <1>0, SettleTables
  <1>4. RemoteAnchored'
    <2> SUFFICES ASSUME NEW x \in Server, NEW u \in byUid'[x], Remote(x, u)
                 PROVE  Home[u] \in servers'[x]
      BY <1>2 DEF RemoteAnchored, Remote
    <2>1. u \in byUid[x] \/ (x = s /\ u \in new)
      BY <1>3 DEF Settled
    <2> QED
      BY <2>1 DEF IInv, RemoteAnchored
  <1>5. ServerAnchored'
    BY DEF IInv, ServerAnchored
  <1>6. TypeOK'
    <2>1. /\ alive' \in [User -> {"new", "open", "quitting", "gone"}]
          /\ users' \in [Server -> SUBSET User]
          /\ byUid' \in [Server -> SUBSET User]
          /\ nick' \in [Server -> [User -> Nick \cup {NoNick}]]
          /\ nickTs' \in [Server -> [User -> 0..MaxTS]]
      BY <1>0, SettleTypes
    <2> QED
      BY <1>0, <2>1 DEF TypeOK
  <1> QED
    BY <1>2, <1>4, <1>5, <1>6 DEF IInv

\* A line that is ignored is only taken off the stream.
LEMMA IgnoreKeeps ==
    ASSUME IInv, NEW s \in Server, NEW p \in Server, NEW type, Reading(s, p, type), Ignore(s, p)
    PROVE  IInv'
  <1>1. TypeOK /\ <<p, s>> \in Link /\ chan[<<p, s>>] # << >>
    BY ReadingFields DEF IInv
  <1>2. Nothing \in [Server -> Seq(Msg)]
    BY DEF Nothing
  <1>3. chan' \in [Link -> Seq(Msg)]
    BY <1>1, <1>2, SentOnReadType DEF Ignore
  <1>4. moves' \in 0..MaxMoves
    BY <1>1 DEF Ignore, TypeOK
  <1> QED
    BY <1>3, <1>4, ChanKeeps DEF Ignore

\* The values Settle is given when nobody is filed.
LEMMA NobodyTypes ==
    /\ NoNick \in Nick \cup {NoNick} /\ 0 \in 0..MaxTS /\ {} \in SUBSET User
    /\ Time \subseteq 0..MaxTS /\ \A S : {} \in SUBSET S
  BY BoundType DEF Time

\* handle_uid: whichever side of the collision loses, one holder is left.
LEMMA HandleUidKeeps ==
    ASSUME IInv, NEW s \in Server, NEW p \in Server, HandleUid(s, p)
    PROVE  IInv'
  <1> DEFINE m == Head(chan[<<p, s>>])
             u == m.user
             Holds == Holders(s, m.nick)
             forward == Flood(p, UidLine(u, m.nick, m.ts))
             killBack == RouteTo(p, KillLine(u))
             Good == SrcServer(s, p, Home[u]) /\ u \notin byUid[s]
  <1>0. TypeOK /\ Reading(s, p, "UID")
    BY DEF IInv, HandleUid
  <1>1. <<p, s>> \in Link /\ chan[<<p, s>>] # << >> /\ m \in Msg /\ m.type = "UID"
    BY <1>0, ReadingFields
  <1>2. u \in User /\ m.nick \in Nick /\ m.ts \in Time
    BY <1>1, MsgFields
  <1>3. CASE Ignore(s, p)
    BY <1>0, <1>3, IgnoreKeeps
  <1>o. /\ forward \in [Server -> Seq(Msg)]
        /\ killBack \in [Server -> Seq(Msg)]
        /\ Nothing \in [Server -> Seq(Msg)]
    <2>1. UidLine(u, m.nick, m.ts) \in Msg /\ KillLine(u) \in Msg
      BY <1>2, LineTypes
    <2> HIDE DEF m, u
    <2> QED
      BY <2>1, OutTypes
  <1>k. \A old \in Holds : KillOf(s, old) \in [Server -> Seq(Msg)]
    <2> SUFFICES ASSUME NEW old \in Holds
                 PROVE  KillOf(s, old) \in [Server -> Seq(Msg)]
      OBVIOUS
    <2>1. old \in User
      BY <1>0 DEF Holders, TypeOK
    <2>2. KillLine(old) \in Msg
      BY <2>1 DEF KillLine, Msg
    <2>3. FloodAll(KillLine(old)) \in [Server -> Seq(Msg)]
      BY <2>2, OutTypes
    <2> QED
      BY <1>o, <2>3 DEF KillOf
  <1>n. /\ m.nick \in Nick \cup {NoNick} /\ m.ts \in 0..MaxTS
        /\ \A old \in Holds : {old} \in SUBSET users[s] /\ {old} \in SUBSET User
    BY <1>0, <1>2, NobodyTypes DEF Holders, TypeOK
  <1>g. ASSUME Good
        PROVE  /\ Remote(s, u) /\ Home[u] \in servers[s] /\ u \notin users[s]
    <2>1. Remote(s, u) /\ Home[u] \in servers[s]
      BY <1>g DEF SrcServer, Remote
    <2> QED
      BY <1>g, <2>1 DEF IInv, Support
  <1>4. ASSUME Good, Holds = {}, Settle(s, {}, {u}, m.nick, m.ts),
               chan' = SentOnRead(s, p, forward), UNCHANGED <<servers, lc, faults, moves>>
        PROVE  IInv'
    <2>1. chan' \in [Link -> Seq(Msg)]
      BY <1>0, <1>1, <1>o, <1>4, SentOnReadType
    <2>2. \A v \in users[s] : nick[s][v] # m.nick
      BY <1>4 DEF Holders
    <2> HIDE DEF m, u
    <2> QED
      BY <1>2, <1>n, <1>g, <1>4, <2>1, <2>2, NobodyTypes, SettleStep
  <1>5. ASSUME Good, NEW old \in Holds, Settle(s, {old}, {u}, m.nick, m.ts),
               chan' = SentOnRead(s, p, Then(KillOf(s, old), forward)),
               UNCHANGED <<servers, lc, faults, moves>>
        PROVE  IInv'
    <2>0. Then(KillOf(s, old), forward) \in [Server -> Seq(Msg)]
      BY <1>o, <1>k, ThenType
    <2>1. chan' \in [Link -> Seq(Msg)]
      BY <1>0, <1>1, <1>5, <2>0, SentOnReadType
    <2>2. \A v \in users[s] : nick[s][v] = m.nick => v = old
      BY DEF Holders, IInv, NickUnique
    <2>3. u # old
      BY <1>5, <1>g DEF Holders
    <2>4. /\ \A v \in {u} : Remote(s, v) /\ v \notin {old} /\ Home[v] \in servers[s]
          /\ \A v, w \in {u} : v = w
          /\ m.nick \in Nick /\ m.ts \in Time
          /\ \A v \in users[s] : nick[s][v] = m.nick => v \in {old} \cup {u}
      BY <1>2, <1>g, <1>5, <2>2, <2>3
    <2>5. {old} \in SUBSET users[s] /\ {u} \in SUBSET User
      BY <1>2, <1>n
    <2> HIDE DEF m, u, Holds
    <2> QED
      BY <1>n, <1>5, <2>1, <2>4, <2>5, SettleStep
  <1>6. ASSUME NEW old \in Holds, Settle(s, {old}, {}, NoNick, 0),
               chan' = SentOnRead(s, p, Then(killBack, KillOf(s, old))),
               UNCHANGED <<servers, lc, faults, moves>>
        PROVE  IInv'
    <2>0. Then(killBack, KillOf(s, old)) \in [Server -> Seq(Msg)]
      BY <1>o, <1>k, ThenType
    <2>1. chan' \in [Link -> Seq(Msg)]
      BY <1>0, <1>1, <1>6, <2>0, SentOnReadType
    <2> HIDE DEF Holds
    <2> QED
      BY <1>n, <1>6, <2>1, NobodyTypes, SettleStep
  <1>7. ASSUME Settle(s, {}, {}, NoNick, 0), chan' = SentOnRead(s, p, killBack),
               UNCHANGED <<servers, lc, faults, moves>>
        PROVE  IInv'
    <2>1. chan' \in [Link -> Seq(Msg)]
      BY <1>0, <1>1, <1>o, <1>7, SentOnReadType
    <2> QED
      BY <1>7, <2>1, NobodyTypes, SettleStep
  <1> QED
    BY <1>3, <1>4, <1>5, <1>6, <1>7 DEF HandleUid

\* handle_nick: the renamer or the holder of the nick goes, never neither.
LEMMA HandleNickKeeps ==
    ASSUME IInv, NEW s \in Server, NEW p \in Server, HandleNick(s, p)
    PROVE  IInv'
  <1> DEFINE m == Head(chan[<<p, s>>])
             u == m.user
             Clash == Holders(s, m.nick) \ {u}
             forward == Flood(p, NickLine(u, m.nick, m.ts))
  <1>0. TypeOK /\ Reading(s, p, "NICK")
    BY DEF IInv, HandleNick
  <1>1. <<p, s>> \in Link /\ chan[<<p, s>>] # << >> /\ m \in Msg /\ m.type = "NICK"
    BY <1>0, ReadingFields
  <1>2. u \in User /\ m.nick \in Nick /\ m.ts \in Time
    BY <1>1, MsgFields
  <1>3. CASE Ignore(s, p)
    BY <1>0, <1>3, IgnoreKeeps
  <1>o. /\ forward \in [Server -> Seq(Msg)]
        /\ FloodAll(KillLine(u)) \in [Server -> Seq(Msg)]
        /\ Nothing \in [Server -> Seq(Msg)]
    <2>1. NickLine(u, m.nick, m.ts) \in Msg /\ KillLine(u) \in Msg
      BY <1>2, LineTypes
    <2> HIDE DEF m, u
    <2> QED
      BY <2>1, OutTypes
  <1>k. \A old \in Clash : KillOf(s, old) \in [Server -> Seq(Msg)]
    <2> SUFFICES ASSUME NEW old \in Clash
                 PROVE  KillOf(s, old) \in [Server -> Seq(Msg)]
      OBVIOUS
    <2>1. old \in User
      BY <1>0 DEF Holders, TypeOK
    <2>2. KillLine(old) \in Msg
      BY <2>1 DEF KillLine, Msg
    <2>3. FloodAll(KillLine(old)) \in [Server -> Seq(Msg)]
      BY <2>2, OutTypes
    <2> QED
      BY <1>o, <2>3 DEF KillOf
  <1>n. /\ m.nick \in Nick \cup {NoNick} /\ m.ts \in 0..MaxTS
        /\ \A old \in Clash : {old} \in SUBSET users[s]
    BY <1>0, <1>2, NobodyTypes DEF Holders, TypeOK
  <1>g. ASSUME SrcUser(s, p, u)
        PROVE  Remote(s, u) /\ Home[u] \in servers[s] /\ u \in users[s]
    BY <1>g DEF SrcUser, IInv, RemoteAnchored
  <1>4. ASSUME SrcUser(s, p, u), Clash = {}, Settle(s, {}, {u}, m.nick, m.ts),
               chan' = SentOnRead(s, p, forward), UNCHANGED <<servers, lc, faults, moves>>
        PROVE  IInv'
    <2>1. chan' \in [Link -> Seq(Msg)]
      BY <1>0, <1>1, <1>o, <1>4, SentOnReadType
    <2>2. \A v \in users[s] : nick[s][v] = m.nick => v \in {} \cup {u}
      BY <1>4 DEF Holders
    <2> HIDE DEF m, u
    <2> QED
      BY <1>2, <1>n, <1>g, <1>4, <2>1, <2>2, NobodyTypes, SettleStep
  <1>5. ASSUME SrcUser(s, p, u), NEW old \in Clash, Settle(s, {old}, {u}, m.nick, m.ts),
               chan' = SentOnRead(s, p, Then(KillOf(s, old), forward)),
               UNCHANGED <<servers, lc, faults, moves>>
        PROVE  IInv'
    <2>0. Then(KillOf(s, old), forward) \in [Server -> Seq(Msg)]
      BY <1>o, <1>k, ThenType
    <2>1. chan' \in [Link -> Seq(Msg)]
      BY <1>0, <1>1, <1>5, <2>0, SentOnReadType
    <2>2. \A v \in users[s] : nick[s][v] = m.nick => v = old
      BY DEF Holders, IInv, NickUnique
    <2>4. /\ \A v \in {u} : Remote(s, v) /\ v \notin {old} /\ Home[v] \in servers[s]
          /\ \A v, w \in {u} : v = w
          /\ m.nick \in Nick /\ m.ts \in Time
          /\ \A v \in users[s] : nick[s][v] = m.nick => v \in {old} \cup {u}
      BY <1>2, <1>g, <1>5, <2>2
    <2>5. {old} \in SUBSET users[s] /\ {u} \in SUBSET User
      BY <1>2, <1>n
    <2> HIDE DEF m, u, Clash
    <2> QED
      BY <1>n, <1>5, <2>1, <2>4, <2>5, SettleStep
  <1>6. ASSUME SrcUser(s, p, u), Settle(s, {u}, {}, NoNick, 0),
               chan' = SentOnRead(s, p, FloodAll(KillLine(u))),
               UNCHANGED <<servers, lc, faults, moves>>
        PROVE  IInv'
    <2>1. chan' \in [Link -> Seq(Msg)]
      BY <1>0, <1>1, <1>o, <1>6, SentOnReadType
    <2>2. {u} \in SUBSET users[s]
      BY <1>6, <1>g
    <2> HIDE DEF m, u
    <2> QED
      BY <1>6, <2>1, <2>2, NobodyTypes, SettleStep
  <1> QED
    BY <1>3, <1>4, <1>5, <1>6 DEF HandleNick

\* handle_quit removes a user that is in both tables.
LEMMA HandleQuitKeeps ==
    ASSUME IInv, NEW s \in Server, NEW p \in Server, HandleQuit(s, p)
    PROVE  IInv'
  <1> DEFINE u == Head(chan[<<p, s>>]).user
  <1>0. TypeOK /\ Reading(s, p, "QUIT")
    BY DEF IInv, HandleQuit
  <1>1. <<p, s>> \in Link /\ chan[<<p, s>>] # << >> /\ u \in User
    BY <1>0, ReadingFields, MsgFields
  <1>2. CASE Ignore(s, p)
    BY <1>0, <1>2, IgnoreKeeps
  <1>3. ASSUME SrcUser(s, p, u), Settle(s, {u}, {}, NoNick, 0),
               chan' = SentOnRead(s, p, Flood(p, QuitLine(u))),
               UNCHANGED <<servers, lc, faults, moves>>
        PROVE  IInv'
    <2>1. QuitLine(u) \in Msg
      BY <1>1 DEF QuitLine, Msg
    <2>2. Flood(p, QuitLine(u)) \in [Server -> Seq(Msg)]
      BY <2>1, OutTypes
    <2>3. chan' \in [Link -> Seq(Msg)]
      BY <1>0, <1>1, <1>3, <2>2, SentOnReadType
    <2>4. {u} \in SUBSET users[s]
      BY <1>3 DEF SrcUser, IInv, RemoteAnchored
    <2> HIDE DEF u
    <2> QED
      BY <1>3, <2>3, <2>4, NobodyTypes, SettleStep
  <1> QED
    BY <1>2, <1>3 DEF HandleQuit

\* handle_kill marks a user of ours, or passes the line on.
LEMMA HandleKillKeeps ==
    ASSUME IInv, NEW s \in Server, NEW p \in Server, HandleKill(s, p)
    PROVE  IInv'
  <1> DEFINE u == Head(chan[<<p, s>>]).user
  <1>0. TypeOK /\ Reading(s, p, "KILL")
    BY DEF IInv, HandleKill
  <1>1. <<p, s>> \in Link /\ chan[<<p, s>>] # << >> /\ u \in User /\ Home[u] \in Server
    BY <1>0, ReadingFields, MsgFields, HomeType
  <1>2. CASE Ignore(s, p)
    BY <1>0, <1>2, IgnoreKeeps
  <1>3. ASSUME u \in byUid[s], ~Remote(s, u), alive' = [alive EXCEPT ![u] = "quitting"],
               chan' = SentOnRead(s, p, Nothing),
               UNCHANGED <<users, byUid, nick, nickTs, servers, lc, faults, moves>>
        PROVE  IInv'
    <2>1. Nothing \in [Server -> Seq(Msg)]
      BY DEF Nothing
    <2>2. chan' \in [Link -> Seq(Msg)]
      BY <1>0, <1>1, <1>3, <2>1, SentOnReadType
    <2>3. u \in users[s] \cup byUid[s] /\ Home[u] = s
      BY <1>3 DEF Remote
    <2> HIDE DEF u
    <2> QED
      BY <1>1, <1>3, <2>2, <2>3, MarkQuitKeeps
  <1>4. ASSUME chan' = SentOnRead(s, p, RouteTo(Route[s][Home[u]], KillLine(u))),
               UNCHANGED <<alive, users, byUid, nick, nickTs, servers, lc, faults, moves>>
        PROVE  IInv'
    <2>1. KillLine(u) \in Msg /\ Route[s][Home[u]] \in Server
      BY <1>1, RouteType DEF KillLine, Msg
    <2>2. RouteTo(Route[s][Home[u]], KillLine(u)) \in [Server -> Seq(Msg)]
      BY <2>1, OutTypes
    <2>3. chan' \in [Link -> Seq(Msg)] /\ moves' \in 0..MaxMoves
      BY <1>0, <1>1, <1>4, <2>2, SentOnReadType DEF TypeOK
    <2> QED
      BY <1>4, <2>3, ChanKeeps
  <1> QED
    BY <1>2, <1>3, <1>4 DEF HandleKill

\* handle_server files a server that hangs off one already in the table.
LEMMA HandleServerKeeps ==
    ASSUME IInv, NEW s \in Server, NEW p \in Server, HandleServer(s, p)
    PROVE  IInv'
  <1> DEFINE t == Head(chan[<<p, s>>]).sid
             known == t \in servers[s]
  <1>0. TypeOK /\ Reading(s, p, "SERVER") /\ lc[s][p] \in {"up", "closing"}
    BY DEF IInv, HandleServer, Reading
  <1>1. <<p, s>> \in Link /\ chan[<<p, s>>] # << >> /\ t \in Server
    BY <1>0, ReadingFields, MsgFields
  <1>2. CASE Ignore(s, p)
    BY <1>0, <1>2, IgnoreKeeps
  <1>3. ASSUME known, lc' = [lc EXCEPT ![s][p] = "closing"], chan' = SentOnRead(s, p, Nothing),
               servers' = [servers EXCEPT ![s] = @ \cup {t}],
               UNCHANGED <<alive, users, byUid, nick, nickTs, faults, moves>>
        PROVE  IInv'
    <2>1. Nothing \in [Server -> Seq(Msg)]
      BY DEF Nothing
    <2>2. chan' \in [Link -> Seq(Msg)]
      BY <1>0, <1>1, <1>3, <2>1, SentOnReadType
    <2>3. UNCHANGED servers
      BY <1>0, <1>3 DEF TypeOK
    <2>4. faults' \in 0..MaxFaults /\ moves' \in 0..MaxMoves
      BY <1>0, <1>3 DEF TypeOK
    <2> QED
      BY <1>0, <1>3, <2>2, <2>3, <2>4, ClosingKeeps
  <1>4. ASSUME ~known, SrcServer(s, p, Route[t][s]), UNCHANGED lc,
               chan' = SentOnRead(s, p, Flood(p, ServerLine(t))),
               servers' = [servers EXCEPT ![s] = @ \cup {t}],
               UNCHANGED <<alive, users, byUid, nick, nickTs, faults, moves>>
        PROVE  IInv'
    <2>1. ServerLine(t) \in Msg
      BY <1>1 DEF ServerLine, Msg
    <2>2. Flood(p, ServerLine(t)) \in [Server -> Seq(Msg)]
      BY <2>1, OutTypes
    <2>3. chan' \in [Link -> Seq(Msg)]
      BY <1>0, <1>1, <1>4, <2>2, SentOnReadType
    <2>4. TypeOK'
      BY <1>0, <1>1, <1>4, <2>3 DEF TypeOK
    <2>5. /\ servers'[s] = servers[s] \cup {t}
          /\ \A x \in Server : x # s => servers'[x] = servers[x]
      BY <1>0, <1>4 DEF TypeOK
    <2>6. NickUnique' /\ RemoteAnchored' /\ OpenHoldsNick' /\ Support'
      BY <1>4, <2>5 DEF IInv, NickUnique, RemoteAnchored, OpenHoldsNick, Support, Remote
    <2>7. t # s
      BY <1>4 DEF IInv, Support
    <2>8. /\ Route[t][s] \in servers[s] /\ Route[t][s] # s
          /\ lc[s][Route[s][t]] \in {"up", "closing"}
      <3>1. Route[t][s] \in servers[s] /\ Route[t][s] # s
        BY <1>4 DEF SrcServer
      <3>2. Route[s][t] = Route[s][Route[t][s]]
        BY <1>1, <2>7, <3>1, UplinkRoute
      <3> QED
        BY <3>1, <3>2 DEF IInv, ServerAnchored
    <2>9. ServerAnchored'
      <3> SUFFICES ASSUME NEW x \in Server, NEW y \in servers'[x] \ {x}
                   PROVE  Route[y][x] \in servers'[x] /\ lc'[x][Route[x][y]] \in {"up", "closing"}
        BY DEF ServerAnchored
      <3>1. CASE y \in servers[x]
        BY <1>4, <2>5, <3>1 DEF IInv, ServerAnchored
      <3>2. CASE y \notin servers[x]
        BY <1>4, <2>5, <2>8, <3>2
      <3> QED
        BY <3>1, <3>2
    <2> QED
      BY <2>4, <2>6, <2>9 DEF IInv
  <1> QED
    BY <1>2, <1>3, <1>4 DEF HandleServer

\* handle_squit: a subtree goes, or the link closes.
LEMMA HandleSquitKeeps ==
    ASSUME IInv, NEW s \in Server, NEW p \in Server, HandleSquit(s, p)
    PROVE  IInv'
  <1> DEFINE t == Head(chan[<<p, s>>]).sid
  <1>0. TypeOK /\ Reading(s, p, "SQUIT") /\ lc[s][p] \in {"up", "closing"}
    BY DEF IInv, HandleSquit, Reading
  <1>1. <<p, s>> \in Link /\ chan[<<p, s>>] # << >> /\ t \in Server
    BY <1>0, ReadingFields, MsgFields
  <1>2. CASE Ignore(s, p)
    BY <1>0, <1>2, IgnoreKeeps
  <1>3. ASSUME lc' = [lc EXCEPT ![s][p] = "closing"], chan' = SentOnRead(s, p, Nothing),
               UNCHANGED <<alive, users, byUid, nick, nickTs, servers>>,
               UNCHANGED <<faults, moves>>
        PROVE  IInv'
    <2>1. Nothing \in [Server -> Seq(Msg)]
      BY DEF Nothing
    <2>2. chan' \in [Link -> Seq(Msg)]
      BY <1>0, <1>1, <1>3, <2>1, SentOnReadType
    <2>4. faults' \in 0..MaxFaults /\ moves' \in 0..MaxMoves
      BY <1>0, <1>3 DEF TypeOK
    <2> QED
      BY <1>0, <1>3, <2>2, <2>4, ClosingKeeps
  <1>4. ASSUME SrcServer(s, p, t), RemoveServerTree(s, t),
               chan' = SentOnRead(s, p, Flood(p, SquitLine(t))),
               UNCHANGED lc, UNCHANGED <<faults, moves>>
        PROVE  IInv'
    <2>1. SquitLine(t) \in Msg
      BY <1>1 DEF SquitLine, Msg
    <2>2. Flood(p, SquitLine(t)) \in [Server -> Seq(Msg)]
      BY <2>1, OutTypes
    <2>3. chan' \in [Link -> Seq(Msg)]
      BY <1>0, <1>1, <1>4, <2>2, SentOnReadType
    <2>4. t # s
      BY <1>4 DEF SrcServer
    <2> HIDE DEF t
    <2> QED
      BY <1>1, <1>4, <2>3, <2>4, TreeKeeps
  <1> QED
    BY <1>2, <1>3, <1>4 DEF HandleSquit

\* link_reap drops the servers and users beyond the link.
LEMMA ReapKeeps ==
    ASSUME IInv, NEW s \in Server, NEW p \in Server, Reap(s, p)
    PROVE  IInv'
  <1>0. TypeOK /\ <<s, p>> \in Link /\ <<p, s>> \in Link /\ p # s
    BY LinkSymmetric DEF IInv, Reap, Link
  <1>1. SquitLine(p) \in Msg
    BY DEF SquitLine, Msg
  <1>2. Flood(p, SquitLine(p)) \in [Server -> Seq(Msg)]
    BY <1>1, OutTypes
  <1>3. Sent(s, Flood(p, SquitLine(p))) \in [Link -> Seq(Msg)]
    BY <1>0, <1>2, SentType
  <1>4. << >> \in Seq(Msg)
    OBVIOUS
  <1>5. chan' \in [Link -> Seq(Msg)]
    BY <1>0, <1>3, <1>4 DEF Reap
  <1>6. /\ RemoveServerTree(s, p) /\ UNCHANGED <<faults, moves>>
        /\ lc' \in {lc, [lc EXCEPT ![s][p] = "down"]}
    BY DEF Reap
  <1> QED
    BY <1>0, <1>5, <1>6, TreeKeeps

\* A link that is closed, from outside or at the end of its stream.
LEMMA CloseKeeps ==
    ASSUME IInv, NEW s \in Server, NEW p \in Server, CloseLink(s, p) \/ ReadEof(s, p)
    PROVE  IInv'
  <1>1. /\ lc[s][p] \in {"up", "closing"} /\ lc' = [lc EXCEPT ![s][p] = "closing"]
        /\ UNCHANGED <<alive, users, byUid, nick, nickTs, servers>>
    BY DEF CloseLink, ReadEof
  <1>2. chan' \in [Link -> Seq(Msg)] /\ faults' \in 0..MaxFaults /\ moves' \in 0..MaxMoves
    BY BoundType DEF CloseLink, ReadEof, IInv, TypeOK
  <1> QED
    BY <1>1, <1>2, ClosingKeeps

\* An oper's KILL only leaves a line on a link.
LEMMA OperKillKeeps ==
    ASSUME IInv, NEW s \in Server, NEW u \in User, OperKill(s, u)
    PROVE  IInv'
  <1>1. KillLine(u) \in Msg /\ Route[s][Home[u]] \in Server /\ TypeOK
    BY HomeType, RouteType DEF KillLine, Msg, IInv
  <1>2. RouteTo(Route[s][Home[u]], KillLine(u)) \in [Server -> Seq(Msg)]
    BY <1>1, OutTypes
  <1>3. chan' \in [Link -> Seq(Msg)]
    BY <1>1, <1>2, SentType DEF OperKill
  <1>4. moves' \in 0..MaxMoves
    BY <1>1, BoundType DEF OperKill, TypeOK
  <1> QED
    BY <1>3, <1>4, ChanKeeps DEF OperKill

(***************************************************************************)
(* The tables of each server: the theorems.                                *)
(***************************************************************************)

\* The start-up state has empty tables and no link.
LEMMA InitIInv == Init => IInv
  <1> SUFFICES ASSUME Init PROVE IInv
    OBVIOUS
  <1>1. TypeOK
    BY BoundType DEF Init, TypeOK
  <1>2. NickUnique /\ RemoteAnchored /\ ServerAnchored /\ OpenHoldsNick /\ Support
    BY DEF Init, NickUnique, RemoteAnchored, ServerAnchored, OpenHoldsNick, Support
  <1> QED
    BY <1>1, <1>2 DEF IInv

\* Every step of a client, a service, an oper or a link keeps the invariant.
LEMMA NextIInv == IInv /\ [Next]_vars => IInv'
  <1> SUFFICES ASSUME IInv, [Next]_vars PROVE IInv'
    OBVIOUS
  <1>1. ASSUME NEW u \in User, NEW n \in Nick, NickUnregistered(u, n) PROVE IInv'
    BY <1>1, NickUnregisteredKeeps
  <1>2. ASSUME NEW u \in User, NEW t \in Time, Register(u, t) PROVE IInv'
    BY <1>2, RegisterKeeps
  <1>3. ASSUME NEW u \in User, NEW n \in Nick, NEW t \in Time, ServiceNick(u, n, t) PROVE IInv'
    BY <1>3, ServiceNickKeeps
  <1>4. ASSUME NEW u \in User, NEW n \in Nick, NEW t \in Time,
               NickRegistered(u, n, t) \/ SvsNick(u, n, t)
        PROVE  IInv'
    BY <1>4, RenameKeeps DEF NickRegistered, SvsNick
  <1>5. ASSUME NEW u \in User, MarkQuit(u) PROVE IInv'
    <2>1. u \in users[Home[u]] \cup byUid[Home[u]] /\ Home[u] \in Server
      BY <1>5, HomeType DEF MarkQuit, IInv, OpenHoldsNick
    <2>2. chan' \in [Link -> Seq(Msg)]
      BY <1>5 DEF MarkQuit, IInv, TypeOK
    <2> QED
      BY <1>5, <2>1, <2>2, MarkQuitKeeps DEF MarkQuit
  <1>6. ASSUME NEW u \in User, Teardown(u) \/ ServiceGone(u) PROVE IInv'
    BY <1>6, RemoveLocalKeeps DEF Teardown, ServiceGone
  <1>7. CASE ClientStep
    BY <1>1, <1>2, <1>3, <1>4, <1>5, <1>6, <1>7 DEF ClientStep
  <1>8. ASSUME NEW s \in Server, NEW u \in User, OperKill(s, u) PROVE IInv'
    BY <1>8, OperKillKeeps
  <1>9. ASSUME NEW s \in Server, NEW p \in Server, Receive(s, p) PROVE IInv'
    BY <1>9, HandleUidKeeps, HandleNickKeeps, HandleQuitKeeps, HandleKillKeeps,
       HandleServerKeeps, HandleSquitKeeps DEF Receive
  <1>10. ASSUME NEW s \in Server, NEW p \in Server,
                LinkUp(s, p) \/ CloseLink(s, p) \/ ReadEof(s, p) \/ Reap(s, p)
         PROVE  IInv'
    BY <1>10, LinkUpKeeps, CloseKeeps, ReapKeeps
  <1>11. CASE UNCHANGED vars
    BY <1>11 DEF vars, IInv, TypeOK, NickUnique, RemoteAnchored, ServerAnchored, OpenHoldsNick,
                 Support, Remote
  <1> QED
    BY <1>7, <1>8, <1>9, <1>10, <1>11 DEF Next

\* The tables of every server stay consistent, for every tree of servers.
THEOREM Inductive == Spec => []IInv
  BY InitIInv, NextIInv, PTL DEF Spec

\* Every variable keeps its type: in particular every line on a link is well
\* formed, so a UID is never announced without a nick and a timestamp.
THEOREM TypeCorrect == Spec => []TypeOK
  <1>1. IInv => TypeOK
    BY DEF IInv
  <1> QED
    BY <1>1, Inductive, PTL

\* No server ever files two users under one nick (server_add_user never checks).
THEOREM NickUniqueHolds == Spec => []NickUnique
  <1>1. IInv => NickUnique
    BY DEF IInv
  <1> QED
    BY <1>1, Inductive, PTL

\* A remote user is always in the nick hash and its server in the server table, so
\* remove_server_tree misses nobody and no client points to a freed server.
THEOREM RemoteAnchoredHolds == Spec => []RemoteAnchored
  <1>1. IInv => RemoteAnchored
    BY DEF IInv
  <1> QED
    BY <1>1, Inductive, PTL

\* Every server of a table hangs off another one of it, through a link that has
\* not been reaped: remove_server_tree leaves no dangling uplink or route.
THEOREM ServerAnchoredHolds == Spec => []ServerAnchored
  <1>1. IInv => ServerAnchored
    BY DEF IInv
  <1> QED
    BY <1>1, Inductive, PTL

\* A netsplit leaves neither a user nor a server that points to a server it freed.
THEOREM AnchoredHolds == Spec => []Anchored
  <1>1. RemoteAnchored /\ ServerAnchored => Anchored
    BY DEF Anchored
  <1> QED
    BY <1>1, RemoteAnchoredHolds, ServerAnchoredHolds, PTL

\* An open connection with a nick is in the hash under it: cmd_nick's unchecked
\* HASH_DEL always deletes an entry that is there.
THEOREM OpenHoldsNickHolds == Spec => []OpenHoldsNick
  <1>1. IInv => OpenHoldsNick
    BY DEF IInv
  <1> QED
    BY <1>1, Inductive, PTL

(***************************************************************************)
(* All tables together: the tree, further.                                 *)
(***************************************************************************)
\* The servers s may have a link to.
Neighbours(s) == {p \in Server : <<p, s>> \in Link}
\* The servers s hears about from p.
Beyond(s, p) == {t \in Server : t # s /\ Route[s][t] = p}
\* The servers from z to h.
Path(z, h) == {w \in Server : w = z \/ IsBehind(z, h, w)}

\* Neighbours are neighbours of each other, and the way to one is direct.
LEMMA Edge ==
    ASSUME NEW s \in Server, NEW p \in Neighbours(s)
    PROVE  p \in Server /\ p # s /\ <<p, s>> \in Link /\ <<s, p>> \in Link /\ Route[s][p] = p /\ Route[p][s] = s
           /\ s \in Neighbours(p)
  <1>1. p \in Server /\ <<p, s>> \in Link
    BY DEF Neighbours
  <1>2. <<s, p>> \in Link
    BY <1>1, LinkSymmetric
  <1> QED
    BY <1>1, <1>2 DEF Link, Neighbours

\* The first server on the way to another one is a neighbour.
LEMMA Hop ==
    ASSUME NEW x \in Server, NEW s \in Server, x # s
    PROVE  Route[x][s] \in Neighbours(x)
  <1>1. Route[x][s] \in Server /\ <<x, Route[x][s]>> \in Link
    BY RouteType, RouteAdjacent
  <1> QED
    BY <1>1, LinkSymmetric DEF Neighbours

\* Going on towards s, one leaves every set of servers without s.
LEMMA NoLoop ==
    ASSUME NEW s \in Server, NEW C \in SUBSET Server, C # {}, s \notin C
    PROVE  \E x \in C : Route[x][s] \notin C
<1> SUFFICES ASSUME \A x \in C : Route[x][s] \in C  PROVE FALSE  OBVIOUS
<1> DEFINE Closed(D) == D \subseteq Server /\ D # {} /\ s \notin D /\ \A x \in D : Route[x][s] \in D
           Sizes == {Cardinality(D) : D \in {D \in SUBSET Server : Closed(D)}}
<1>1. \A D \in SUBSET Server : IsFiniteSet(D) /\ Cardinality(D) \in Nat
  BY ServerFinite, FS_Subset, FS_CardinalityType
<1>2. Sizes \subseteq Nat /\ Sizes # {}
  <2>1. Sizes \subseteq Nat  BY <1>1
  <2>2. Cardinality(C) \in Sizes  OBVIOUS
  <2> QED  BY <2>1, <2>2
<1>3. PICK n \in Sizes : \A m \in Sizes : ~(<<m, n>> \in OpToRel(<, Nat))
  <2> HIDE DEF Sizes
  <2> QED  BY <1>2, NatLessThanWellFounded, WFMin
<1>4. PICK D \in SUBSET Server : Closed(D) /\ n = Cardinality(D)  OBVIOUS
<1>5. PICK r \in D : TRUE  BY <1>4
<1> DEFINE T == {w \in D : w # r /\ Route[r][w] = Route[r][s]}
<1>6. Route[r][s] \in T
  <2>1. Route[r][s] \in Neighbours(r) /\ Route[r][s] \in D  BY <1>4, <1>5, Hop
  <2>2. Route[r][s] # r /\ Route[r][Route[r][s]] = Route[r][s]  BY <1>4, <1>5, <2>1, Edge
  <2> QED  BY <2>1, <2>2
<1>7. ASSUME NEW w \in T  PROVE Route[w][s] \in T
  <2> DEFINE z == Route[w][s]
  <2>1. w \in Server /\ r \in Server /\ w # s /\ w # r /\ z \in D /\ z \in Neighbours(w)  BY <1>4, <1>5, Hop
  <2>2. z \in Server /\ <<w, z>> \in Link /\ z # w  BY <2>1, Edge
  <2>3. z # r
    <3> SUFFICES ASSUME z = r  PROVE FALSE  OBVIOUS
    <3>1. Route[r][w] = w  BY <2>1, Edge
    <3>2. Route[r][s] = w  BY <3>1
    <3>3. r # s  BY <1>4, <1>5
    <3> QED  BY <2>1, <3>2, <3>3, RouteForward
  <2>4. Route[r][w] = Route[r][z]  BY <2>1, <2>2, <2>3, RouteShared
  <2> QED  BY <2>1, <2>3, <2>4
<1>8. Closed(T)  BY <1>4, <1>6, <1>7
<1>9. T \in SUBSET D /\ T # D  BY <1>5
<1>10. Cardinality(T) < n /\ Cardinality(T) \in Nat /\ n \in Nat
  <2> HIDE DEF T
  <2>1. IsFiniteSet(D) /\ Cardinality(D) \in Nat  BY <1>1
  <2>2. IsFiniteSet(T) /\ Cardinality(T) <= Cardinality(D) /\ Cardinality(T) # Cardinality(D)  BY <1>9, <2>1, FS_Subset
  <2>3. Cardinality(T) \in Nat  BY <2>2, FS_CardinalityType
  <2> QED  BY <1>4, <2>1, <2>2, <2>3
<1>11. Cardinality(T) \in Sizes
  <2>1. T \in SUBSET Server  BY <1>4
  <2> HIDE DEF T, Closed
  <2> QED  BY <1>8, <2>1
<1> HIDE DEF Sizes, T
<1>12. <<Cardinality(T), n>> \in OpToRel(<, Nat)  BY <1>10 DEF OpToRel
<1> QED  BY <1>3, <1>11, <1>12

\* Whoever is behind t is reached from s the way t is.
LEMMA SideOf ==
    ASSUME NEW s \in Server, NEW t \in Server, NEW x \in Server, t # s, x # s, IsBehind(s, x, t)
    PROVE  Route[s][x] = Route[s][t]
<1> DEFINE C == {y \in Server : y # s /\ y # t /\ Route[t][y] # Route[t][s] /\ Route[s][y] # Route[s][t]}
<1> SUFFICES ASSUME Route[s][x] # Route[s][t]  PROVE FALSE  OBVIOUS
<1>1. x \in C  BY DEF IsBehind
<1>2. PICK y \in C : Route[y][s] \notin C
  <2>1. C \in SUBSET Server /\ s \notin C /\ C # {}  BY <1>1
  <2> HIDE DEF C
  <2> QED  BY <2>1, NoLoop
<1> DEFINE z == Route[y][s]
<1>3. z \in Neighbours(y)  BY <1>2, Hop
<1>4. z \in Server /\ z # y /\ <<z, y>> \in Link  BY <1>3, Edge
<1>5. CASE z = s  BY <1>2, <1>4, <1>5, RouteShared
<1>6. CASE z = t  BY <1>2, <1>4, <1>6, RouteShared
<1>7. CASE z # s /\ z # t
  <2>1. Route[s][z] = Route[s][y] /\ Route[t][z] = Route[t][y]  BY <1>2, <1>4, <1>7, RouteShared
  <2> QED  BY <1>2, <1>4, <1>7, <2>1
<1> QED  BY <1>5, <1>6, <1>7

\* Who is not reached through q is beyond s for q.
LEMMA Onward ==
    ASSUME NEW s \in Server, NEW q \in Neighbours(s), NEW t \in Server, t = s \/ Route[s][t] # q
    PROVE  t # q /\ Route[q][t] = s
  <1>1. q \in Server /\ q # s /\ Route[s][q] = q /\ Route[q][s] = s
    BY Edge
  <1>2. CASE t = s
    BY <1>1, <1>2
  <1>3. CASE t # s
    <2>1. t # q
      BY <1>1, <1>3
    <2>2. IsBehind(q, t, s)
      BY <1>1, <1>3, <2>1 DEF IsBehind
    <2> QED
      BY <1>1, <2>1, <2>2, SideOf
  <1> QED
    BY <1>2, <1>3

\* One end of a link hears about a server from the other end, or the other way round.
LEMMA OneSide ==
    ASSUME NEW s \in Server, NEW q \in Neighbours(s), NEW t \in Server
    PROVE  t \in Beyond(q, s) <=> t \notin Beyond(s, q)
  <1>1. q \in Server /\ q # s /\ Route[s][q] = q /\ Route[q][s] = s
    BY Edge
  <1>2. t \notin Beyond(s, q) => t \in Beyond(q, s)
    BY <1>1, Onward DEF Beyond
  <1>3. t \in Beyond(s, q) => t \notin Beyond(q, s)
    BY <1>1, RouteForward DEF Beyond
  <1> QED
    BY <1>2, <1>3

\* One step on, the path is the same but for the server left.
LEMMA PathStep ==
    ASSUME NEW z \in Server, NEW h \in Server, z # h
    PROVE  Path(Route[z][h], h) = Path(z, h) \ {z}
  <1> DEFINE y == Route[z][h]
  <1>1. y \in Server /\ y # z /\ <<z, y>> \in Link /\ Route[y][z] = z /\ Route[z][y] = y
    BY Hop, Edge
  <1>2. ASSUME NEW w \in Server, w # z, w # y
        PROVE  IsBehind(y, h, w) <=> IsBehind(z, h, w)
    BY <1>1, <1>2, RouteShared DEF IsBehind
  <1>3. IsBehind(z, h, y)
    BY <1>1, RouteForward DEF IsBehind
  <1>4. ~IsBehind(y, h, z)
    BY <1>1 DEF IsBehind
  <1> QED
    BY <1>1, <1>2, <1>3, <1>4 DEF Path

\* The path from a server of a path is part of it.
LEMMA PathWithin ==
    ASSUME NEW z \in Server, NEW h \in Server, NEW s \in Path(z, h)
    PROVE  Path(s, h) \subseteq Path(z, h)
  <1> SUFFICES ASSUME NEW v \in Path(s, h), s # z, v # s, v # z, v # h, ~IsBehind(z, h, v)
               PROVE  FALSE
    BY DEF Path, IsBehind
  <1>1. s \in Server /\ v \in Server /\ IsBehind(z, h, s) /\ IsBehind(s, h, v)
    BY DEF Path
  <1>2. Route[v][s] # Route[v][h] /\ Route[v][z] = Route[v][h]
    BY <1>1 DEF IsBehind
  <1>3. h # s
    BY <1>2
  <1>4. Route[s][z] = Route[s][v] /\ Route[s][h] = Route[s][v]
    BY <1>1, <1>2, <1>3, SideOf DEF IsBehind
  <1> QED
    BY <1>1, <1>3, <1>4 DEF IsBehind

\* A path that passes s comes to it from a neighbour.
LEMMA PathThrough ==
    ASSUME NEW z \in Server, NEW h \in Server, NEW s \in Path(z, h), s # z
    PROVE  LET y == Route[s][z]
           IN  y \in Neighbours(s) /\ y \in Path(z, h) /\ y # h /\ Route[y][h] = s
  <1> DEFINE y == Route[s][z]
  <1>1. s \in Server /\ IsBehind(z, h, s)
    BY DEF Path
  <1>2. y \in Neighbours(s) /\ y \in Server /\ y # s
    BY <1>1, Hop, Edge
  <1>3. y # h /\ Route[y][h] = s
    BY <1>1, <1>2, Onward DEF IsBehind
  <1>4. y \in Path(z, h)
    <2>1. CASE y = z
      BY <1>2, <2>1 DEF Path
    <2>2. CASE y # z
      BY <1>1, <1>2, <1>3, <2>2, RouteForward DEF Path, IsBehind
    <2> QED
      BY <2>1, <2>2
  <1> QED
    BY <1>2, <1>3, <1>4

(***************************************************************************)
(* Reading a stream: f[y][m] is what table y becomes once line m is read.  *)
(***************************************************************************)
\* A table and a line give a table.
IsStep(Y, f) == f \in [Y -> [Msg -> Y]]
\* h is what y becomes, line by line.
Runs(Y, f, y, q, h) ==
    /\ h \in [0..Len(q) -> Y] /\ h[0] = y
    /\ \A i \in 1..Len(q) : h[i] = f[h[i - 1]][q[i]]
\* What y becomes once all of q is read.
Run(Y, f, y, q) == (CHOOSE h : Runs(Y, f, y, q, h))[Len(q)]

\* A stream is read in one way only.
LEMMA RunsOnce ==
    ASSUME NEW Y, NEW f, IsStep(Y, f), NEW y \in Y, NEW q \in Seq(Msg),
           NEW g, Runs(Y, f, y, q, g), NEW h, Runs(Y, f, y, q, h)
    PROVE  g = h
  <1> USE DEF IsStep
  <1> DEFINE Bad == {i \in 0..Len(q) : g[i] # h[i]}
  <1>1. Len(q) \in Nat /\ g \in [0..Len(q) -> Y] /\ h \in [0..Len(q) -> Y] /\ g[0] = h[0]
    BY DEF Runs
  <1>2. \A i \in 1..Len(q) : g[i] = f[g[i - 1]][q[i]] /\ h[i] = f[h[i - 1]][q[i]]
    BY DEF Runs
  <1>3. CASE Bad = {}
    <2>1. \A i \in 0..Len(q) : g[i] = h[i]
      BY <1>3
    <2> HIDE DEF Bad
    <2> QED
      BY <1>1, <2>1
  <1>4. CASE Bad # {}
    <2>1. Bad \subseteq Nat
      BY <1>1
    <2>2. PICK n \in Bad : \A m \in Bad : ~(<<m, n>> \in OpToRel(<, Nat))
      <3> HIDE DEF Bad
      <3> QED
        BY <1>4, <2>1, NatLessThanWellFounded, WFMin
    <2>3. n \in 0..Len(q) /\ n # 0 /\ g[n] # h[n]
      BY <1>1
    <2>4. n \in 1..Len(q) /\ n - 1 \in 0..Len(q) /\ n - 1 < n /\ n - 1 \in Nat /\ n \in Nat
      BY <1>1, <2>3
    <2>5. g[n - 1] # h[n - 1]
      BY <1>2, <2>3, <2>4
    <2>6. n - 1 \in Bad /\ <<n - 1, n>> \in OpToRel(<, Nat)
      BY <2>4, <2>5 DEF OpToRel
    <2> QED
      BY <2>2, <2>6
  <1> QED
    BY <1>3, <1>4

\* So its outcome is that of any reading of it.
LEMMA RunIs ==
    ASSUME NEW Y, NEW f, IsStep(Y, f), NEW y \in Y, NEW q \in Seq(Msg),
           NEW h, Runs(Y, f, y, q, h)
    PROVE  Run(Y, f, y, q) = h[Len(q)]
  <1> DEFINE g == CHOOSE x : Runs(Y, f, y, q, x)
  <1>1. Runs(Y, f, y, q, g)
    OBVIOUS
  <1>2. Run(Y, f, y, q) = g[Len(q)]
    BY DEF Run
  <1> HIDE DEF g
  <1>3. g = h
    BY <1>1, RunsOnce
  <1> QED
    BY <1>2, <1>3

\* A reading goes on with a line more.
LEMMA RunsMore ==
    ASSUME NEW Y, NEW f, IsStep(Y, f), NEW y \in Y, NEW q \in Seq(Msg), NEW m \in Msg,
           NEW g, Runs(Y, f, y, q, g)
    PROVE  LET k == Len(q) + 1
               h == [i \in 0..k |-> IF i = k THEN f[g[Len(q)]][m] ELSE g[i]]
           IN  Runs(Y, f, y, Append(q, m), h) /\ Len(Append(q, m)) = k /\ h[k] = f[g[Len(q)]][m]
  <1> USE DEF IsStep
  <1> DEFINE k == Len(q) + 1
             h == [i \in 0..k |-> IF i = k THEN f[g[Len(q)]][m] ELSE g[i]]
             r == Append(q, m)
  <1>1. Len(q) \in Nat /\ k \in Nat /\ k # 0 /\ r \in Seq(Msg) /\ Len(r) = k /\ r[k] = m /\ \A i \in 1..Len(q) : r[i] = q[i]
    OBVIOUS
  <1>2. g \in [0..Len(q) -> Y] /\ g[0] = y /\ \A i \in 1..Len(q) : g[i] = f[g[i - 1]][q[i]]
    BY DEF Runs
  <1>3. f[g[Len(q)]][m] \in Y
    <2>1. Len(q) \in 0..Len(q)
      BY <1>1
    <2>2. g[Len(q)] \in Y
      BY <1>2, <2>1
    <2> QED
      BY <2>2
  <1>4. h \in [0..k -> Y] /\ h[0] = y /\ h[k] = f[g[Len(q)]][m]
    BY <1>1, <1>2, <1>3
  <1>5. ASSUME NEW i \in 1..k  PROVE h[i] = f[h[i - 1]][r[i]]
    <2>1. CASE i = k
      <3>1. i - 1 = Len(q) /\ i - 1 \in 0..k /\ i - 1 # k /\ i \in 0..k
        BY <1>1, <2>1
      <3> QED
        BY <1>1, <1>4, <2>1, <3>1
    <2>2. CASE i # k
      <3>1. i \in 1..Len(q) /\ i - 1 \in 0..k /\ i - 1 # k /\ i \in 0..k
        BY <1>1, <2>2
      <3> QED
        BY <1>1, <1>2, <2>2, <3>1
    <2> QED
      BY <2>1, <2>2
  <1> HIDE DEF h, k, r
  <1>6. Runs(Y, f, y, r, h)
    BY <1>1, <1>4, <1>5 DEF Runs
  <1> QED
    BY <1>1, <1>4, <1>6 DEF h, k, r

\* Every stream can be read to its end.
LEMMA RunsSome ==
    ASSUME NEW Y, NEW f, IsStep(Y, f), NEW y \in Y, NEW q \in Seq(Msg)
    PROVE  \E h : Runs(Y, f, y, q, h)
  <1> DEFINE Has(r) == \E h : Runs(Y, f, y, r, h)
             Bad == {Len(r) : r \in {r \in Seq(Msg) : ~Has(r)}}
  <1> SUFFICES ASSUME ~Has(q)  PROVE FALSE
    OBVIOUS
  <1>1. Bad \subseteq Nat /\ Bad # {}
    <2> HIDE DEF Has
    <2>1. \A r \in Seq(Msg) : Len(r) \in Nat
      OBVIOUS
    <2>2. Bad \subseteq Nat
      BY <2>1
    <2>3. Len(q) \in Bad
      OBVIOUS
    <2> QED
      BY <2>2, <2>3
  <1>2. PICK n \in Bad : \A m \in Bad : ~(<<m, n>> \in OpToRel(<, Nat))
    <2> HIDE DEF Bad
    <2> QED
      BY <1>1, NatLessThanWellFounded, WFMin
  <1>3. PICK r \in Seq(Msg) : ~Has(r) /\ n = Len(r)
    OBVIOUS
  <1>4. CASE r = << >>
    <2>1. Len(r) = 0
      BY <1>4
    <2>2. Runs(Y, f, y, r, [i \in 0..0 |-> y])
      BY <2>1 DEF Runs
    <2> QED
      BY <1>3, <2>2
  <1>5. CASE r # << >>
    <2> DEFINE v == [i \in 1..(Len(r) - 1) |-> r[i]]
               m == r[Len(r)]
    <2>1. v \in Seq(Msg) /\ m \in Msg /\ Len(v) = Len(r) - 1 /\ Len(r) \in Nat /\ Len(r) # 0
      BY <1>5
    <2>2. Append(v, m) = r
      BY <1>5
    <2> HIDE DEF v, m
    <2>3. Len(v) < n /\ Len(v) \in Nat /\ n \in Nat
      <3>1. n = Len(r) /\ Len(v) \in Nat
        BY <1>3, <2>1
      <3> HIDE DEF Bad
      <3> QED
        BY <2>1, <3>1
    <2>4. <<Len(v), n>> \in OpToRel(<, Nat)
      BY <2>3 DEF OpToRel
    <2>5. Len(v) \notin Bad
      BY <1>2, <2>4
    <2>6. Has(v)
      BY <2>1, <2>5
    <2>7. PICK g : Runs(Y, f, y, v, g)
      BY <2>6
    <2>8. Has(Append(v, m))
      BY <2>1, <2>7, RunsMore
    <2> QED
      BY <1>3, <2>2, <2>8
  <1> QED
    BY <1>4, <1>5

\* The outcome of a stream is that of some reading.
LEMMA RunKnown ==
    ASSUME NEW Y, NEW f, IsStep(Y, f), NEW y \in Y, NEW q \in Seq(Msg)
    PROVE  /\ Run(Y, f, y, q) \in Y
           /\ \E h : Runs(Y, f, y, q, h) /\ Run(Y, f, y, q) = h[Len(q)]
  <1>1. PICK h : Runs(Y, f, y, q, h)
    BY RunsSome
  <1>2. Run(Y, f, y, q) = h[Len(q)]
    BY <1>1, RunIs
  <1>3. h[Len(q)] \in Y
    <2>1. Len(q) \in 0..Len(q)
      OBVIOUS
    <2> QED
      BY <1>1, <2>1 DEF Runs
  <1> QED
    BY <1>1, <1>2, <1>3

\* Nothing read changes nothing.
LEMMA RunNone ==
    ASSUME NEW Y, NEW f, IsStep(Y, f), NEW y \in Y
    PROVE  Run(Y, f, y, << >>) = y
  <1> DEFINE e == << >>
  <1>1. e \in Seq(Msg) /\ Len(e) = 0
    OBVIOUS
  <1>2. PICK h : Runs(Y, f, y, e, h) /\ Run(Y, f, y, e) = h[Len(e)]
    BY <1>1, RunKnown
  <1>3. h[0] = y
    BY <1>2 DEF Runs
  <1> QED
    BY <1>1, <1>2, <1>3

\* A line more at the end of the stream.
LEMMA RunOn ==
    ASSUME NEW Y, NEW f, IsStep(Y, f), NEW y \in Y, NEW q \in Seq(Msg), NEW m \in Msg
    PROVE  Run(Y, f, y, Append(q, m)) = f[Run(Y, f, y, q)][m]
  <1>1. PICK g : Runs(Y, f, y, q, g) /\ Run(Y, f, y, q) = g[Len(q)]
    BY RunKnown
  <1> DEFINE k == Len(q) + 1
             h == [i \in 0..k |-> IF i = k THEN f[g[Len(q)]][m] ELSE g[i]]
  <1>2. Runs(Y, f, y, Append(q, m), h) /\ Len(Append(q, m)) = k /\ h[k] = f[g[Len(q)]][m]
    BY <1>1, RunsMore
  <1> HIDE DEF h, k
  <1>3. Append(q, m) \in Seq(Msg)
    OBVIOUS
  <1> QED
    BY <1>1, <1>2, <1>3, RunIs

\* After the first line the rest is read from what that line made of the table.
LEMMA RunsRest ==
    ASSUME NEW Y, NEW f, IsStep(Y, f), NEW y \in Y, NEW q \in Seq(Msg), q # << >>,
           NEW g, Runs(Y, f, y, q, g)
    PROVE  /\ Head(q) \in Msg /\ f[y][Head(q)] \in Y /\ Tail(q) \in Seq(Msg) /\ Len(q) = Len(Tail(q)) + 1
           /\ \A i \in 1..Len(Tail(q)) : Tail(q)[i] = q[i + 1]
           /\ Runs(Y, f, f[y][Head(q)], Tail(q), [i \in 0..Len(Tail(q)) |-> g[i + 1]])
  <1> USE DEF IsStep
  <1> DEFINE r == Tail(q)
             h == [i \in 0..Len(r) |-> g[i + 1]]
  <1>1. Len(q) \in Nat /\ r \in Seq(Msg) /\ Len(q) = Len(r) + 1 /\ Len(r) \in Nat /\ q[1] = Head(q) /\ Head(q) \in Msg
    OBVIOUS
  <1>2. \A i \in 1..Len(r) : r[i] = q[i + 1]
    OBVIOUS
  <1>3. g \in [0..Len(q) -> Y] /\ g[0] = y /\ \A i \in 1..Len(q) : g[i] = f[g[i - 1]][q[i]]
    BY DEF Runs
  <1>4. h[0] = f[y][Head(q)]
    BY <1>1, <1>3
  <1>5. h \in [0..Len(r) -> Y]
    BY <1>1, <1>3
  <1>6. ASSUME NEW i \in 1..Len(r)  PROVE h[i] = f[h[i - 1]][r[i]]
    <2>1. i + 1 \in 1..Len(q) /\ (i + 1) - 1 = i /\ i - 1 \in 0..Len(r) /\ (i - 1) + 1 = i /\ i \in 0..Len(r)
      BY <1>1
    <2>2. h[i - 1] = g[i] /\ h[i] = g[i + 1]
      BY <2>1
    <2> HIDE DEF h, r
    <2> QED
      BY <1>2, <1>3, <2>1, <2>2
  <1>7. f[y][Head(q)] \in Y
    BY <1>1
  <1> HIDE DEF h, r
  <1>8. Runs(Y, f, f[y][Head(q)], r, h)
    BY <1>4, <1>5, <1>6 DEF Runs
  <1> QED
    BY <1>1, <1>2, <1>7, <1>8 DEF h, r

\* A line less at its head.
LEMMA RunRead ==
    ASSUME NEW Y, NEW f, IsStep(Y, f), NEW y \in Y, NEW q \in Seq(Msg), q # << >>
    PROVE  Run(Y, f, y, q) = Run(Y, f, f[y][Head(q)], Tail(q))
  <1>1. PICK g : Runs(Y, f, y, q, g) /\ Run(Y, f, y, q) = g[Len(q)]
    BY RunKnown
  <1> DEFINE h == [i \in 0..Len(Tail(q)) |-> g[i + 1]]
  <1>2. Head(q) \in Msg /\ f[y][Head(q)] \in Y /\ Tail(q) \in Seq(Msg) /\ Len(q) = Len(Tail(q)) + 1
        /\ Runs(Y, f, f[y][Head(q)], Tail(q), h)
    BY <1>1, RunsRest
  <1>3. h[Len(Tail(q))] = g[Len(q)]
    <2>1. Len(Tail(q)) \in 0..Len(Tail(q))
      BY <1>2
    <2> QED
      BY <1>2, <2>1
  <1> HIDE DEF h
  <1> QED
    BY <1>1, <1>2, <1>3, RunIs

(***************************************************************************)
(* What the lines of p do to the tables of s.                              *)
(***************************************************************************)
\* Nothing, or a nick and its timestamp.
Entry == {<< >>} \cup {<<n, t>> : n \in Nick \cup {NoNick}, t \in Time}
\* What s knows of u: nothing, or a nick and its timestamp.
Copy(s, u) == IF u \in byUid[s] THEN <<nick[s][u], nickTs[s][u]>> ELSE << >>
\* The servers s has heard about from p.
Via(s, p) == servers[s] \cap Beyond(s, p)

\* Server tables, as far as one side of a server goes.
Sets == SUBSET Server
\* handle_server, handle_squit: the servers x of one side after m.
ServersAfter(s, x, m) ==
    IF m.type = "SERVER" THEN x \cup {m.sid}
    ELSE IF m.type = "SQUIT" THEN {t \in x : ~IsBehind(s, t, m.sid)} ELSE x
\* m makes s forget u.
Wipes(s, u, m) ==
    \/ m.type = "QUIT" /\ m.user = u
    \/ m.type = "SQUIT" /\ IsBehind(s, Home[u], m.sid)
\* handle_uid, handle_nick, handle_quit, handle_squit: the entry e of u after m, short of a collision.
After(s, u, e, m) ==
    IF Wipes(s, u, m) THEN << >>
    ELSE IF (m.type = "UID" /\ m.user = u /\ e = << >>) \/ (m.type = "NICK" /\ m.user = u /\ e # << >>)
    THEN <<m.nick, m.ts>> ELSE e

\* What p may say to s, which has the servers x on that side by then.
Claims(s, p, x, m) ==
    /\ m.type \in {"UID", "NICK", "QUIT"} => Home[m.user] \in Beyond(s, p)
    /\ m.type = "UID" => Home[m.user] \in x
    /\ m.type = "SERVER" =>
           m.sid \in Beyond(s, p) /\ m.sid \notin x /\ m.sid # p /\ Route[m.sid][s] \in x
    /\ m.type = "SQUIT" => m.sid \in x /\ m.sid # p

\* These as functions, to be run over a stream.
ServerStep(s) == [x \in Sets |-> [m \in Msg |-> ServersAfter(s, x, m)]]
\* The same for an entry.
UserStep(s, u) == [e \in Entry |-> [m \in Msg |-> After(s, u, e, m)]]
\* The servers of x, and the entry e for u, once s has read q.
ServersRead(s, x, q) == Run(Sets, ServerStep(s), x, q)
\* And the entry.
Read(s, u, e, q) == Run(Entry, UserStep(s, u), e, q)
\* The servers after each line.
Stages(s, x, q, h) == Runs(Sets, ServerStep(s), x, q, h)
\* Every line of q may be said when it is read.
Claimed(s, p, x, q) ==
    \E h : Stages(s, x, q, h) /\ \A i \in 1..Len(q) : Claims(s, p, h[i - 1], q[i])

\* Each line turns a set of servers into one.
LEMMA ServerStepType ==
    ASSUME NEW s \in Server
    PROVE  IsStep(Sets, ServerStep(s))
           /\ \A x \in Sets, m \in Msg : ServerStep(s)[x][m] = ServersAfter(s, x, m)
  <1>1. \A x \in Sets, m \in Msg : ServersAfter(s, x, m) \in Sets
    BY MsgFields DEF ServersAfter, Sets
  <1> QED
    BY <1>1 DEF ServerStep, IsStep

\* Each line turns an entry into one.
LEMMA UserStepType ==
    ASSUME NEW s \in Server, NEW u \in User
    PROVE  IsStep(Entry, UserStep(s, u))
           /\ \A e \in Entry, m \in Msg : UserStep(s, u)[e][m] = After(s, u, e, m) /\ After(s, u, e, m) \in Entry
  <1>1. \A e \in Entry, m \in Msg : After(s, u, e, m) \in Entry
    BY MsgFields DEF After, Entry
  <1> QED
    BY <1>1 DEF UserStep, IsStep

\* A set of numbers has an element whose predecessor is not in it.
LEMMA Least ==
    ASSUME NEW S \in SUBSET Nat, S # {}
    PROVE  \E n \in S : n = 0 \/ n - 1 \notin S
  <1>1. PICK n \in S : \A m \in S : ~(<<m, n>> \in OpToRel(<, Nat))
    BY NatLessThanWellFounded, WFMin
  <1>2. CASE n # 0 /\ n - 1 \in S
    <2>1. n - 1 \in Nat /\ n \in Nat /\ n - 1 < n
      BY <1>2
    <2>2. <<n - 1, n>> \in OpToRel(<, Nat)
      BY <2>1 DEF OpToRel
    <2> QED
      BY <1>1, <1>2, <2>2
  <1> QED
    BY <1>2

\* How an entry is read: from the first line on, and up to the last.
LEMMA ReadForm ==
    ASSUME NEW s \in Server, NEW u \in User, NEW e \in Entry, NEW q \in Seq(Msg)
    PROVE  /\ Read(s, u, e, q) \in Entry
           /\ Read(s, u, e, << >>) = e
           /\ \A m \in Msg : Read(s, u, e, Append(q, m)) = After(s, u, Read(s, u, e, q), m)
           /\ q # << >> => Head(q) \in Msg /\ Tail(q) \in Seq(Msg) /\ After(s, u, e, Head(q)) \in Entry
                           /\ Read(s, u, e, q) = Read(s, u, After(s, u, e, Head(q)), Tail(q))
  <1>1. IsStep(Entry, UserStep(s, u))
    BY UserStepType
  <1>2. Read(s, u, e, q) \in Entry
    BY <1>1, RunKnown DEF Read
  <1>3. Read(s, u, e, << >>) = e
    BY <1>1, RunNone DEF Read
  <1>4. ASSUME NEW m \in Msg
        PROVE  Read(s, u, e, Append(q, m)) = After(s, u, Read(s, u, e, q), m)
    BY <1>1, <1>2, RunOn, UserStepType DEF Read
  <1>5. ASSUME q # << >>
        PROVE  Head(q) \in Msg /\ Tail(q) \in Seq(Msg) /\ After(s, u, e, Head(q)) \in Entry
               /\ Read(s, u, e, q) = Read(s, u, After(s, u, e, Head(q)), Tail(q))
    <2>1. Head(q) \in Msg /\ Tail(q) \in Seq(Msg)
      BY <1>5
    <2> QED
      BY <1>1, <1>5, <2>1, RunRead, UserStepType DEF Read
  <1> QED
    BY <1>2, <1>3, <1>4, <1>5

\* The entry after each line.
LEMMA ReadSteps ==
    ASSUME NEW s \in Server, NEW u \in User, NEW e \in Entry, NEW q \in Seq(Msg)
    PROVE  \E g : g \in [0..Len(q) -> Entry] /\ g[0] = e /\ g[Len(q)] = Read(s, u, e, q)
                  /\ \A i \in 1..Len(q) : i - 1 \in 0..Len(q) /\ q[i] \in Msg /\ g[i] = After(s, u, g[i - 1], q[i])
  <1>1. IsStep(Entry, UserStep(s, u))
    BY UserStepType
  <1>2. PICK g : Runs(Entry, UserStep(s, u), e, q, g) /\ Read(s, u, e, q) = g[Len(q)]
    BY <1>1, RunKnown DEF Read
  <1>3. g \in [0..Len(q) -> Entry] /\ g[0] = e /\ \A i \in 1..Len(q) : g[i] = UserStep(s, u)[g[i - 1]][q[i]]
    BY <1>2 DEF Runs
  <1>4. ASSUME NEW i \in 1..Len(q)
        PROVE  i - 1 \in 0..Len(q) /\ q[i] \in Msg /\ g[i] = After(s, u, g[i - 1], q[i])
    <2>1. i - 1 \in 0..Len(q) /\ q[i] \in Msg
      OBVIOUS
    <2>2. g[i - 1] \in Entry
      BY <1>3, <2>1
    <2> QED
      BY <1>3, <2>1, <2>2, UserStepType
  <1> QED
    BY <1>2, <1>3, <1>4

\* How servers are read: from the first line on, and up to the last.
LEMMA ServersForm ==
    ASSUME NEW s \in Server, NEW x \in Sets, NEW q \in Seq(Msg)
    PROVE  /\ ServersRead(s, x, q) \in Sets
           /\ ServersRead(s, x, << >>) = x
           /\ \A m \in Msg : ServersRead(s, x, Append(q, m)) = ServersAfter(s, ServersRead(s, x, q), m)
           /\ q # << >> => Head(q) \in Msg /\ Tail(q) \in Seq(Msg) /\ ServersAfter(s, x, Head(q)) \in Sets
                           /\ ServersRead(s, x, q) = ServersRead(s, ServersAfter(s, x, Head(q)), Tail(q))
  <1> DEFINE Y == Sets
  <1>0. x \in Y
    OBVIOUS
  <1>1. IsStep(Y, ServerStep(s))
    BY ServerStepType
  <1>2. \A y \in Y, m \in Msg : ServerStep(s)[y][m] = ServersAfter(s, y, m) /\ ServersAfter(s, y, m) \in Y
    BY ServerStepType DEF IsStep
  <1> HIDE DEF Y
  <1>3. Run(Y, ServerStep(s), x, q) \in Y
    BY <1>0, <1>1, RunKnown
  <1>4. Run(Y, ServerStep(s), x, << >>) = x
    BY <1>0, <1>1, RunNone
  <1>5. ASSUME NEW m \in Msg
        PROVE  Run(Y, ServerStep(s), x, Append(q, m)) = ServersAfter(s, Run(Y, ServerStep(s), x, q), m)
    BY <1>0, <1>1, <1>2, <1>3, RunOn
  <1>6. ASSUME q # << >>
        PROVE  Head(q) \in Msg /\ Tail(q) \in Seq(Msg) /\ ServersAfter(s, x, Head(q)) \in Y
               /\ Run(Y, ServerStep(s), x, q) = Run(Y, ServerStep(s), ServersAfter(s, x, Head(q)), Tail(q))
    <2>1. Head(q) \in Msg /\ Tail(q) \in Seq(Msg)
      BY <1>6
    <2> QED
      BY <1>0, <1>1, <1>2, <1>6, <2>1, RunRead
  <1> QED
    BY <1>3, <1>4, <1>5, <1>6 DEF Y, ServersRead

\* The servers after each line.
LEMMA ServersSteps ==
    ASSUME NEW s \in Server, NEW x \in Sets, NEW q \in Seq(Msg),
           NEW g, Stages(s, x, q, g)
    PROVE  g \in [0..Len(q) -> Sets] /\ g[0] = x /\ g[Len(q)] = ServersRead(s, x, q)
           /\ \A i \in 1..Len(q) : i - 1 \in 0..Len(q) /\ q[i] \in Msg /\ g[i] = ServersAfter(s, g[i - 1], q[i])
  <1>1. IsStep(Sets, ServerStep(s))
    BY ServerStepType
  <1>2. ServersRead(s, x, q) = g[Len(q)]
    BY <1>1, RunIs DEF ServersRead, Stages
  <1>3. g \in [0..Len(q) -> Sets] /\ g[0] = x /\ \A i \in 1..Len(q) : g[i] = ServerStep(s)[g[i - 1]][q[i]]
    BY DEF Runs, Stages
  <1>4. ASSUME NEW i \in 1..Len(q)
        PROVE  i - 1 \in 0..Len(q) /\ q[i] \in Msg /\ g[i] = ServersAfter(s, g[i - 1], q[i])
    <2>1. i - 1 \in 0..Len(q) /\ q[i] \in Msg
      OBVIOUS
    <2>2. g[i - 1] \in Sets
      BY <1>3, <2>1
    <2> QED
      BY <1>3, <2>1, <2>2, ServerStepType
  <1> QED
    BY <1>2, <1>3, <1>4

\* Only a QUIT or a netsplit takes an entry away.
LEMMA AfterNone ==
    ASSUME NEW s, NEW u, NEW e, NEW m, After(s, u, e, m) = << >>, e # << >>
    PROVE  Wipes(s, u, m)
  <1>1. \A a, b : <<a, b>> # << >>
    OBVIOUS
  <1> QED
    BY <1>1 DEF After

\* An entry that ends up forgotten is wiped by some line.
LEMMA WipePending ==
    ASSUME NEW s \in Server, NEW u \in User, NEW e \in Entry, NEW q \in Seq(Msg),
           e # << >>, Read(s, u, e, q) = << >>
    PROVE  \E i \in 1..Len(q) : Wipes(s, u, q[i])
  <1>1. PICK g : g \in [0..Len(q) -> Entry] /\ g[0] = e /\ g[Len(q)] = Read(s, u, e, q)
                 /\ \A i \in 1..Len(q) : i - 1 \in 0..Len(q) /\ q[i] \in Msg /\ g[i] = After(s, u, g[i - 1], q[i])
    BY ReadSteps
  <1> DEFINE S == {i \in 0..Len(q) : g[i] = << >>}
  <1>2. S \in SUBSET Nat /\ S # {} /\ 0 \notin S
    BY <1>1
  <1>3. PICK n \in S : n = 0 \/ n - 1 \notin S
    <2> HIDE DEF S
    <2> QED
      BY <1>2, Least
  <1>4. n \in 1..Len(q) /\ g[n] = << >> /\ n - 1 \in 0..Len(q)
    BY <1>2, <1>3
  <1>5. g[n - 1] # << >>
    BY <1>3, <1>4, <1>2
  <1>6. g[n] = After(s, u, g[n - 1], q[n])
    BY <1>1, <1>4
  <1> HIDE DEF S
  <1>7. g[n - 1] # << >> => Wipes(s, u, q[n])
    BY <1>4, <1>6, AfterNone
  <1> QED
    BY <1>4, <1>5, <1>7

\* What ends up forgotten, ends up forgotten by whoever drops it before.
LEMMA SameEnd ==
    ASSUME NEW s \in Server, NEW u \in User, NEW e \in Entry, NEW q \in Seq(Msg),
           Read(s, u, e, q) = << >>
    PROVE  << >> \in Entry /\ Read(s, u, << >>, q) = << >>
  <1> DEFINE none == << >>
  <1>0. none \in Entry
    BY DEF Entry
  <1>1. PICK g : g \in [0..Len(q) -> Entry] /\ g[0] = e /\ g[Len(q)] = Read(s, u, e, q)
                 /\ \A i \in 1..Len(q) : i - 1 \in 0..Len(q) /\ q[i] \in Msg /\ g[i] = After(s, u, g[i - 1], q[i])
    BY ReadSteps
  <1>2. PICK h : h \in [0..Len(q) -> Entry] /\ h[0] = none /\ h[Len(q)] = Read(s, u, none, q)
                 /\ \A i \in 1..Len(q) : i - 1 \in 0..Len(q) /\ q[i] \in Msg /\ h[i] = After(s, u, h[i - 1], q[i])
    BY <1>0, ReadSteps
  <1> DEFINE S == {i \in 0..Len(q) : g[i] = << >> /\ h[i] # << >>}
  <1>3. CASE S = {}
    <2>1. Len(q) \in 0..Len(q)
      OBVIOUS
    <2> QED
      BY <1>0, <1>1, <1>2, <1>3, <2>1
  <1>4. CASE S # {}
    <2>1. S \in SUBSET Nat /\ 0 \notin S
      BY <1>2
    <2>2. PICK n \in S : n = 0 \/ n - 1 \notin S
      <3> HIDE DEF S
      <3> QED
        BY <1>4, <2>1, Least
    <2>3. n \in 1..Len(q) /\ g[n] = << >> /\ h[n] # << >> /\ n - 1 \in 0..Len(q)
      BY <2>1, <2>2
    <2>4. g[n - 1] = << >> => h[n - 1] = << >>
      BY <2>1, <2>2, <2>3
    <2>5. g[n] = After(s, u, g[n - 1], q[n]) /\ h[n] = After(s, u, h[n - 1], q[n])
      BY <1>1, <1>2, <2>3
    <2>6. g[n - 1] # << >> => Wipes(s, u, q[n])
      BY <2>3, <2>5 DEF After
    <2>7. Wipes(s, u, q[n]) => h[n] = << >>
      BY <2>5 DEF After
    <2> HIDE DEF S
    <2> QED
      BY <2>3, <2>4, <2>5, <2>6, <2>7
  <1> QED
    BY <1>3, <1>4

\* Nothing said is nothing wrong.
LEMMA ClaimedNone ==
    ASSUME NEW s \in Server, NEW p, NEW x \in Sets
    PROVE  Claimed(s, p, x, << >>)
  <1> DEFINE e == << >>
  <1>1. e \in Seq(Msg) /\ Len(e) = 0
    OBVIOUS
  <1>2. IsStep(Sets, ServerStep(s))
    BY ServerStepType
  <1>3. \E h : Stages(s, x, e, h)
    BY <1>1, <1>2, RunsSome DEF Stages
  <1> QED
    BY <1>1, <1>3 DEF Claimed

\* A stream may go on with a line that may be said at its end.
LEMMA ClaimedOn ==
    ASSUME NEW s \in Server, NEW p, NEW x \in Sets, NEW q \in Seq(Msg), NEW m \in Msg,
           Claimed(s, p, x, q), Claims(s, p, ServersRead(s, x, q), m)
    PROVE  Claimed(s, p, x, Append(q, m))
  <1> DEFINE Y == Sets
             f == ServerStep(s)
             r == Append(q, m)
  <1>1. IsStep(Y, f)
    BY ServerStepType
  <1>2. PICK g : Stages(s, x, q, g) /\ \A i \in 1..Len(q) : Claims(s, p, g[i - 1], q[i])
    BY DEF Claimed
  <1> DEFINE k == Len(q) + 1
             h == [i \in 0..k |-> IF i = k THEN f[g[Len(q)]][m] ELSE g[i]]
  <1>3. Runs(Y, f, x, r, h) /\ Len(r) = k
    <2> HIDE DEF Y, f
    <2>1. x \in Y
      BY DEF Y
    <2> QED
      BY <1>1, <1>2, <2>1, RunsMore DEF Stages, Y, f
  <1>4. g[Len(q)] = ServersRead(s, x, q)
    BY <1>2, ServersSteps
  <1>5. Len(q) \in Nat /\ r[k] = m /\ \A i \in 1..Len(q) : r[i] = q[i]
    OBVIOUS
  <1>6. \A i \in 0..Len(q) : h[i] = g[i]
    BY <1>5
  <1> HIDE DEF h, f, r
  <1>7. ASSUME NEW i \in 1..Len(r)  PROVE Claims(s, p, h[i - 1], r[i])
    <2>1. CASE i = k
      <3>1. i - 1 = Len(q) /\ Len(q) \in 0..Len(q)
        BY <1>5, <2>1
      <3> QED
        BY <1>4, <1>5, <1>6, <2>1, <3>1
    <2>2. CASE i # k
      <3>1. i \in 1..Len(q) /\ i - 1 \in 0..Len(q)
        BY <1>3, <1>5, <2>2
      <3> QED
        BY <1>2, <1>5, <1>6, <3>1
    <2> QED
      BY <2>1, <2>2
  <1> QED
    BY <1>3, <1>7 DEF Claimed, Stages, f, r

\* The first line may be said, and the others after it.
LEMMA ClaimedRead ==
    ASSUME NEW s \in Server, NEW p, NEW x \in Sets, NEW q \in Seq(Msg), q # << >>,
           Claimed(s, p, x, q)
    PROVE  Claims(s, p, x, Head(q)) /\ Claimed(s, p, ServersAfter(s, x, Head(q)), Tail(q))
  <1> DEFINE Y == Sets
             f == ServerStep(s)
             r == Tail(q)
  <1>1. IsStep(Y, f)
    BY ServerStepType
  <1>2. PICK g : Stages(s, x, q, g) /\ \A i \in 1..Len(q) : Claims(s, p, g[i - 1], q[i])
    BY DEF Claimed
  <1> DEFINE h == [i \in 0..Len(r) |-> g[i + 1]]
  <1>3. x \in Y
    OBVIOUS
  <1> HIDE DEF Y, f
  <1>4. Head(q) \in Msg /\ r \in Seq(Msg) /\ Len(q) = Len(r) + 1 /\ (\A i \in 1..Len(r) : r[i] = q[i + 1])
        /\ Runs(Y, f, f[x][Head(q)], r, h)
    BY <1>1, <1>2, <1>3, RunsRest DEF Stages, Y, f
  <1>5. f[x][Head(q)] = ServersAfter(s, x, Head(q))
    BY <1>3, <1>4, ServerStepType DEF f, Y
  <1>6. g[0] = x
    BY <1>2 DEF Runs, Stages
  <1>7. Len(r) \in Nat /\ q[1] = Head(q)
    BY <1>4
  <1>8. Claims(s, p, x, Head(q))
    <2>1. 1 \in 1..Len(q) /\ 1 - 1 = 0
      BY <1>4, <1>7
    <2> QED
      BY <1>2, <1>6, <1>7, <2>1
  <1>9. ASSUME NEW i \in 1..Len(r)  PROVE Claims(s, p, h[i - 1], r[i])
    <2>1. i + 1 \in 1..Len(q) /\ (i + 1) - 1 = i /\ i - 1 \in 0..Len(r) /\ (i - 1) + 1 = i
      BY <1>4, <1>7
    <2>2. h[i - 1] = g[i]
      BY <2>1
    <2> HIDE DEF h, r
    <2>3. Claims(s, p, g[(i + 1) - 1], q[i + 1])
      BY <1>2, <2>1
    <2> QED
      BY <1>4, <2>1, <2>2, <2>3
  <1> HIDE DEF h, r
  <1>10. Claimed(s, p, ServersAfter(s, x, Head(q)), r)
    BY <1>4, <1>5, <1>9 DEF Claimed, Stages, f, Y
  <1> QED
    BY <1>8, <1>10 DEF r

\* A server that ends up forgotten is split off by some line.
LEMMA SquitPending ==
    ASSUME NEW s \in Server, NEW x \in Sets, NEW q \in Seq(Msg), NEW h \in x,
           h \notin ServersRead(s, x, q)
    PROVE  \E i \in 1..Len(q) : q[i].type = "SQUIT" /\ IsBehind(s, h, q[i].sid)
  <1>1. IsStep(Sets, ServerStep(s))
    BY ServerStepType
  <1>2. PICK g : Stages(s, x, q, g)
    BY <1>1, RunsSome DEF Stages
  <1>3. g \in [0..Len(q) -> Sets] /\ g[0] = x /\ g[Len(q)] = ServersRead(s, x, q)
        /\ \A i \in 1..Len(q) : i - 1 \in 0..Len(q) /\ q[i] \in Msg /\ g[i] = ServersAfter(s, g[i - 1], q[i])
    BY <1>2, ServersSteps
  <1> DEFINE S == {i \in 0..Len(q) : h \notin g[i]}
  <1>4. S \in SUBSET Nat /\ S # {} /\ 0 \notin S
    BY <1>3
  <1>5. PICK n \in S : n = 0 \/ n - 1 \notin S
    <2> HIDE DEF S
    <2> QED
      BY <1>4, Least
  <1>6. n \in 1..Len(q) /\ h \notin g[n] /\ n - 1 \in 0..Len(q) /\ h \in g[n - 1]
    <2>1. n \in 1..Len(q) /\ h \notin g[n] /\ n - 1 \in 0..Len(q) /\ n - 1 \notin S
      BY <1>4, <1>5
    <2> QED
      BY <2>1
  <1> HIDE DEF S
  <1>7. g[n] = ServersAfter(s, g[n - 1], q[n])
    BY <1>3, <1>6
  <1>8. q[n].type = "SQUIT" /\ IsBehind(s, h, q[n].sid)
    BY <1>6, <1>7 DEF ServersAfter
  <1> QED
    BY <1>6, <1>8

\* A server that p does not have in the end has no users left at s in the end.
LEMMA Absent ==
    ASSUME NEW s \in Server, NEW p, NEW u \in User, NEW x \in Sets, NEW e \in Entry, NEW q \in Seq(Msg),
           Claimed(s, p, x, q), Home[u] \notin x => e = << >>, Home[u] \notin ServersRead(s, x, q)
    PROVE  Read(s, u, e, q) = << >>
  <1>1. PICK g : Stages(s, x, q, g) /\ \A i \in 1..Len(q) : Claims(s, p, g[i - 1], q[i])
    BY DEF Claimed
  <1>2. g \in [0..Len(q) -> Sets] /\ g[0] = x /\ g[Len(q)] = ServersRead(s, x, q)
        /\ \A i \in 1..Len(q) : i - 1 \in 0..Len(q) /\ q[i] \in Msg /\ g[i] = ServersAfter(s, g[i - 1], q[i])
    BY <1>1, ServersSteps
  <1>3. PICK f : f \in [0..Len(q) -> Entry] /\ f[0] = e /\ f[Len(q)] = Read(s, u, e, q)
                 /\ \A i \in 1..Len(q) : i - 1 \in 0..Len(q) /\ q[i] \in Msg /\ f[i] = After(s, u, f[i - 1], q[i])
    BY ReadSteps
  <1> DEFINE S == {i \in 0..Len(q) : Home[u] \notin g[i] /\ f[i] # << >>}
  <1>4. CASE S = {}
    <2>1. Len(q) \in 0..Len(q)
      OBVIOUS
    <2> QED
      BY <1>2, <1>3, <1>4, <2>1
  <1>5. CASE S # {}
    <2>1. S \in SUBSET Nat /\ 0 \notin S
      BY <1>2, <1>3
    <2>2. PICK n \in S : n = 0 \/ n - 1 \notin S
      <3> HIDE DEF S
      <3> QED
        BY <1>5, <2>1, Least
    <2>3. n \in 1..Len(q) /\ Home[u] \notin g[n] /\ f[n] # << >> /\ n - 1 \in 0..Len(q) /\ n - 1 \notin S
      BY <2>1, <2>2
    <2>4. Home[u] \notin g[n - 1] => f[n - 1] = << >>
      BY <2>3
    <2> HIDE DEF S
    <2>5. g[n] = ServersAfter(s, g[n - 1], q[n]) /\ f[n] = After(s, u, f[n - 1], q[n]) /\ Claims(s, p, g[n - 1], q[n])
      BY <1>1, <1>2, <1>3, <2>3
    <2>6. CASE Home[u] \in g[n - 1]
      <3>1. q[n].type = "SQUIT" /\ IsBehind(s, Home[u], q[n].sid)
        BY <2>3, <2>5, <2>6 DEF ServersAfter
      <3> QED
        BY <2>3, <2>5, <3>1 DEF After, Wipes
    <2>7. CASE Home[u] \notin g[n - 1]
      <3>1. f[n - 1] = << >>
        BY <2>4, <2>7
      <3>2. ~(q[n].type = "UID" /\ q[n].user = u)
        BY <2>5, <2>7 DEF Claims
      <3> QED
        BY <2>3, <2>5, <3>1, <3>2 DEF After
    <2> QED
      BY <2>6, <2>7
  <1> QED
    BY <1>4, <1>5

(***************************************************************************)
(* The trails: what one end of a link knows, as the other end told it.     *)
(***************************************************************************)
\* The next server on the way from x to the user's own.
Up(x, u) == Route[x][Home[u]]
\* Both ends of the link are up.
Live(s, p) == lc[s][p] = "up" /\ lc[p][s] = "up"
\* A KILL for u.
IsKill(m, u) == m.type = "KILL" /\ m.user = u
\* A SQUIT of a server that x reaches u through.
Splits(x, u, m) == m.type = "SQUIT" /\ IsBehind(x, Home[u], m.sid)
\* u is marked as quitting, or is gone.
Ending(u) == alive[u] \in {"quitting", "gone"}
\* A KILL for u is on its way from x to its server, which still knows u.
Killed(x, u) ==
    /\ u \in byUid[Up(x, u)]
    /\ \E i \in 1..Len(chan[<<x, Up(x, u)>>]) : IsKill(chan[<<x, Up(x, u)>>][i], u)
\* x is about to lose the server u is on.
Severed(x, u) ==
    \/ ~Live(Up(x, u), x)
    \/ \E i \in 1..Len(chan[<<Up(x, u), x>>]) : Splits(x, u, chan[<<Up(x, u), x>>][i])
\* u is about to leave, or somewhere between z and its server what is known of it is.
Doomed(z, u) ==
    \/ Ending(u)
    \/ \E x \in Path(z, Home[u]) \ {Home[u]} : Killed(x, u) \/ Severed(x, u)

\* The servers s has from p, and what p has said since, add up to the servers p has.
ServerTrail(s, p) ==
    lc[s][p] # "down" =>
        /\ Claimed(s, p, Via(s, p), chan[<<p, s>>])
        /\ lc[p][s] = "up" => ServersRead(s, Via(s, p), chan[<<p, s>>]) = servers[p] \cap Beyond(s, p)
\* What s knows of u once it has read what is on its way from there.
Told(s, u) == Read(s, u, Copy(s, u), chan[<<Up(s, u), s>>])
\* So does what s knows of u, unless u is doomed further up.
UserTrail(s, u) ==
    s # Home[u] /\ Live(s, Up(s, u)) =>
        /\ Told(s, u) = Copy(Up(s, u), u) \/ Killed(s, u) \/ Doomed(Up(s, u), u)
        /\ Up(s, u) = Home[u] /\ u \notin byUid[Home[u]] => Told(s, u) = << >>
\* A QUIT is in flight only for somebody who is gone.
QuitGone ==
    \A l \in Link : \A i \in 1..Len(chan[l]) :
        chan[l][i].type = "QUIT" => alive[chan[l][i].user] = "gone"
\* A server knows the neighbour at the other end of a link until the link is reaped.
PeerKnown == \A s \in Server : \A p \in Neighbours(s) : lc[s][p] # "down" => p \in servers[s]
\* The trails of all servers over all links.
ServersFollow == \A s \in Server : \A p \in Neighbours(s) : ServerTrail(s, p)
\* The trails of all users over all links.
UsersFollow == \A s \in Server, u \in User : UserTrail(s, u)
\* The inductive invariant: the tables are consistent and every trail holds.
CInv == IInv /\ PeerKnown /\ QuitGone /\ ServersFollow /\ UsersFollow

(***************************************************************************)
(* A step of server s: it sends `out`, reads a line of r (of nobody if     *)
(* r = s), and changes its own tables and its ends of its links only.      *)
(***************************************************************************)
OneStep(s, out, r) ==
    /\ out \in [Server -> Seq(Msg)] /\ \A q \in Server : Len(out[q]) <= 2
    /\ \A z \in Server \ {s} :
           /\ byUid'[z] = byUid[z] /\ nick'[z] = nick[z] /\ nickTs'[z] = nickTs[z]
           /\ servers'[z] = servers[z] /\ lc'[z] = lc[z]
    /\ \A t \in Server : (lc'[s][t] = "up" => lc[s][t] = "up") /\ (lc[s][t] = "down" => lc'[s][t] = "down")
    /\ \A u \in User : (Ending(u) => Ending(u)') /\ (alive[u] = "gone" => alive'[u] = "gone")
    /\ \A l \in Link : l[1] # s /\ l[2] # s => chan'[l] = chan[l]
    /\ \A q \in Neighbours(s) :
           /\ chan'[<<s, q>>] = IF CanSend(s, q) THEN chan[<<s, q>>] \o out[q] ELSE chan[<<s, q>>]
           /\ lc'[s][q] # "down" =>
                  IF q = r THEN chan[<<q, s>>] # << >> /\ chan'[<<q, s>>] = Tail(chan[<<q, s>>])
                  ELSE chan'[<<q, s>>] = chan[<<q, s>>]
           /\ lc'[s][q] = "down" => chan'[<<q, s>>] \in {chan[<<q, s>>], << >>}
           /\ \A i \in 1..Len(out[q]) : out[q][i].type = "QUIT" => alive'[out[q][i].user] = "gone"

\* The entry of someone who reads o, at most two lines.
Hears(q, u, e, o) ==
    IF o = << >> THEN e
    ELSE IF Len(o) = 1 THEN After(q, u, e, o[1]) ELSE After(q, u, After(q, u, e, o[1]), o[2])
\* What s would know of u had it done nothing but read.
Due(s, r, u) ==
    IF s # Home[u] /\ r = Up(s, u) THEN After(s, u, Copy(s, u), Head(chan[<<r, s>>])) ELSE Copy(s, u)
\* s sends a KILL for u toward its server.
Hit(s, out, r, u) ==
    /\ s # Home[u] /\ \E i \in 1..Len(out[Up(s, u)]) : IsKill(out[Up(s, u)][i], u)
    /\ r = Up(s, u) => Head(chan[<<r, s>>]).type # "SQUIT"
\* s loses the server of u and says so to everyone beyond.
Swept(s, out, u) ==
    /\ s # Home[u] /\ u \notin byUid'[s]
    /\ \A q \in Neighbours(s) \ {Up(s, u)} : \E m \in Msg : out[q] = <<m>> /\ Splits(q, u, m)
\* q, which has the servers x on the side of s by then, has y once it has read o.
Says(q, s, x, o, y) ==
    \/ o = << >> /\ y = x
    \/ Len(o) = 1 /\ Claims(q, s, x, o[1]) /\ y = ServersAfter(q, x, o[1])
    \/ Len(o) = 2 /\ o[1].type = "KILL" /\ Claims(q, s, x, o[2]) /\ y = ServersAfter(q, x, o[2])
\* s treats its server table as it says: it takes what it reads, and passes it on.
ServersOk(s, out, r) ==
    /\ \A p \in Neighbours(s) : lc'[s][p] # "down" =>
           Via(s, p)' = IF p = r THEN ServersAfter(s, Via(s, p), Head(chan[<<p, s>>])) ELSE Via(s, p)
    /\ \A q \in Neighbours(s) : CanSend(s, q) =>
           Says(q, s, servers[s] \cap Beyond(q, s), out[q], servers'[s] \cap Beyond(q, s))
\* s treats u as it says: it takes what it reads of u and passes it on, unless u is leaving, or s
\* kills it or loses its server.
UserOk(s, out, r, u) ==
    /\ s # Home[u] /\ lc'[s][Up(s, u)] # "down" =>
           Copy(s, u)' = Due(s, r, u) \/ (Copy(s, u)' = << >> /\ Hit(s, out, r, u))
    /\ \A q \in Neighbours(s) : q # Home[u] /\ Up(q, u) = s =>
           \/ Hears(q, u, Copy(s, u), out[q]) = Copy(s, u)'
           \/ u \in byUid[s] /\ (Ending(u)' \/ Hit(s, out, r, u) \/ Swept(s, out, u))
    /\ u \in byUid[s] /\ u \notin byUid'[s] => Ending(u)' \/ Hit(s, out, r, u) \/ Swept(s, out, u)
    /\ r # s /\ IsKill(Head(chan[<<r, s>>]), u) /\ u \in byUid[s] => Ending(u)' \/ Hit(s, out, r, u)
    /\ s # Home[u] /\ r = Up(s, u) /\ Splits(s, u, Head(chan[<<r, s>>])) => Swept(s, out, u)
    /\ s = Home[u] /\ u \notin byUid'[s] => \A q \in Neighbours(s) :
           \/ \E m \in Msg : out[q] = <<m>> /\ Wipes(q, u, m)
           \/ u \notin byUid[s] /\ Hears(q, u, << >>, out[q]) = << >>

\* The next server on the way to that of u.
LEMMA UpNext ==
    ASSUME NEW x \in Server, NEW u \in User, x # Home[u]
    PROVE  /\ Home[u] \in Server /\ Up(x, u) \in Neighbours(x) /\ Up(x, u) \in Server /\ Up(x, u) # x
           /\ <<x, Up(x, u)>> \in Link /\ <<Up(x, u), x>> \in Link
           /\ x \in Path(x, Home[u]) /\ Up(x, u) \in Path(x, Home[u])
           /\ Path(Up(x, u), Home[u]) \subseteq Path(x, Home[u]) /\ x \notin Path(Up(x, u), Home[u])
  <1>1. Home[u] \in Server
    BY HomeType
  <1>2. Up(x, u) \in Neighbours(x)
    BY <1>1, Hop DEF Up
  <1>3. Path(Up(x, u), Home[u]) = Path(x, Home[u]) \ {x}
    BY <1>1, PathStep DEF Up
  <1>4. Up(x, u) \in Server /\ Up(x, u) \in Path(Up(x, u), Home[u]) /\ x \in Path(x, Home[u])
    BY <1>2, Edge DEF Path
  <1> QED
    BY <1>1, <1>2, <1>3, <1>4, Edge

\* Whoever is beyond q from s hears about it from s.
LEMMA UpSide ==
    ASSUME NEW s \in Server, NEW q \in Neighbours(s), NEW u \in User
    PROVE  (q # Home[u] /\ Up(q, u) = s) <=> ~(s # Home[u] /\ Up(s, u) = q)
  <1>1. Home[u] \in Server /\ q \in Server
    BY HomeType, Edge
  <1> QED
    BY <1>1, OneSide DEF Up, Beyond

\* What is in flight is lines.
LEMMA LineFacts ==
    ASSUME TypeOK, NEW l \in Link
    PROVE  chan[l] \in Seq(Msg) /\ \A i \in 1..Len(chan[l]) : chan[l][i] \in Msg
  <1>1. chan[l] \in Seq(Msg)
    BY DEF TypeOK
  <1> QED
    BY <1>1

\* An entry is an entry, and is empty for those who are not known.
LEMMA CopyType ==
    ASSUME TypeOK, Support, NEW s \in Server, NEW u \in User
    PROVE  Copy(s, u) \in Entry /\ (u \notin byUid[s] <=> Copy(s, u) = << >>) /\ << >> \in Entry
  <1>1. \A n \in Nick \cup {NoNick}, t \in Time : <<n, t>> \in Entry /\ <<n, t>> # << >>
    BY DEF Entry
  <1>2. u \in byUid[s] => nick[s][u] \in Nick \cup {NoNick} /\ nickTs[s][u] \in Time
    BY DEF TypeOK, Support
  <1>3. << >> \in Entry
    BY DEF Entry
  <1> QED
    BY <1>1, <1>2, <1>3 DEF Copy

\* A step of s keeps what it had sent, and adds what it sends.
LEMMA SentLines ==
    ASSUME TypeOK, NEW s \in Server, NEW out, NEW r, OneStep(s, out, r), NEW q \in Neighbours(s)
    PROVE  /\ \A i \in 1..Len(chan[<<s, q>>]) :
                  i \in 1..Len(chan'[<<s, q>>]) /\ chan'[<<s, q>>][i] = chan[<<s, q>>][i]
           /\ CanSend(s, q) => \A i \in 1..Len(out[q]) :
                  \E j \in 1..Len(chan'[<<s, q>>]) : chan'[<<s, q>>][j] = out[q][i]
  <1> DEFINE c == chan[<<s, q>>]
             d == chan'[<<s, q>>]
             o == out[q]
  <1>1. q \in Server /\ <<s, q>> \in Link
    BY Edge
  <1>2. c \in Seq(Msg) /\ o \in Seq(Msg)
    BY <1>1, LineFacts DEF OneStep
  <1>3. d = IF CanSend(s, q) THEN c \o o ELSE c
    BY DEF OneStep
  <1> HIDE DEF c, d, o
  <1>4. \A i \in 1..Len(c) : i \in 1..Len(d) /\ d[i] = c[i]
    <2>1. CASE CanSend(s, q)
      <3>1. d = c \o o
        BY <1>3, <2>1
      <3> QED
        BY <1>2, <3>1
    <2>2. CASE ~CanSend(s, q)
      BY <1>3, <2>2
    <2> QED
      BY <2>1, <2>2
  <1>5. ASSUME CanSend(s, q), NEW i \in 1..Len(o)
        PROVE  \E j \in 1..Len(d) : d[j] = o[i]
    <2>1. d = c \o o
      BY <1>3, <1>5
    <2>2. Len(c) + i \in 1..Len(d) /\ d[Len(c) + i] = o[i]
      BY <1>2, <2>1
    <2> QED
      BY <2>2
  <1> QED
    BY <1>4, <1>5 DEF c, d, o

\* A link that is up after a step was up before it.
LEMMA LiveStays ==
    ASSUME NEW s \in Server, NEW out, NEW r, OneStep(s, out, r), NEW q \in Neighbours(s),
           Live(s, q)' \/ Live(q, s)'
    PROVE  Live(s, q) /\ Live(q, s) /\ CanSend(s, q) /\ CanSend(q, s) /\ lc'[s][q] # "down"
  <1>1. q \in Server \ {s}
    BY Edge
  <1>2. lc'[s][q] = "up" /\ lc'[q][s] = "up" /\ lc'[q] = lc[q]
    BY <1>1 DEF Live, OneStep
  <1>3. lc[s][q] = "up" /\ lc[q][s] = "up"
    BY <1>1, <1>2 DEF OneStep
  <1> QED
    BY <1>2, <1>3 DEF Live, CanSend

\* A line sent to s is still there, or is the one it read.
LEMMA Unread ==
    ASSUME TypeOK, NEW s \in Server, NEW out, NEW r, OneStep(s, out, r), NEW q \in Neighbours(s),
           lc'[s][q] # "down", NEW i \in 1..Len(chan[<<q, s>>])
    PROVE  \/ q = r /\ chan[<<q, s>>][i] = Head(chan[<<r, s>>])
           \/ \E j \in 1..Len(chan'[<<q, s>>]) : chan'[<<q, s>>][j] = chan[<<q, s>>][i]
  <1> DEFINE c == chan[<<q, s>>]
             d == chan'[<<q, s>>]
  <1>1. <<q, s>> \in Link
    BY Edge
  <1>2. c \in Seq(Msg)
    BY <1>1, LineFacts
  <1>3. IF q = r THEN c # << >> /\ d = Tail(c) ELSE d = c
    BY DEF OneStep
  <1> HIDE DEF c, d
  <1>4. CASE q # r
    BY <1>3, <1>4 DEF c, d
  <1>5. CASE q = r /\ i = 1
    BY <1>2, <1>3, <1>5 DEF c
  <1>6. CASE q = r /\ i # 1
    <2>1. d = Tail(c) /\ i \in 1..Len(c) /\ c # << >>
      BY <1>3, <1>6 DEF c
    <2>2. i - 1 \in 1..Len(d) /\ d[i - 1] = c[i]
      BY <1>2, <1>6, <2>1
    <2> QED
      BY <2>2 DEF c, d
  <1> QED
    BY <1>4, <1>5, <1>6

\* Who is leaving is doomed everywhere.
LEMMA EndingStays ==
    ASSUME NEW s, NEW out, NEW r, OneStep(s, out, r), NEW u \in User, NEW z, Ending(u) \/ Ending(u)'
    PROVE  Doomed(z, u)'
  <1>1. Ending(u)'
    BY DEF OneStep
  <1> QED
    BY <1>1 DEF Doomed

\* What happens between two other servers.
LEMMA Elsewhere ==
    ASSUME NEW s \in Server, NEW out, NEW r, OneStep(s, out, r), NEW u \in User,
           NEW x \in Server, x # Home[u], x # s, Up(x, u) # s
    PROVE  (Killed(x, u) => Killed(x, u)') /\ (Severed(x, u) => Severed(x, u)')
  <1> DEFINE w == Up(x, u)
  <1>1. w \in Server /\ w # s /\ <<x, w>> \in Link /\ <<w, x>> \in Link
    BY UpNext
  <1>2. byUid'[w] = byUid[w] /\ lc'[w] = lc[w] /\ lc'[x] = lc[x]
    BY <1>1 DEF OneStep
  <1>3. chan'[<<x, w>>] = chan[<<x, w>>] /\ chan'[<<w, x>>] = chan[<<w, x>>]
    BY <1>1 DEF OneStep
  <1>4. Up(x, u)' = w
    BY DEF Up
  <1> HIDE DEF w
  <1>5. Killed(x, u) => Killed(x, u)'
    BY <1>2, <1>3, <1>4 DEF Killed, w
  <1>6. Severed(x, u) => Severed(x, u)'
    BY <1>2, <1>3, <1>4 DEF Severed, Live, Splits, w
  <1> QED
    BY <1>5, <1>6

\* Doom above s stays.
LEMMA DoomAbove ==
    ASSUME NEW s \in Server, NEW out, NEW r, OneStep(s, out, r), NEW u \in User,
           NEW z \in Server, s \notin Path(z, Home[u]), Doomed(z, u)
    PROVE  Doomed(z, u)'
  <1>1. CASE Ending(u)
    BY <1>1, EndingStays
  <1>2. CASE ~Ending(u)
    <2>1. PICK x \in Path(z, Home[u]) \ {Home[u]} : Killed(x, u) \/ Severed(x, u)
      BY <1>2 DEF Doomed
    <2>2. x \in Server /\ x # s /\ x # Home[u] /\ Home[u] \in Server
      BY HomeType DEF Path
    <2>3. Up(x, u) \in Path(z, Home[u])
      BY <2>2, UpNext, PathWithin
    <2>4. Up(x, u) # s
      BY <2>3
    <2>5. Killed(x, u)' \/ Severed(x, u)'
      BY <2>1, <2>2, <2>4, Elsewhere
    <2> QED
      BY <2>5 DEF Doomed
  <1> QED
    BY <1>1, <1>2

\* Doom anywhere on the way is doom.
LEMMA DoomOn ==
    ASSUME NEW u \in User, NEW z \in Server, NEW x \in Path(z, Home[u])
    PROVE  (Doomed(x, u) => Doomed(z, u)) /\ (Doomed(x, u)' => Doomed(z, u)')
           /\ (x # Home[u] /\ (Killed(x, u)' \/ Severed(x, u)') => Doomed(z, u)')
  <1>1. Path(x, Home[u]) \subseteq Path(z, Home[u])
    BY PathWithin, HomeType
  <1> QED
    BY <1>1 DEF Doomed

\* A KILL sent toward the server of u dooms u, or u was doomed there already.
LEMMA Upstream ==
    ASSUME CInv, NEW s \in Server, NEW out, NEW r, OneStep(s, out, r), NEW u \in User,
           u \in byUid[s], Hit(s, out, r, u)
    PROVE  Doomed(s, u)'
  <1> DEFINE w == Up(s, u)
  <1>0. TypeOK /\ Support /\ QuitGone /\ UserTrail(s, u)
    BY DEF CInv, IInv, UsersFollow
  <1>1. s # Home[u] /\ w \in Neighbours(s) /\ w \in Server /\ w # s /\ <<w, s>> \in Link /\ Home[u] \in Server
        /\ s \in Path(s, Home[u]) /\ w \in Path(s, Home[u]) /\ s \notin Path(w, Home[u])
    BY UpNext DEF Hit
  <1>2. Up(s, u)' = w
    BY DEF Up
  <1>3. SUFFICES ASSUME ~Severed(s, u)', ~Ending(u), ~Killed(s, u)'  PROVE Doomed(s, u)'
    BY <1>1, EndingStays, DoomOn
  <1>4. Live(w, s)'
    BY <1>2, <1>3 DEF Severed
  <1>5. Live(s, w) /\ CanSend(s, w) /\ lc'[s][w] # "down"
    BY <1>1, <1>4, LiveStays
  <1>6. u \notin byUid[w]
    <2>1. PICK i \in 1..Len(out[w]) : IsKill(out[w][i], u)
      BY DEF Hit
    <2>2. \E j \in 1..Len(chan'[<<s, w>>]) : chan'[<<s, w>>][j] = out[w][i]
      BY <1>0, <1>1, <1>5, SentLines
    <2>3. byUid'[w] = byUid[w]
      BY <1>1 DEF OneStep
    <2> QED
      BY <1>2, <1>3, <2>1, <2>2, <2>3 DEF Killed, IsKill
  <1>7. Copy(w, u) = << >> /\ ~Killed(s, u)
    BY <1>6 DEF Copy, Killed
  <1>8. Told(s, u) = << >> \/ Doomed(w, u)
    BY <1>0, <1>1, <1>5, <1>7 DEF UserTrail
  <1>9. CASE Doomed(w, u)
    <2>1. Doomed(w, u)'
      BY <1>1, <1>9, DoomAbove
    <2> QED
      BY <1>1, <2>1, DoomOn
  <1>10. CASE Told(s, u) = << >>
    <2> DEFINE q == chan[<<w, s>>]
    <2>1. q \in Seq(Msg)
      BY <1>0, <1>1, LineFacts
    <2>2. Copy(s, u) \in Entry /\ Copy(s, u) # << >>
      BY <1>0, CopyType
    <2>3. PICK i \in 1..Len(q) : Wipes(s, u, q[i])
      BY <1>10, <2>1, <2>2, WipePending DEF Told
    <2>4. CASE q[i].type = "QUIT" /\ q[i].user = u
      BY <1>0, <1>1, <1>3, <2>3, <2>4 DEF QuitGone, Ending
    <2>5. CASE Splits(s, u, q[i])
      <3>1. ~(w = r /\ q[i] = Head(chan[<<r, s>>]))
        BY <2>5 DEF Hit, Splits
      <3>2. PICK j \in 1..Len(chan'[<<w, s>>]) : chan'[<<w, s>>][j] = q[i]
        BY <1>0, <1>1, <1>5, <2>3, <3>1, Unread
      <3>3. Severed(s, u)'
        BY <1>2, <2>5, <3>2 DEF Severed, Splits
      <3> QED
        BY <1>3, <3>3
    <2> QED
      BY <2>3, <2>4, <2>5 DEF Wipes, Splits
  <1> QED
    BY <1>8, <1>9, <1>10

\* A split is told to everyone beyond.
LEMMA SweptOn ==
    ASSUME TypeOK, NEW s \in Server, NEW out, NEW r, OneStep(s, out, r), NEW u \in User,
           Swept(s, out, u), NEW q \in Neighbours(s), q # Home[u], Up(q, u) = s
    PROVE  /\ Severed(q, u)'
           /\ \E m \in Msg : out[q] = <<m>> /\ Splits(q, u, m)
  <1>1. q # Up(s, u)
    BY UpSide DEF Swept
  <1>2. PICK m \in Msg : out[q] = <<m>> /\ Splits(q, u, m)
    BY <1>1 DEF Swept
  <1>3. Up(q, u)' = s
    BY DEF Up
  <1>4. CASE ~Live(s, q)'
    BY <1>2, <1>3, <1>4 DEF Severed, Live
  <1>5. CASE Live(s, q)'
    <2>1. CanSend(s, q)
      BY <1>5, LiveStays
    <2>2. 1 \in 1..Len(out[q]) /\ out[q][1] = m
      BY <1>2
    <2>3. PICK j \in 1..Len(chan'[<<s, q>>]) : chan'[<<s, q>>][j] = m
      BY <2>1, <2>2, SentLines
    <2> QED
      BY <1>2, <1>3, <2>3 DEF Severed, Splits
  <1> QED
    BY <1>2, <1>4, <1>5

\* A KILL that s has yet to read.
LEMMA KilledStays ==
    ASSUME CInv, NEW s \in Server, NEW out, NEW r, OneStep(s, out, r), NEW u \in User, UserOk(s, out, r, u),
           NEW q \in Neighbours(s), q # Home[u], Up(q, u) = s, Killed(q, u)
    PROVE  Killed(q, u)' \/ Doomed(s, u)' \/ (Severed(q, u)' /\ (Live(s, q)' => Swept(s, out, u)))
  <1>0. TypeOK
    BY DEF CInv, IInv
  <1>1. q \in Server /\ <<q, s>> \in Link /\ Up(q, u)' = s
    BY Edge DEF Up
  <1>2. u \in byUid[s]
    BY DEF Killed
  <1>3. PICK i \in 1..Len(chan[<<q, s>>]) : IsKill(chan[<<q, s>>][i], u)
    BY DEF Killed
  <1>4. CASE ~Live(s, q)'
    BY <1>1, <1>4 DEF Severed
  <1>5. CASE Live(s, q)'
    <2>1. lc'[s][q] # "down"
      BY <1>5, LiveStays
    <2>2. CASE u \notin byUid'[s]
      <3>1. Ending(u)' \/ Hit(s, out, r, u) \/ Swept(s, out, u)
        BY <1>2, <2>2 DEF UserOk
      <3> QED
        BY <1>0, <1>2, <3>1, EndingStays, Upstream, SweptOn
    <2>3. CASE u \in byUid'[s]
      <3>1. CASE q = r /\ chan[<<q, s>>][i] = Head(chan[<<r, s>>])
        <4>1. r # s
          BY <3>1, Edge
        <4>2. Ending(u)' \/ Hit(s, out, r, u)
          BY <1>2, <1>3, <3>1, <4>1 DEF UserOk
        <4> QED
          BY <1>2, <4>2, EndingStays, Upstream
      <3>2. CASE \E j \in 1..Len(chan'[<<q, s>>]) : chan'[<<q, s>>][j] = chan[<<q, s>>][i]
        BY <1>1, <1>3, <2>3, <3>2 DEF Killed, IsKill
      <3> QED
        BY <1>0, <2>1, <3>1, <3>2, Unread
    <2> QED
      BY <2>2, <2>3
  <1> QED
    BY <1>4, <1>5

\* What dooms u at s itself.
LEMMA DoomHere ==
    ASSUME CInv, NEW s \in Server, NEW out, NEW r, OneStep(s, out, r), NEW u \in User, UserOk(s, out, r, u),
           s # Home[u], Killed(s, u) \/ Severed(s, u)
    PROVE  Killed(s, u)' \/ Severed(s, u)' \/ Swept(s, out, u)
  <1> DEFINE w == Up(s, u)
  <1>0. TypeOK
    BY DEF CInv, IInv
  <1>1. w \in Neighbours(s) /\ w \in Server /\ w # s /\ Up(s, u)' = w
    BY UpNext DEF Up
  <1>2. byUid'[w] = byUid[w]
    BY <1>1 DEF OneStep
  <1>3. CASE Killed(s, u)
    BY <1>0, <1>1, <1>2, <1>3, SentLines DEF Killed, IsKill
  <1>4. CASE ~Live(w, s)
    BY <1>1, <1>4, LiveStays DEF Severed
  <1>5. ASSUME Live(w, s)', NEW i \in 1..Len(chan[<<w, s>>]), Splits(s, u, chan[<<w, s>>][i])
        PROVE  Severed(s, u)' \/ Swept(s, out, u)
    <2>1. lc'[s][w] # "down"
      BY <1>1, <1>5, LiveStays
    <2>2. CASE w = r /\ chan[<<w, s>>][i] = Head(chan[<<r, s>>])
      BY <1>5, <2>2 DEF UserOk
    <2>3. CASE \E j \in 1..Len(chan'[<<w, s>>]) : chan'[<<w, s>>][j] = chan[<<w, s>>][i]
      BY <1>1, <1>5, <2>3 DEF Severed, Splits
    <2> QED
      BY <1>0, <1>1, <1>5, <2>1, <2>2, <2>3, Unread
  <1>6. ~Live(w, s)' => Severed(s, u)'
    BY <1>1 DEF Severed
  <1> QED
    BY <1>3, <1>4, <1>5, <1>6 DEF Severed

\* Doom stays, or u is swept off s itself.
LEMMA DoomStays ==
    ASSUME CInv, NEW s \in Server, NEW out, NEW r, OneStep(s, out, r), NEW u \in User, UserOk(s, out, r, u),
           NEW z \in Server, Doomed(z, u)
    PROVE  Doomed(z, u)' \/ (z = s /\ Swept(s, out, u))
  <1>0. TypeOK
    BY DEF CInv, IInv
  <1>1. CASE Ending(u)
    BY <1>1, EndingStays
  <1>2. CASE s \notin Path(z, Home[u])
    BY <1>2, DoomAbove
  <1>3. CASE s \in Path(z, Home[u]) /\ ~Ending(u)
    <2>1. PICK x \in Path(z, Home[u]) \ {Home[u]} : Killed(x, u) \/ Severed(x, u)
      BY <1>3 DEF Doomed
    <2>2. x \in Server /\ x # Home[u] /\ Home[u] \in Server /\ z \in Path(z, Home[u])
      BY HomeType DEF Path
    <2>3. CASE x = s
      <3>1. Killed(s, u)' \/ Severed(s, u)' \/ Swept(s, out, u)
        BY <2>1, <2>2, <2>3, DoomHere
      <3>2. CASE Killed(s, u)' \/ Severed(s, u)'
        BY <1>3, <2>2, <2>3, <3>2, DoomOn
      <3>3. CASE Swept(s, out, u) /\ z # s
        <4> DEFINE y == Route[s][z]
        <4>1. y \in Neighbours(s) /\ y \in Path(z, Home[u]) /\ y # Home[u] /\ Route[y][Home[u]] = s
          BY <1>3, <2>2, <3>3, PathThrough
        <4>2. Severed(y, u)'
          BY <1>0, <3>3, <4>1, SweptOn DEF Up
        <4> QED
          BY <4>1, <4>2, DoomOn
      <3> QED
        BY <3>1, <3>2, <3>3
    <2>4. CASE x # s /\ Up(x, u) = s
      <3>1. x \in Neighbours(s)
        BY <2>2, <2>4, UpNext, Edge
      <3>2. CASE Killed(x, u)
        <4>1. Killed(x, u)' \/ Doomed(s, u)' \/ Severed(x, u)'
          BY <2>2, <2>4, <3>1, <3>2, KilledStays
        <4> QED
          BY <1>3, <2>1, <2>2, <4>1, DoomOn
      <3>3. CASE Severed(x, u)
        <4>1. Up(x, u)' = s
          BY <2>4 DEF Up
        <4>2. CASE ~Live(s, x)
          <5>1. ~Live(s, x)'
            BY <3>1, <4>2, LiveStays
          <5> QED
            BY <2>1, <2>2, <4>1, <5>1, DoomOn DEF Severed
        <4>3. CASE \E i \in 1..Len(chan[<<s, x>>]) : Splits(x, u, chan[<<s, x>>][i])
          <5>1. \E i \in 1..Len(chan'[<<s, x>>]) : Splits(x, u, chan'[<<s, x>>][i])
            BY <1>0, <3>1, <4>3, SentLines
          <5>2. Severed(x, u)'
            BY <4>1, <5>1 DEF Severed, Splits
          <5> QED
            BY <2>1, <2>2, <5>2, DoomOn
        <4> QED
          BY <2>4, <3>3, <4>2, <4>3 DEF Severed
      <3> QED
        BY <2>1, <3>2, <3>3
    <2>5. CASE x # s /\ Up(x, u) # s
      <3>1. Killed(x, u)' \/ Severed(x, u)'
        BY <2>1, <2>2, <2>5, Elsewhere
      <3> QED
        BY <2>1, <2>2, <3>1, DoomOn
    <2> QED
      BY <2>3, <2>4, <2>5
  <1> QED
    BY <1>1, <1>2, <1>3

\* At most two lines at the end of a stream.
LEMMA FewLines ==
    ASSUME NEW c \in Seq(Msg), NEW o \in Seq(Msg), Len(o) <= 2
    PROVE  \/ o = << >> /\ c \o o = c
           \/ o # << >> /\ Len(o) = 1 /\ o[1] \in Msg /\ c \o o = Append(c, o[1])
           \/ o # << >> /\ Len(o) = 2 /\ o[1] \in Msg /\ o[2] \in Msg /\ Append(c, o[1]) \in Seq(Msg)
              /\ c \o o = Append(Append(c, o[1]), o[2])
  <1> DEFINE d == c \o o
  <1>1. Len(o) \in Nat /\ Len(c) \in Nat /\ (o # << >> => Len(o) # 0) /\ (Len(o) # 0 => o # << >>)
    OBVIOUS
  <1>2. \A i \in Nat : 1 <= i /\ i <= Len(o) => o[i] \in Msg
    BY <1>1
  <1>3. Len(o) = 0 \/ Len(o) = 1 \/ Len(o) = 2
    <2>1. \A n \in Nat : n <= 2 => n = 0 \/ n = 1 \/ n = 2
      OBVIOUS
    <2> QED
      BY <1>1, <2>1
  <1>4. d \in Seq(Msg) /\ Len(d) = Len(c) + Len(o)
        /\ \A i \in 1..(Len(c) + Len(o)) : d[i] = IF i <= Len(c) THEN c[i] ELSE o[i - Len(c)]
    BY ConcatProperties
  <1>5. \A v \in Seq(Msg), m \in Msg : Append(v, m) \in Seq(Msg) /\ Len(Append(v, m)) = Len(v) + 1
            /\ Append(v, m)[Len(v) + 1] = m /\ \A i \in 1..Len(v) : Append(v, m)[i] = v[i]
    OBVIOUS
  <1>6. CASE Len(o) = 0
    <2>1. o = << >>
      BY <1>1, <1>6
    <2>2. c \o << >> = c
      BY ConcatEmptySeq
    <2> QED
      BY <2>1, <2>2
  <1>7. CASE Len(o) = 1
    <2> DEFINE a == Append(c, o[1])
    <2>1. o # << >> /\ o[1] \in Msg
      BY <1>1, <1>2, <1>7
    <2>2. a \in Seq(Msg) /\ Len(a) = Len(c) + 1 /\ a[Len(c) + 1] = o[1] /\ \A i \in 1..Len(c) : a[i] = c[i]
      BY <1>5, <2>1
    <2> HIDE DEF a, d
    <2>3. Len(d) = Len(a) /\ \A i \in 1..Len(d) : d[i] = a[i]
      BY <1>1, <1>4, <1>7, <2>2
    <2>4. d = a
      BY <1>4, <2>2, <2>3, SeqEqual
    <2> QED
      BY <1>7, <2>1, <2>4 DEF a, d
  <1>8. CASE Len(o) = 2
    <2> DEFINE a == Append(c, o[1])
               b == Append(a, o[2])
    <2>1. o # << >> /\ o[1] \in Msg /\ o[2] \in Msg
      BY <1>1, <1>2, <1>8
    <2>2. a \in Seq(Msg) /\ Len(a) = Len(c) + 1 /\ a[Len(c) + 1] = o[1] /\ \A i \in 1..Len(c) : a[i] = c[i]
      BY <1>5, <2>1
    <2> HIDE DEF a
    <2>3. b \in Seq(Msg) /\ Len(b) = Len(a) + 1 /\ b[Len(a) + 1] = o[2] /\ \A i \in 1..Len(a) : b[i] = a[i]
      BY <1>5, <2>1, <2>2
    <2> HIDE DEF b, d
    <2>4. Len(d) = Len(b) /\ \A i \in 1..Len(d) : d[i] = b[i]
      BY <1>1, <1>4, <1>8, <2>2, <2>3
    <2>5. d = b
      BY <1>4, <2>3, <2>4, SeqEqual
    <2> QED
      BY <1>8, <2>1, <2>2, <2>5 DEF a, b, d
  <1> QED
    BY <1>3, <1>6, <1>7, <1>8

\* What a neighbour will know with these lines is what they make of what it would.
LEMMA ReadSent ==
    ASSUME NEW q \in Server, NEW u \in User, NEW e \in Entry, NEW c \in Seq(Msg), NEW o \in Seq(Msg), Len(o) <= 2
    PROVE  Read(q, u, e, c \o o) = Hears(q, u, Read(q, u, e, c), o)
  <1>1. CASE o = << >> /\ c \o o = c
    BY <1>1 DEF Hears
  <1>2. CASE o # << >> /\ Len(o) = 1 /\ o[1] \in Msg /\ c \o o = Append(c, o[1])
    BY <1>2, ReadForm DEF Hears
  <1>3. CASE o # << >> /\ Len(o) = 2 /\ o[1] \in Msg /\ o[2] \in Msg /\ Append(c, o[1]) \in Seq(Msg)
             /\ c \o o = Append(Append(c, o[1]), o[2])
    <2>0. \A v \in Seq(Msg), m \in Msg : Read(q, u, e, Append(v, m)) = After(q, u, Read(q, u, e, v), m)
      BY ReadForm
    <2>1. Read(q, u, e, Append(Append(c, o[1]), o[2])) = After(q, u, Read(q, u, e, Append(c, o[1])), o[2])
      BY <1>3, <2>0
    <2>2. Read(q, u, e, Append(c, o[1])) = After(q, u, Read(q, u, e, c), o[1])
      BY <1>3, ReadForm
    <2> QED
      BY <1>3, <2>1, <2>2 DEF Hears
  <1> QED
    BY <1>1, <1>2, <1>3, FewLines

\* The edge s hears about u on.
LEMMA TrailIn ==
    ASSUME CInv, NEW s \in Server, NEW out, NEW r, OneStep(s, out, r), NEW u \in User, UserOk(s, out, r, u),
           TypeOK', Support'
    PROVE  UserTrail(s, u)'
  <1> DEFINE w == Up(s, u)
             d == chan'[<<w, s>>]
             e == Due(s, r, u)
  <1> SUFFICES ASSUME s # Home[u], Live(s, w)'
               PROVE  /\ Told(s, u)' = Copy(w, u)' \/ Killed(s, u)' \/ Doomed(w, u)'
                      /\ w = Home[u] /\ u \notin byUid'[Home[u]] => Told(s, u)' = << >>
    BY DEF UserTrail, Up
  <1>0. TypeOK /\ Support /\ UserTrail(s, u)
    BY DEF CInv, IInv, UsersFollow
  <1>1. w \in Neighbours(s) /\ w \in Server /\ w # s /\ <<w, s>> \in Link /\ <<s, w>> \in Link /\ Home[u] \in Server
        /\ s \notin Path(w, Home[u]) /\ Up(s, u)' = w
    BY UpNext DEF Up
  <1>2. Live(s, w) /\ CanSend(s, w) /\ lc'[s][w] # "down"
    BY <1>1, LiveStays
  <1>3. byUid'[w] = byUid[w] /\ Copy(w, u)' = Copy(w, u)
    BY <1>1 DEF OneStep, Copy
  <1>4. d \in Seq(Msg) /\ e \in Entry /\ Read(s, u, e, d) = Told(s, u)
    <2>1. d \in Seq(Msg)
      BY <1>1 DEF TypeOK
    <2>2. chan[<<w, s>>] \in Seq(Msg)
      BY <1>0, <1>1, LineFacts
    <2>3. Copy(s, u) \in Entry
      BY <1>0, CopyType
    <2>4. CASE r = w
      <3>1. chan[<<w, s>>] # << >> /\ d = Tail(chan[<<w, s>>])
        BY <1>1, <1>2, <2>4 DEF OneStep
      <3>2. e = After(s, u, Copy(s, u), Head(chan[<<w, s>>]))
        BY <2>4 DEF Due
      <3> QED
        BY <2>1, <2>2, <2>3, <3>1, <3>2, ReadForm DEF Told
    <2>5. CASE r # w
      <3>1. d = chan[<<w, s>>]
        BY <1>1, <1>2, <2>5 DEF OneStep
      <3>2. e = Copy(s, u)
        BY <2>5 DEF Due
      <3> QED
        BY <2>1, <2>3, <3>1, <3>2 DEF Told
    <2> QED
      BY <2>4, <2>5
  <1>5. Told(s, u)' = Read(s, u, Copy(s, u)', d)
    BY <1>1 DEF Told
  <1>6. Doomed(w, u) => Doomed(w, u)'
    BY <1>1, DoomAbove
  <1>7. Copy(s, u)' = e \/ (Copy(s, u)' = << >> /\ Hit(s, out, r, u))
    BY <1>2 DEF UserOk
  <1>8. CASE Copy(s, u)' = e
    <2>1. Told(s, u)' = Told(s, u)
      BY <1>4, <1>5, <1>8
    <2>2. Killed(s, u) => Killed(s, u)'
      BY <1>0, <1>1, <1>3, SentLines DEF Killed, IsKill
    <2> QED
      BY <1>0, <1>2, <1>3, <1>6, <2>1, <2>2 DEF UserTrail
  <1>9. CASE Copy(s, u)' = << >> /\ Hit(s, out, r, u)
    <2>1. CASE u \in byUid[w]
      <3>1. PICK i \in 1..Len(out[w]) : IsKill(out[w][i], u)
        BY <1>9 DEF Hit
      <3>2. \E j \in 1..Len(chan'[<<s, w>>]) : chan'[<<s, w>>][j] = out[w][i]
        BY <1>0, <1>1, <1>2, SentLines
      <3>3. Killed(s, u)'
        BY <1>1, <1>3, <2>1, <3>1, <3>2 DEF Killed, IsKill
      <3> QED
        BY <1>3, <2>1, <3>3
    <2>2. CASE u \notin byUid[w]
      <3>1. Copy(w, u) = << >> /\ ~Killed(s, u)
        BY <2>2 DEF Copy, Killed
      <3>2. Told(s, u) = << >> => Told(s, u)' = << >>
        BY <1>4, <1>5, <1>9, SameEnd
      <3>3. (Told(s, u) = << >> \/ Doomed(w, u)) /\ (w = Home[u] => Told(s, u) = << >>)
        BY <1>0, <1>2, <2>2, <3>1 DEF UserTrail
      <3> QED
        BY <1>3, <1>6, <3>1, <3>2, <3>3
    <2> QED
      BY <2>1, <2>2
  <1> QED
    BY <1>7, <1>8, <1>9

\* The edges s tells of u on.
LEMMA TrailOut ==
    ASSUME CInv, NEW s \in Server, NEW out, NEW r, OneStep(s, out, r), NEW u \in User, UserOk(s, out, r, u),
           TypeOK', Support', NEW q \in Server, q # Home[u], Up(q, u) = s
    PROVE  UserTrail(q, u)'
  <1> SUFFICES ASSUME Live(q, s)'
               PROVE  /\ Told(q, u)' = Copy(s, u)' \/ Killed(q, u)' \/ Doomed(s, u)'
                      /\ s = Home[u] /\ u \notin byUid'[Home[u]] => Told(q, u)' = << >>
    BY DEF UserTrail, Up
  <1>0. TypeOK /\ Support /\ UserTrail(q, u)
    BY DEF CInv, IInv, UsersFollow
  <1>1. q \in Neighbours(s) /\ q # s /\ <<s, q>> \in Link /\ Up(q, u)' = s
    BY UpNext, Edge DEF Up
  <1>2. Live(q, s) /\ CanSend(s, q)
    BY <1>1, LiveStays
  <1>3. Copy(q, u)' = Copy(q, u) /\ Copy(q, u) \in Entry
    BY <1>0, <1>1, CopyType DEF OneStep, Copy
  <1>4. chan'[<<s, q>>] = chan[<<s, q>>] \o out[q] /\ chan[<<s, q>>] \in Seq(Msg)
        /\ out[q] \in Seq(Msg) /\ Len(out[q]) <= 2
    BY <1>0, <1>1, <1>2, LineFacts DEF OneStep
  <1>5. Told(q, u)' = Hears(q, u, Told(q, u), out[q])
    <2>1. Told(q, u)' = Read(q, u, Copy(q, u)', chan'[<<s, q>>])
      BY <1>1 DEF Told
    <2>2. Told(q, u) = Read(q, u, Copy(q, u), chan[<<s, q>>])
      BY DEF Told
    <2> QED
      BY <1>3, <1>4, <2>1, <2>2, ReadSent
  <1>6. ASSUME NEW m \in Msg, out[q] = <<m>>, Wipes(q, u, m)
        PROVE  Told(q, u)' = << >>
    <2>1. out[q] # << >> /\ Len(out[q]) = 1 /\ out[q][1] = m
      BY <1>6
    <2> QED
      BY <1>5, <1>6, <2>1 DEF Hears, After
  <1>7. CASE Swept(s, out, u)
    <2>1. \E m \in Msg : out[q] = <<m>> /\ Splits(q, u, m)
      BY <1>0, <1>1, <1>7, SweptOn
    <2>2. Told(q, u)' = << >>
      BY <1>6, <2>1 DEF Splits, Wipes
    <2>3. s # Home[u] /\ Copy(s, u)' = << >>
      BY <1>7 DEF Swept, Copy
    <2> QED
      BY <2>2, <2>3
  <1>8. CASE ~Swept(s, out, u)
    <2>1. Told(q, u)' = Copy(s, u)' \/ Killed(q, u)' \/ Doomed(s, u)'
      <3>1. Told(q, u) = Copy(s, u) \/ Killed(q, u) \/ Doomed(s, u)
        BY <1>0, <1>2 DEF UserTrail
      <3>2. CASE Told(q, u) = Copy(s, u)
        <4>1. \/ Hears(q, u, Copy(s, u), out[q]) = Copy(s, u)'
              \/ u \in byUid[s] /\ (Ending(u)' \/ Hit(s, out, r, u))
          BY <1>1, <1>8 DEF UserOk
        <4> QED
          BY <1>5, <3>2, <4>1, EndingStays, Upstream
      <3>3. CASE Killed(q, u)
        <4>1. Live(s, q)'
          BY DEF Live
        <4> QED
          BY <1>1, <1>8, <3>3, <4>1, KilledStays
      <3>4. CASE Doomed(s, u)
        BY <1>8, <3>4, DoomStays
      <3> QED
        BY <3>1, <3>2, <3>3, <3>4
    <2>2. ASSUME s = Home[u], u \notin byUid'[Home[u]]
          PROVE  Told(q, u)' = << >>
      <3>1. \/ \E m \in Msg : out[q] = <<m>> /\ Wipes(q, u, m)
            \/ u \notin byUid[s] /\ Hears(q, u, << >>, out[q]) = << >>
        BY <1>1, <2>2 DEF UserOk
      <3>2. u \notin byUid[s] => Told(q, u) = << >>
        BY <1>0, <1>2, <2>2 DEF UserTrail
      <3> QED
        BY <1>5, <1>6, <3>1, <3>2
    <2> QED
      BY <2>1, <2>2
  <1> QED
    BY <1>7, <1>8

\* The trail of u over a link that s has no end of.
LEMMA TrailElsewhere ==
    ASSUME CInv, NEW s \in Server, NEW out, NEW r, OneStep(s, out, r), NEW u \in User, UserOk(s, out, r, u),
           NEW z \in Server, z # s, z # Home[u], Up(z, u) # s
    PROVE  UserTrail(z, u)'
  <1> DEFINE w == Up(z, u)
  <1>0. UserTrail(z, u)
    BY DEF CInv, UsersFollow
  <1>1. w \in Server /\ w # s /\ <<w, z>> \in Link /\ Up(z, u)' = w
    BY UpNext DEF Up
  <1>2. lc'[w] = lc[w] /\ lc'[z] = lc[z] /\ chan'[<<w, z>>] = chan[<<w, z>>] /\ byUid'[w] = byUid[w]
    BY <1>1 DEF OneStep
  <1>3. Copy(z, u)' = Copy(z, u) /\ Copy(w, u)' = Copy(w, u)
    BY <1>1 DEF OneStep, Copy
  <1>4. Told(z, u)' = Told(z, u)
    BY <1>1, <1>2, <1>3 DEF Told
  <1>5. (Killed(z, u) => Killed(z, u)') /\ (Doomed(w, u) => Doomed(w, u)')
    BY <1>1, Elsewhere, DoomStays
  <1>6. Live(z, w)' => Live(z, w)
    BY <1>2 DEF Live
  <1>7. w = Home[u] => byUid'[Home[u]] = byUid[Home[u]]
    BY <1>2
  <1> QED
    BY <1>0, <1>1, <1>3, <1>4, <1>5, <1>6, <1>7 DEF UserTrail

\* The trails of the users outlast a step that treats each of them well.
LEMMA UsersStep ==
    ASSUME CInv, NEW s \in Server, NEW out, NEW r, OneStep(s, out, r), \A u \in User : UserOk(s, out, r, u),
           TypeOK', Support'
    PROVE  UsersFollow'
  <1>1. ASSUME NEW z \in Server, NEW u \in User  PROVE UserTrail(z, u)'
    <2>1. CASE z = Home[u]
      BY <2>1 DEF UserTrail
    <2> QED
      BY <2>1, TrailIn, TrailOut, TrailElsewhere
  <1> QED
    BY <1>1 DEF UsersFollow

\* The servers a server has, on one side of it, are servers.
LEMMA ViaForm ==
    ASSUME TypeOK, NEW s \in Server, NEW p \in Server
    PROVE  Via(s, p) \in Sets /\ servers[s] \cap Beyond(p, s) \in Sets
  BY DEF Via, Sets, TypeOK

\* Sending on keeps the claims of a stream.
LEMMA ClaimedSent ==
    ASSUME NEW q \in Server, NEW s, NEW x \in Sets, NEW c \in Seq(Msg), NEW o \in Seq(Msg), Len(o) <= 2,
           NEW y, Claimed(q, s, x, c), Says(q, s, ServersRead(q, x, c), o, y)
    PROVE  Claimed(q, s, x, c \o o) /\ ServersRead(q, x, c \o o) = y
  <1> DEFINE z == ServersRead(q, x, c)
  <1>0. \A v \in Seq(Msg), m \in Msg : ServersRead(q, x, Append(v, m)) = ServersAfter(q, ServersRead(q, x, v), m)
    BY ServersForm
  <1>1. CASE o = << >> /\ c \o o = c
    <2>1. y = z
      BY <1>1 DEF Says
    <2> QED
      BY <1>1, <2>1
  <1>2. CASE o # << >> /\ Len(o) = 1 /\ o[1] \in Msg /\ c \o o = Append(c, o[1])
    <2>1. Claims(q, s, z, o[1]) /\ y = ServersAfter(q, z, o[1])
      BY <1>2 DEF Says
    <2> QED
      BY <1>0, <1>2, <2>1, ClaimedOn
  <1>3. CASE o # << >> /\ Len(o) = 2 /\ o[1] \in Msg /\ o[2] \in Msg /\ Append(c, o[1]) \in Seq(Msg)
             /\ c \o o = Append(Append(c, o[1]), o[2])
    <2> DEFINE a == Append(c, o[1])
    <2>1. o[1].type = "KILL" /\ Claims(q, s, z, o[2]) /\ y = ServersAfter(q, z, o[2])
      BY <1>3 DEF Says
    <2>2. Claims(q, s, z, o[1]) /\ ServersAfter(q, z, o[1]) = z
      BY <2>1 DEF Claims, ServersAfter
    <2>3. Claimed(q, s, x, a) /\ ServersRead(q, x, a) = z
      BY <1>0, <1>3, <2>2, ClaimedOn
    <2> HIDE DEF a
    <2>4. Claimed(q, s, x, Append(a, o[2])) /\ ServersRead(q, x, Append(a, o[2])) = y
      BY <1>0, <1>3, <2>1, <2>3, ClaimedOn DEF a
    <2> QED
      BY <1>3, <2>4 DEF a
  <1> QED
    BY <1>1, <1>2, <1>3, FewLines

\* What s has heard of a neighbour still adds up after the step.
LEMMA ServerIn ==
    ASSUME CInv, NEW s \in Server, NEW out, NEW r, OneStep(s, out, r), ServersOk(s, out, r),
           NEW p \in Neighbours(s)
    PROVE  ServerTrail(s, p)' /\ (lc'[s][p] # "down" => p \in servers'[s])
  <1> SUFFICES ASSUME lc'[s][p] # "down"
               PROVE  ServerTrail(s, p)' /\ p \in servers'[s]
    BY DEF ServerTrail
  <1>0. TypeOK /\ PeerKnown /\ ServerTrail(s, p)
    BY DEF CInv, IInv, ServersFollow
  <1>1. p \in Server /\ p # s /\ <<p, s>> \in Link /\ Route[s][p] = p
    BY Edge
  <1> DEFINE x == Via(s, p)
             q == chan[<<p, s>>]
  <1>2. lc[s][p] # "down"
    BY <1>1 DEF OneStep
  <1>3. x \in Sets /\ q \in Seq(Msg) /\ Claimed(s, p, x, q)
    BY <1>0, <1>1, <1>2, ViaForm, LineFacts DEF ServerTrail
  <1>4. p \in x
    BY <1>0, <1>1, <1>2 DEF PeerKnown, Via, Beyond
  <1>5. lc'[p] = lc[p] /\ servers'[p] = servers[p] /\ Beyond(s, p)' = Beyond(s, p)
    BY <1>1 DEF OneStep, Beyond
  <1>6. lc[p][s] = "up" => ServersRead(s, x, q) = servers[p] \cap Beyond(s, p)
    BY <1>0, <1>2 DEF ServerTrail
  <1>7. CASE p = r
    <2>1. q # << >> /\ chan'[<<p, s>>] = Tail(q) /\ Via(s, p)' = ServersAfter(s, x, Head(q))
      BY <1>7 DEF OneStep, ServersOk
    <2>2. Claims(s, p, x, Head(q)) /\ Claimed(s, p, ServersAfter(s, x, Head(q)), Tail(q))
      BY <1>3, <2>1, ClaimedRead
    <2>3. ServersRead(s, x, q) = ServersRead(s, ServersAfter(s, x, Head(q)), Tail(q)) /\ Head(q) \in Msg
      BY <1>3, <2>1, ServersForm
    <2>4. p \in ServersAfter(s, x, Head(q))
      <3>1. CASE Head(q).type = "SQUIT"
        <4> DEFINE t == Head(q).sid
        <4>1. t \in x /\ t # p /\ t \in Server
          BY <2>2, <2>3, <3>1, MsgFields DEF Claims
        <4>2. t # s
          BY <4>1 DEF Via, Beyond
        <4>3. Route[t][s] = Route[t][p]
          BY <1>1, <4>1, <4>2, RouteShared
        <4> QED
          BY <1>4, <3>1, <4>1, <4>3 DEF ServersAfter, IsBehind
      <3>2. CASE Head(q).type # "SQUIT"
        BY <1>4, <3>2 DEF ServersAfter
      <3> QED
        BY <3>1, <3>2
    <2>5. p \in servers'[s]
      BY <2>1, <2>4 DEF Via
    <2> QED
      BY <1>5, <1>6, <2>1, <2>2, <2>3, <2>5 DEF ServerTrail
  <1>8. CASE p # r
    <2>1. chan'[<<p, s>>] = q /\ Via(s, p)' = x
      BY <1>8 DEF OneStep, ServersOk
    <2>2. p \in servers'[s]
      BY <1>4, <2>1 DEF Via
    <2> QED
      BY <1>3, <1>5, <1>6, <2>1, <2>2 DEF ServerTrail
  <1> QED
    BY <1>7, <1>8

\* So does what a neighbour has heard of s.
LEMMA ServerOut ==
    ASSUME CInv, NEW s \in Server, NEW out, NEW r, OneStep(s, out, r), ServersOk(s, out, r),
           NEW q \in Neighbours(s)
    PROVE  ServerTrail(q, s)' /\ (lc'[q][s] # "down" => s \in servers'[q])
  <1>1. q \in Server /\ q # s /\ <<s, q>> \in Link /\ s \in Neighbours(q)
    BY Edge
  <1>2. lc'[q] = lc[q] /\ servers'[q] = servers[q] /\ Via(q, s)' = Via(q, s) /\ Beyond(q, s)' = Beyond(q, s)
    BY <1>1 DEF OneStep, Beyond, Via
  <1> SUFFICES ASSUME lc[q][s] # "down"
               PROVE  ServerTrail(q, s)' /\ s \in servers'[q]
    BY <1>2 DEF ServerTrail
  <1>0. TypeOK /\ PeerKnown /\ ServerTrail(q, s)
    BY <1>1 DEF CInv, IInv, ServersFollow
  <1> DEFINE x == Via(q, s)
             c == chan[<<s, q>>]
             o == out[q]
  <1>3. s \in servers'[q]
    BY <1>0, <1>1, <1>2 DEF PeerKnown
  <1>4. x \in Sets /\ c \in Seq(Msg) /\ o \in Seq(Msg) /\ Len(o) <= 2 /\ Claimed(q, s, x, c)
    BY <1>0, <1>1, ViaForm, LineFacts DEF ServerTrail, OneStep
  <1>5. CASE CanSend(s, q)
    <2>1. chan'[<<s, q>>] = c \o o
      BY <1>5 DEF OneStep
    <2>2. ServersRead(q, x, c) = servers[s] \cap Beyond(q, s)
      BY <1>0, <1>5 DEF ServerTrail, CanSend
    <2>3. Says(q, s, ServersRead(q, x, c), o, servers'[s] \cap Beyond(q, s))
      BY <1>5, <2>2 DEF ServersOk
    <2>4. Claimed(q, s, x, c \o o) /\ ServersRead(q, x, c \o o) = servers'[s] \cap Beyond(q, s)
      BY <1>1, <1>4, <2>3, ClaimedSent
    <2> QED
      BY <1>2, <1>3, <2>1, <2>4 DEF ServerTrail
  <1>6. CASE ~CanSend(s, q)
    <2>1. chan'[<<s, q>>] = c
      BY <1>6 DEF OneStep
    <2>2. lc'[s][q] # "up"
      BY <1>1, <1>6 DEF OneStep, CanSend
    <2> QED
      BY <1>2, <1>3, <1>4, <2>1, <2>2 DEF ServerTrail
  <1> QED
    BY <1>5, <1>6

\* The trails of the servers outlast a step that says what it does to its table.
LEMMA ServersStep ==
    ASSUME CInv, NEW s \in Server, NEW out, NEW r, OneStep(s, out, r), ServersOk(s, out, r)
    PROVE  ServersFollow' /\ PeerKnown'
  <1>1. ASSUME NEW z \in Server, NEW p \in Neighbours(z)
        PROVE  ServerTrail(z, p)' /\ (lc'[z][p] # "down" => p \in servers'[z])
    <2>1. CASE z = s
      BY <2>1, ServerIn
    <2>2. CASE p = s
      <3>1. z \in Neighbours(s)
        BY <2>2, Edge
      <3> QED
        BY <2>2, <3>1, ServerOut
    <2>3. CASE z # s /\ p # s
      <3>1. p \in Server /\ <<p, z>> \in Link
        BY Edge
      <3>2. lc'[z] = lc[z] /\ lc'[p] = lc[p] /\ servers'[z] = servers[z] /\ servers'[p] = servers[p]
            /\ chan'[<<p, z>>] = chan[<<p, z>>]
        BY <2>3, <3>1 DEF OneStep
      <3>3. Via(z, p)' = Via(z, p) /\ Beyond(z, p)' = Beyond(z, p)
        BY <3>2 DEF Via, Beyond
      <3>4. ServerTrail(z, p) /\ (lc[z][p] # "down" => p \in servers[z])
        BY DEF CInv, ServersFollow, PeerKnown
      <3> QED
        BY <3>2, <3>3, <3>4 DEF ServerTrail
    <2> QED
      BY <2>1, <2>2, <2>3
  <1>2. Server' = Server /\ \A z \in Server : Neighbours(z)' = Neighbours(z)
    BY DEF Neighbours, Link
  <1> QED
    BY <1>1, <1>2 DEF ServersFollow, PeerKnown

\* The QUITs of o are those of users that are gone.
Leaving(o) == \A j \in 1..Len(o) : o[j].type = "QUIT" => alive'[o[j].user] = "gone"

\* A step sends the QUIT of those who are gone only.
LEMMA StepQuits ==
    ASSUME NEW s, NEW out, NEW r, OneStep(s, out, r), NEW q \in Neighbours(s)
    PROVE  Leaving(out[q])
  BY DEF OneStep, Leaving

\* How a step changes a link.
LEMMA StepLines ==
    ASSUME NEW s \in Server, NEW out, NEW r, OneStep(s, out, r), NEW q \in Neighbours(s)
    PROVE  /\ chan'[<<s, q>>] = chan[<<s, q>>] \o out[q] \/ chan'[<<s, q>>] = chan[<<s, q>>]
           /\ \/ chan'[<<q, s>>] = chan[<<q, s>>]
              \/ chan'[<<q, s>>] = << >>
              \/ chan[<<q, s>>] # << >> /\ chan'[<<q, s>>] = Tail(chan[<<q, s>>])
  BY DEF OneStep

\* A QUIT in flight is still that of somebody gone.
LEMMA QuitStep ==
    ASSUME CInv, NEW s \in Server, NEW out, NEW r, OneStep(s, out, r), TypeOK'
    PROVE  QuitGone'
  <1>0. TypeOK /\ QuitGone
    BY DEF CInv, IInv
  <1>1. ASSUME NEW l \in Link, NEW i \in 1..Len(chan[l]), chan[l][i].type = "QUIT"
        PROVE  alive'[chan[l][i].user] = "gone"
    <2>1. alive[chan[l][i].user] = "gone" /\ chan[l][i] \in Msg
      BY <1>0, <1>1, LineFacts DEF QuitGone
    <2>2. chan[l][i].user \in User
      BY <1>1, <2>1, MsgFields
    <2> QED
      BY <2>1, <2>2 DEF OneStep
  <1>2. ASSUME NEW l \in Link, NEW i \in 1..Len(chan'[l]), chan'[l][i].type = "QUIT"
        PROVE  alive'[chan'[l][i].user] = "gone"
    <2>1. CASE l[1] # s /\ l[2] # s
      BY <1>1, <1>2, <2>1 DEF OneStep
    <2>2. CASE l[1] = s
      <3>0. PICK q \in Neighbours(s) : l = <<s, q>>
        BY <2>2, LinkSymmetric DEF Link, Neighbours
      <3> DEFINE c == chan[l]
                 o == out[q]
      <3>1. q \in Server /\ l = <<s, q>>
        BY <3>0, Edge
      <3>2. c \in Seq(Msg) /\ o \in Seq(Msg)
        BY <1>0, <3>1, LineFacts DEF OneStep
      <3>3. chan'[l] = c \o o \/ chan'[l] = c
        BY <3>1, StepLines
      <3>4. (i \in 1..Len(c) /\ chan'[l][i] = c[i]) \/ (\E j \in 1..Len(o) : chan'[l][i] = o[j])
        <4>1. CASE chan'[l] = c
          BY <4>1
        <4>2. CASE chan'[l] = c \o o
          <5> HIDE DEF c, o
          <5>1. i \in 1..(Len(c) + Len(o)) /\ chan'[l][i] = IF i <= Len(c) THEN c[i] ELSE o[i - Len(c)]
            BY <3>2, <4>2, ConcatProperties
          <5>2. Len(c) \in Nat /\ Len(o) \in Nat
            BY <3>2
          <5>3. i <= Len(c) => i \in 1..Len(c)
            BY <5>1, <5>2
          <5>4. ~(i <= Len(c)) => i - Len(c) \in 1..Len(o)
            BY <5>1, <5>2
          <5> QED
            BY <5>1, <5>3, <5>4
        <4> QED
          BY <3>3, <4>1, <4>2
      <3>5. \A j \in 1..Len(o) : o[j].type = "QUIT" => alive'[o[j].user] = "gone"
        BY StepQuits DEF Leaving
      <3> HIDE DEF o
      <3> QED
        BY <1>1, <1>2, <3>4, <3>5
    <2>3. CASE l[2] = s
      <3>1. PICK q \in Neighbours(s) : l = <<q, s>>
        BY <2>3 DEF Link, Neighbours
      <3> DEFINE c == chan[l]
      <3>2. c \in Seq(Msg)
        BY <1>0, LineFacts
      <3>3. chan'[l] = c \/ chan'[l] = << >> \/ (c # << >> /\ chan'[l] = Tail(c))
        BY <3>1, StepLines
      <3>4. \E j \in 1..Len(c) : chan'[l][i] = c[j]
        <4>1. CASE chan'[l] = c
          BY <4>1
        <4>2. CASE c # << >> /\ chan'[l] = Tail(c)
          <5> HIDE DEF c
          <5>1. Len(Tail(c)) = Len(c) - 1 /\ Tail(c)[i] = c[i + 1] /\ Len(c) \in Nat /\ i \in 1..Len(Tail(c))
            BY <3>2, <4>2, HeadTailProperties
          <5>2. i + 1 \in 1..Len(c)
            BY <5>1
          <5> QED
            BY <4>2, <5>1, <5>2
        <4>3. CASE chan'[l] = << >>
          BY <4>3
        <4> QED
          BY <3>3, <4>1, <4>2, <4>3
      <3> QED
        BY <1>1, <1>2, <3>4
    <2> QED
      BY <2>1, <2>2, <2>3
  <1> QED
    BY <1>2 DEF QuitGone

\* A step of one server that keeps to the rules keeps the trails.
LEMMA LocalStep ==
    ASSUME CInv, IInv', NEW s \in Server, NEW out, NEW r,
           OneStep(s, out, r), ServersOk(s, out, r), \A u \in User : UserOk(s, out, r, u)
    PROVE  CInv'
  <1>1. TypeOK' /\ Support'
    BY DEF IInv
  <1>2. UsersFollow'
    BY <1>1, UsersStep
  <1>3. ServersFollow' /\ PeerKnown' /\ QuitGone'
    BY <1>1, ServersStep, QuitStep
  <1> QED
    BY <1>2, <1>3 DEF CInv

(***************************************************************************)
(* Steps, as the actions take them.                                        *)
(***************************************************************************)
\* Only the tables and the link ends of s change, no link comes up, nobody comes back.
Own(s) ==
    /\ \A z \in Server \ {s} :
           /\ byUid'[z] = byUid[z] /\ nick'[z] = nick[z] /\ nickTs'[z] = nickTs[z]
           /\ servers'[z] = servers[z] /\ lc'[z] = lc[z]
    /\ \A t \in Server : (lc'[s][t] = "up" => lc[s][t] = "up") /\ (lc[s][t] = "down" => lc'[s][t] = "down")
    /\ \A u \in User : (Ending(u) => Ending(u)') /\ (alive[u] = "gone" => alive'[u] = "gone")
\* A few lines for each neighbour.
Brief(out) ==
    out \in [Server -> Seq(Msg)] /\ \A q \in Server : Len(out[q]) <= 2 /\ Leaving(out[q])

\* What sending does to each stream.
LEMMA SentForm ==
    ASSUME TypeOK, NEW s \in Server, NEW out
    PROVE  /\ \A l \in Link : l[1] # s => Sent(s, out)[l] = chan[l]
           /\ \A q \in Neighbours(s) :
                  Sent(s, out)[<<s, q>>] = IF CanSend(s, q) THEN chan[<<s, q>>] \o out[q] ELSE chan[<<s, q>>]
           /\ DOMAIN Sent(s, out) = Link
  <1>1. \A l \in Link : l[1] # s => Sent(s, out)[l] = chan[l]
    BY DEF Sent
  <1>2. ASSUME NEW q \in Neighbours(s)
        PROVE  Sent(s, out)[<<s, q>>] = IF CanSend(s, q) THEN chan[<<s, q>>] \o out[q] ELSE chan[<<s, q>>]
    <2>1. <<s, q>> \in Link
      BY Edge
    <2> QED
      BY <2>1 DEF Sent
  <1> QED
    BY <1>1, <1>2 DEF Sent

\* Sending nothing leaves the streams alone.
LEMMA SentNothing ==
    ASSUME TypeOK, NEW s \in Server
    PROVE  Sent(s, Nothing) = chan
  <1>1. chan \in [Link -> Seq(Msg)] /\ \A l \in Link : l[2] \in Server
    BY DEF TypeOK, Link
  <1>2. \A l \in Link : chan[l] \o Nothing[l[2]] = chan[l]
    BY <1>1, ConcatEmptySeq DEF Nothing
  <1> QED
    BY <1>1, <1>2 DEF Sent

\* A step that only sends.
LEMMA SendStep ==
    ASSUME TypeOK, NEW s \in Server, NEW out, Brief(out), Own(s), chan' = Sent(s, out)
    PROVE  OneStep(s, out, s)
  <1>1. \A l \in Link : l[1] # s /\ l[2] # s => chan'[l] = chan[l]
    BY SentForm
  <1>2. ASSUME NEW q \in Neighbours(s)
        PROVE  /\ chan'[<<s, q>>] = IF CanSend(s, q) THEN chan[<<s, q>>] \o out[q] ELSE chan[<<s, q>>]
               /\ lc'[s][q] # "down" =>
                      IF q = s THEN chan[<<q, s>>] # << >> /\ chan'[<<q, s>>] = Tail(chan[<<q, s>>])
                      ELSE chan'[<<q, s>>] = chan[<<q, s>>]
               /\ lc'[s][q] = "down" => chan'[<<q, s>>] \in {chan[<<q, s>>], << >>}
               /\ \A i \in 1..Len(out[q]) : out[q][i].type = "QUIT" => alive'[out[q][i].user] = "gone"
    <2>1. q # s /\ <<q, s>> \in Link /\ q \in Server
      BY Edge
    <2>2. chan'[<<q, s>>] = chan[<<q, s>>]
      BY <2>1, SentForm
    <2>3. Leaving(out[q])
      BY <2>1 DEF Brief
    <2> QED
      BY <2>1, <2>2, <2>3, SentForm DEF Leaving
  <1>3. out \in [Server -> Seq(Msg)] /\ \A q \in Server : Len(out[q]) <= 2
    BY DEF Brief
  <1> QED
    BY <1>1, <1>2, <1>3 DEF OneStep, Own

\* A step that reads a line of p.
LEMMA ReadStep ==
    ASSUME TypeOK, NEW s \in Server, NEW p \in Server, NEW type, Reading(s, p, type), NEW out, Brief(out), Own(s),
           lc'[s][p] # "down", chan' = SentOnRead(s, p, out)
    PROVE  OneStep(s, out, p)
  <1>0. <<p, s>> \in Link /\ p # s /\ chan[<<p, s>>] # << >>
    BY DEF Reading, Link
  <1>1. /\ \A l \in Link : l # <<p, s>> => chan'[l] = Sent(s, out)[l]
        /\ chan'[<<p, s>>] = Tail(chan[<<p, s>>])
    BY <1>0, SentForm DEF SentOnRead
  <1>2. \A l \in Link : l[1] # s /\ l[2] # s => chan'[l] = chan[l]
    BY <1>1, SentForm
  <1>3. ASSUME NEW q \in Neighbours(s)
        PROVE  /\ chan'[<<s, q>>] = IF CanSend(s, q) THEN chan[<<s, q>>] \o out[q] ELSE chan[<<s, q>>]
               /\ lc'[s][q] # "down" =>
                      IF q = p THEN chan[<<q, s>>] # << >> /\ chan'[<<q, s>>] = Tail(chan[<<q, s>>])
                      ELSE chan'[<<q, s>>] = chan[<<q, s>>]
               /\ lc'[s][q] = "down" => chan'[<<q, s>>] \in {chan[<<q, s>>], << >>}
               /\ \A i \in 1..Len(out[q]) : out[q][i].type = "QUIT" => alive'[out[q][i].user] = "gone"
    <2>1. q # s /\ <<q, s>> \in Link /\ q \in Server /\ <<s, q>> \in Link
      BY Edge
    <2>2. chan'[<<s, q>>] = Sent(s, out)[<<s, q>>]
      BY <1>0, <1>1, <2>1
    <2>3. q # p => chan'[<<q, s>>] = chan[<<q, s>>]
      BY <1>0, <1>1, <2>1, SentForm
    <2>4. Leaving(out[q])
      BY <2>1 DEF Brief
    <2> QED
      BY <1>0, <1>1, <2>1, <2>2, <2>3, <2>4, SentForm DEF Leaving
  <1>4. out \in [Server -> Seq(Msg)] /\ \A q \in Server : Len(out[q]) <= 2
    BY DEF Brief
  <1> QED
    BY <1>2, <1>3, <1>4 DEF OneStep, Own

\* The outputs of the handlers, line by line.
LEMMA OutForm ==
    ASSUME NEW m, NEW p \in Server, NEW q \in Server
    PROVE  /\ Nothing[q] = << >>
           /\ FloodAll(m)[q] = <<m>>
           /\ Flood(p, m)[q] = IF q = p THEN << >> ELSE <<m>>
           /\ RouteTo(p, m)[q] = IF q = p THEN <<m>> ELSE << >>
  BY DEF Nothing, FloodAll, Flood, RouteTo

\* A line for some of the neighbours.
LEMMA BriefOut ==
    ASSUME NEW m \in Msg, m.type = "QUIT" => alive'[m.user] = "gone", NEW p \in Server
    PROVE  Brief(Nothing) /\ Brief(FloodAll(m)) /\ Brief(Flood(p, m)) /\ Brief(RouteTo(p, m))
  <1>1. ASSUME NEW out \in [Server -> Seq(Msg)], \A q \in Server : out[q] = << >> \/ out[q] = <<m>>
        PROVE  Brief(out)
    <2>1. ASSUME NEW q \in Server
          PROVE  Len(out[q]) <= 2 /\ Leaving(out[q])
      <3>1. CASE out[q] = << >>
        BY <3>1 DEF Leaving
      <3>2. CASE out[q] = <<m>>
        BY <3>2 DEF Leaving
      <3> QED
        BY <1>1, <3>1, <3>2
    <2> QED
      BY <2>1 DEF Brief
  <1>2. \A q \in Server :
            /\ Nothing[q] = << >> /\ FloodAll(m)[q] = <<m>>
            /\ Flood(p, m)[q] \in {<< >>, <<m>>} /\ RouteTo(p, m)[q] \in {<< >>, <<m>>}
    BY OutForm
  <1>3. /\ Nothing \in [Server -> Seq(Msg)] /\ FloodAll(m) \in [Server -> Seq(Msg)]
        /\ Flood(p, m) \in [Server -> Seq(Msg)] /\ RouteTo(p, m) \in [Server -> Seq(Msg)]
    BY OutTypes
  <1> QED
    BY <1>1, <1>2, <1>3

\* Nothing but m is sent, to anyone.
AtMost(o, m) == o \in [Server -> Seq(Msg)] /\ \A q \in Server : o[q] = << >> \/ o[q] = <<m>>

\* One line.
LEMMA SingleLine ==
    ASSUME NEW m
    PROVE  Len(<<m>>) = 1 /\ <<m>>[1] = m /\ <<m>> # << >>
  OBVIOUS

\* One line at most, for each neighbour.
LEMMA AtMostOut ==
    ASSUME NEW m \in Msg, NEW p \in Server
    PROVE  AtMost(Nothing, m) /\ AtMost(FloodAll(m), m) /\ AtMost(Flood(p, m), m) /\ AtMost(RouteTo(p, m), m)
  <1>1. \A q \in Server :
            /\ Nothing[q] = << >> /\ FloodAll(m)[q] = <<m>>
            /\ Flood(p, m)[q] = << >> \/ Flood(p, m)[q] = <<m>>
            /\ RouteTo(p, m)[q] = << >> \/ RouteTo(p, m)[q] = <<m>>
    BY OutForm
  <1>2. /\ Nothing \in [Server -> Seq(Msg)] /\ FloodAll(m) \in [Server -> Seq(Msg)]
        /\ Flood(p, m) \in [Server -> Seq(Msg)] /\ RouteTo(p, m) \in [Server -> Seq(Msg)]
    BY OutTypes
  <1> QED
    BY <1>1, <1>2 DEF AtMost

\* Two outputs of at most a line each.
LEMMA BriefThen ==
    ASSUME NEW m \in Msg, m.type # "QUIT", NEW n \in Msg, n.type # "QUIT",
           NEW o1, AtMost(o1, m), NEW o2, AtMost(o2, n)
    PROVE  /\ Brief(Then(o1, o2))
           /\ \A q \in Server : o1[q] = << >> => Then(o1, o2)[q] = o2[q]
           /\ \A q \in Server : o2[q] = << >> => Then(o1, o2)[q] = o1[q]
           /\ \A q \in Server : o1[q] = <<m>> /\ o2[q] = <<n>> =>
                  Len(Then(o1, o2)[q]) = 2 /\ Then(o1, o2)[q][1] = m /\ Then(o1, o2)[q][2] = n
  <1>1. \A q \in Server : Then(o1, o2)[q] = o1[q] \o o2[q]
    BY DEF Then
  <1> DEFINE a == <<m>>
             b == <<n>>
             e == << >>
  <1>a. a \in Seq(Msg) /\ b \in Seq(Msg) /\ e \in Seq(Msg)
    OBVIOUS
  <1>b. a \o b \in Seq(Msg) /\ Len(a \o b) = 2 /\ (a \o b)[1] = m /\ (a \o b)[2] = n
    <2>1. Len(a) = 1 /\ Len(b) = 1 /\ a[1] = m /\ b[1] = n
      OBVIOUS
    <2> HIDE DEF a, b
    <2>2. (a \o b)[1] = a[1] /\ (a \o b)[2] = b[1]
      <3>1. \A i \in 1..(Len(a) + Len(b)) : (a \o b)[i] = IF i <= Len(a) THEN a[i] ELSE b[i - Len(a)]
        BY <1>a, ConcatProperties
      <3>2. 1 \in 1..(Len(a) + Len(b)) /\ 2 \in 1..(Len(a) + Len(b)) /\ 1 <= Len(a) /\ ~(2 <= Len(a)) /\ 2 - Len(a) = 1
        BY <2>1
      <3> QED
        BY <3>1, <3>2
    <2>3. a \o b \in Seq(Msg) /\ Len(a \o b) = 2
      BY <1>a, <2>1, ConcatProperties
    <2> QED
      BY <2>1, <2>2, <2>3
  <1>2. e \o e = e /\ e \o a = a /\ a \o e = a /\ e \o b = b /\ b \o e = b
    <2> HIDE DEF a, b
    <2> QED
      BY <1>a, ConcatEmptySeq
  <1>3. ASSUME NEW q \in Server
        PROVE  /\ Then(o1, o2)[q] \in {e, a, b, a \o b}
               /\ o1[q] = e => Then(o1, o2)[q] = o2[q]
               /\ o2[q] = e => Then(o1, o2)[q] = o1[q]
               /\ o1[q] = a /\ o2[q] = b => Then(o1, o2)[q] = a \o b
    <2>0. o1[q] \in {e, a} /\ o2[q] \in {e, b}
      BY DEF AtMost
    <2> HIDE DEF a, b, e
    <2>1. CASE o1[q] = e
      BY <1>1, <1>2, <2>0, <2>1
    <2>2. CASE o1[q] = a
      BY <1>1, <1>2, <2>0, <2>2
    <2> QED
      BY <2>0, <2>1, <2>2
  <1>4. Then(o1, o2) \in [Server -> Seq(Msg)]
    BY ThenType DEF AtMost
  <1>5. ASSUME NEW q \in Server
        PROVE  Len(Then(o1, o2)[q]) <= 2 /\ Leaving(Then(o1, o2)[q])
    <2>1. Len(e) <= 2 /\ Leaving(e) /\ Len(a) <= 2 /\ Leaving(a) /\ Len(b) <= 2 /\ Leaving(b)
      BY DEF Leaving
    <2>2. Leaving(a \o b)
      BY <1>b DEF Leaving
    <2>3. Len(a \o b) <= 2
      BY <1>b
    <2>4. Then(o1, o2)[q] \in {e, a, b, a \o b}
      BY <1>3
    <2> HIDE DEF a, b, e
    <2>5. CASE Then(o1, o2)[q] = e
      BY <2>1, <2>5
    <2>6. CASE Then(o1, o2)[q] = a
      BY <2>1, <2>6
    <2>7. CASE Then(o1, o2)[q] = b
      BY <2>1, <2>7
    <2>8. CASE Then(o1, o2)[q] = a \o b
      BY <2>2, <2>3, <2>8
    <2> QED
      BY <2>4, <2>5, <2>6, <2>7, <2>8
  <1> QED
    BY <1>3, <1>4, <1>5, <1>b DEF Brief

(***************************************************************************)
(* A line about one user: passed on, refused, or ignored.                  *)
(***************************************************************************)
\* A line that says nothing of u.
Plain(m, u) == m.type \in {"KILL", "SERVER"} \/ (m.type \in {"UID", "NICK", "QUIT"} /\ m.user # u)
\* A line about a user that s may send to q.
About(q, s, m) ==
    \/ m.type = "KILL"
    \/ /\ m.type \in {"UID", "NICK", "QUIT"} /\ Home[m.user] \in Beyond(q, s)
       /\ m.type = "UID" => Home[m.user] \in servers[s]

\* A line that says nothing of u does nothing to its entry.
LEMMA AfterPlain ==
    ASSUME NEW q, NEW u, NEW e, NEW m, Plain(m, u)
    PROVE  After(q, u, e, m) = e /\ ~Wipes(q, u, m) /\ ~Splits(q, u, m)
  BY DEF Plain, After, Wipes, Splits

\* Hearing nothing, and hearing one line.
LEMMA HearsForm ==
    ASSUME NEW q, NEW u, NEW e
    PROVE  /\ Hears(q, u, e, << >>) = e
           /\ \A m : Hears(q, u, e, <<m>>) = After(q, u, e, m)
  BY DEF Hears

\* Lines that say nothing of u do nothing to its entry.
LEMMA HearsPlain ==
    ASSUME NEW q, NEW u, NEW e, NEW o \in Seq(Msg), Len(o) <= 2, \A i \in 1..Len(o) : Plain(o[i], u)
    PROVE  Hears(q, u, e, o) = e
  <1>1. CASE o = << >>
    BY <1>1 DEF Hears
  <1>2. CASE Len(o) = 1
    <2>1. After(q, u, e, o[1]) = e
      BY <1>2, AfterPlain
    <2> QED
      BY <1>2, <2>1 DEF Hears
  <1>3. CASE Len(o) = 2
    <2>1. Plain(o[1], u) /\ Plain(o[2], u)
      BY <1>3
    <2>2. After(q, u, e, o[1]) = e /\ After(q, u, e, o[2]) = e
      BY <2>1, AfterPlain
    <2> QED
      BY <1>3, <2>2 DEF Hears
  <1>4. o = << >> \/ Len(o) = 1 \/ Len(o) = 2
    BY FewLines
  <1> QED
    BY <1>1, <1>2, <1>3, <1>4

\* A user the step does not touch.
LEMMA AsideOk ==
    ASSUME NEW s \in Server, NEW out, NEW r, NEW u \in User,
           Copy(s, u)' = Copy(s, u), u \in byUid'[s] <=> u \in byUid[s],
           \A q \in Neighbours(s) : Hears(q, u, Copy(s, u), out[q]) = Copy(s, u),
           r # s => /\ After(s, u, Copy(s, u), Head(chan[<<r, s>>])) = Copy(s, u)
                    /\ ~Splits(s, u, Head(chan[<<r, s>>]))
                    /\ IsKill(Head(chan[<<r, s>>]), u) /\ u \in byUid[s] => Ending(u)' \/ Hit(s, out, r, u)
    PROVE  UserOk(s, out, r, u)
  <1>1. s # Home[u] => Up(s, u) # s
    BY UpNext
  <1>2. Due(s, r, u) = Copy(s, u)
    BY <1>1 DEF Due
  <1>3. u \notin byUid'[s] => u \notin byUid[s] /\ Copy(s, u) = << >>
    BY DEF Copy
  <1> QED
    BY <1>1, <1>2, <1>3 DEF UserOk

\* A step that leaves the server table alone.
LEMMA ServersKept ==
    ASSUME TypeOK, NEW s \in Server, NEW out, NEW r, servers'[s] = servers[s],
           r # s => Head(chan[<<r, s>>]).type \in {"UID", "NICK", "QUIT", "KILL"},
           \A q \in Neighbours(s) :
               \/ out[q] = << >>
               \/ Len(out[q]) = 1 /\ About(q, s, out[q][1])
               \/ Len(out[q]) = 2 /\ out[q][1].type = "KILL" /\ About(q, s, out[q][2])
    PROVE  ServersOk(s, out, r)
  <1>1. ASSUME NEW p \in Neighbours(s)
        PROVE  Via(s, p)' = IF p = r THEN ServersAfter(s, Via(s, p), Head(chan[<<p, s>>])) ELSE Via(s, p)
    <2>1. p # s /\ Via(s, p)' = Via(s, p)
      BY Edge DEF Via, Beyond
    <2>2. p = r => ServersAfter(s, Via(s, p), Head(chan[<<p, s>>])) = Via(s, p)
      BY <2>1 DEF ServersAfter
    <2> QED
      BY <2>1, <2>2
  <1>2. ASSUME NEW q \in Neighbours(s)
        PROVE  Says(q, s, servers[s] \cap Beyond(q, s), out[q], servers'[s] \cap Beyond(q, s)')
    <2> DEFINE x == servers[s] \cap Beyond(q, s)
    <2>1. servers'[s] \cap Beyond(q, s)' = x
      BY DEF Beyond
    <2>2. ASSUME NEW m, About(q, s, m)
          PROVE  Claims(q, s, x, m) /\ ServersAfter(q, x, m) = x
      BY <2>2 DEF About, Claims, ServersAfter
    <2> HIDE DEF x
    <2>3. Says(q, s, x, out[q], x)
      BY <2>2 DEF Says
    <2> QED
      BY <2>1, <2>3 DEF x
  <1> QED
    BY <1>1, <1>2 DEF ServersOk, Beyond

\* What Settle does to the entries.
LEMMA SettleCopy ==
    ASSUME NEW s \in Server, NEW gone \in SUBSET User, NEW new \in SUBSET User, NEW n, NEW t,
           Settled(s, gone, new, n, t), NEW u \in User
    PROVE  /\ u \in new => u \in byUid'[s] /\ Copy(s, u)' = <<n, t>>
           /\ u \notin new /\ u \in gone /\ Remote(s, u) => u \notin byUid'[s] /\ Copy(s, u)' = << >>
           /\ u \notin new /\ u \notin gone => (u \in byUid'[s] <=> u \in byUid[s]) /\ Copy(s, u)' = Copy(s, u)
           /\ u \notin new /\ ~Remote(s, u) => (u \in byUid'[s] <=> u \in byUid[s])
           /\ u \in gone /\ ~Remote(s, u) => Ending(u)'
  BY DEF Settled, Copy, Ending

\* Removing some clients and filing others changes the tables of one server.
LEMMA SettleOwn ==
    ASSUME IInv, NEW s \in Server, NEW gone \in SUBSET users[s], NEW new \in SUBSET User, NEW n, NEW t,
           Settle(s, gone, new, n, t), \A z \in Server \ {s} : servers'[z] = servers[z] /\ lc'[z] = lc[z],
           \A x \in Server : (lc'[s][x] = "up" => lc[s][x] = "up") /\ (lc[s][x] = "down" => lc'[s][x] = "down")
    PROVE  Own(s) /\ Settled(s, gone, new, n, t)
  <1>1. TypeOK /\ gone \in SUBSET User
    BY DEF IInv, TypeOK
  <1>2. Settled(s, gone, new, n, t)
    BY <1>1, SettleTables
  <1>3. ASSUME NEW z \in Server \ {s}
        PROVE  byUid'[z] = byUid[z] /\ nick'[z] = nick[z] /\ nickTs'[z] = nickTs[z]
    BY <1>1 DEF TypeOK, Settle
  <1>4. ASSUME NEW u \in User
        PROVE  (Ending(u) => Ending(u)') /\ (alive[u] = "gone" => alive'[u] = "gone")
    <2>1. alive'[u] = IF u \in gone /\ ~Remote(s, u) THEN "quitting" ELSE alive[u]
      BY <1>2 DEF Settled
    <2>2. u \in gone /\ ~Remote(s, u) => alive[u] \in {"open", "quitting"}
      BY DEF IInv, Support
    <2> QED
      BY <2>1, <2>2 DEF Ending
  <1> QED
    BY <1>2, <1>3, <1>4 DEF Own

\* A line about a user is read and settled, and says nothing of others but that they are killed.
LEMMA SettleRead ==
    ASSUME CInv, IInv', NEW s \in Server, NEW p \in Server, NEW type, type \in {"UID", "NICK", "QUIT"}, Reading(s, p, type),
           NEW u \in User, u = Head(chan[<<p, s>>]).user,
           NEW gone \in SUBSET users[s], NEW new, new \subseteq {u}, NEW n, NEW t,
           Settle(s, gone, new, n, t), UNCHANGED <<servers, lc>>,
           NEW out, Brief(out), chan' = SentOnRead(s, p, out), ServersOk(s, out, p),
           \A v \in User \ {u} : \A q \in Server : \A i \in 1..Len(out[q]) : Plain(out[q][i], v),
           \A v \in gone \ {u} : Remote(s, v) =>
               \E i \in 1..Len(out[Up(s, v)]) : IsKill(out[Up(s, v)][i], v),
           UserOk(s, out, p, u)
    PROVE  CInv'
  <1> DEFINE m == Head(chan[<<p, s>>])
  <1>0. TypeOK /\ Support /\ IInv
    BY DEF CInv, IInv
  <1>1. m \in Msg /\ m.type = type /\ m.user = u /\ p # s /\ lc[s][p] # "down"
    BY <1>0, ReadingFields, MsgFields DEF Reading
  <1>2. Own(s) /\ Settled(s, gone, new, n, t)
    BY <1>0, <1>1, SettleOwn
  <1>3. OneStep(s, out, p)
    BY <1>0, <1>1, <1>2, ReadStep
  <1>4. gone \in SUBSET User /\ new \in SUBSET User
    BY <1>0, <1>1 DEF TypeOK
  <1>5. ASSUME NEW v \in User, v # u
        PROVE  UserOk(s, out, p, v)
    <2>1. \A e : \A q \in Neighbours(s) : Hears(q, v, e, out[q]) = e
      <3> SUFFICES ASSUME NEW e, NEW q \in Neighbours(s)
                   PROVE  Hears(q, v, e, out[q]) = e
        OBVIOUS
      <3>1. q \in Server
        BY Edge
      <3>2. out[q] \in Seq(Msg) /\ Len(out[q]) <= 2
        BY <3>1 DEF Brief
      <3>3. \A i \in 1..Len(out[q]) : Plain(out[q][i], v)
        BY <1>5, <3>1
      <3> QED
        BY <3>2, <3>3, HearsPlain
    <2>2. \A e : After(s, v, e, m) = e /\ ~Splits(s, v, m) /\ ~IsKill(m, v)
      BY <1>1, <1>5, AfterPlain DEF Plain, IsKill
    <2>3. CASE v \notin gone
      <3>1. Copy(s, v)' = Copy(s, v) /\ (v \in byUid'[s] <=> v \in byUid[s])
        BY <1>2, <1>4, <1>5, <2>3, SettleCopy
      <3> QED
        BY <2>1, <2>2, <3>1, AsideOk
    <2>4. CASE v \in gone /\ ~Remote(s, v)
      <3>1. Ending(v)' /\ (v \in byUid'[s] <=> v \in byUid[s])
        BY <1>2, <1>4, <1>5, <2>4, SettleCopy
      <3>2. v \notin byUid[s] => Copy(s, v) = << >> /\ Copy(s, v)' = << >>
        BY <3>1 DEF Copy
      <3>3. s = Home[v]
        BY <2>4 DEF Remote
      <3> QED
        BY <2>1, <2>2, <3>1, <3>2, <3>3 DEF UserOk
    <2>5. CASE v \in gone /\ Remote(s, v)
      <3>1. Copy(s, v)' = << >> /\ v \notin byUid'[s]
        <4>1. v \notin new
          BY <1>5
        <4>2. v \notin byUid'[s]
          BY <1>2, <2>5, <4>1 DEF Settled
        <4> QED
          BY <4>2 DEF Copy
      <3>2. v \in byUid[s] /\ s # Home[v]
        BY <1>0, <2>5 DEF Support, Remote
      <3>3. Hit(s, out, p, v)
        BY <1>1, <1>5, <2>5, <3>2 DEF Hit
      <3> QED
        BY <2>2, <3>1, <3>2, <3>3 DEF UserOk
    <2> QED
      BY <2>3, <2>4, <2>5
  <1> QED
    BY <1>3, <1>5, LocalStep

\* What can be said of the line being read.
LEMMA Heard ==
    ASSUME CInv, NEW s \in Server, NEW p \in Server, NEW type, Reading(s, p, type)
    PROVE  /\ p \in Neighbours(s) /\ p # s /\ chan[<<p, s>>] # << >> /\ lc[s][p] # "down"
           /\ Head(chan[<<p, s>>]) \in Msg /\ Head(chan[<<p, s>>]).type = type
           /\ Claims(s, p, Via(s, p), Head(chan[<<p, s>>]))
  <1>1. TypeOK
    BY DEF CInv, IInv
  <1>2. /\ p \in Neighbours(s) /\ p # s /\ chan[<<p, s>>] # << >> /\ <<p, s>> \in Link /\ lc[s][p] # "down"
        /\ Head(chan[<<p, s>>]) \in Msg /\ Head(chan[<<p, s>>]).type = type
    BY <1>1, ReadingFields DEF Neighbours, Reading
  <1>3. Claimed(s, p, Via(s, p), chan[<<p, s>>])
    BY <1>2 DEF CInv, ServersFollow, ServerTrail
  <1>4. Via(s, p) \in Sets /\ chan[<<p, s>>] \in Seq(Msg)
    BY <1>1, <1>2, ViaForm, LineFacts
  <1> QED
    BY <1>2, <1>3, <1>4, ClaimedRead

\* What is beyond one neighbour is beyond s for the others.
LEMMA Sideways ==
    ASSUME NEW s \in Server, NEW p \in Neighbours(s), NEW h \in Beyond(s, p)
    PROVE  /\ h \in Server /\ h # s /\ Route[s][h] = p /\ IsBehind(s, h, p)
           /\ \A q \in Neighbours(s) : q # p => h \in Beyond(q, s)
  <1>1. h \in Server /\ h # s /\ Route[s][h] = p
    BY DEF Beyond
  <1>2. p \in Server /\ <<s, p>> \in Link
    BY Edge
  <1> QED
    BY <1>1, <1>2, BehindPeer, OneSide DEF Beyond

\* A line that changes nothing at s.
LEMMA IgnoreStep ==
    ASSUME CInv, IInv', NEW s \in Server, NEW p \in Server, NEW type, Reading(s, p, type), Ignore(s, p),
           ServersAfter(s, Via(s, p), Head(chan[<<p, s>>])) = Via(s, p),
           \A u \in User : /\ After(s, u, Copy(s, u), Head(chan[<<p, s>>])) = Copy(s, u)
                           /\ ~Splits(s, u, Head(chan[<<p, s>>]))
                           /\ ~(IsKill(Head(chan[<<p, s>>]), u) /\ u \in byUid[s])
    PROVE  CInv'
  <1>0. TypeOK
    BY DEF CInv, IInv
  <1>1. lc[s][p] # "down" /\ UNCHANGED <<alive, users, byUid, nick, nickTs, servers, lc>>
    BY DEF Reading, Ignore
  <1>2. Own(s) /\ Brief(Nothing)
    BY <1>1 DEF Own, Ending, Brief, Nothing, Leaving
  <1>3. OneStep(s, Nothing, p)
    BY <1>0, <1>1, <1>2, ReadStep DEF Ignore
  <1>4. \A q \in Neighbours(s) : Nothing[q] = << >>
    BY Edge DEF Nothing
  <1>5. ServersOk(s, Nothing, p)
    BY <1>1, <1>4 DEF ServersOk, Says, Via, Beyond
  <1>6. ASSUME NEW u \in User
        PROVE  UserOk(s, Nothing, p, u)
    <2>1. Copy(s, u)' = Copy(s, u) /\ (u \in byUid'[s] <=> u \in byUid[s])
      BY <1>1 DEF Copy
    <2>2. \A q \in Neighbours(s) : Hears(q, u, Copy(s, u), Nothing[q]) = Copy(s, u)
      BY <1>4, HearsForm
    <2> QED
      BY <2>1, <2>2, AsideOk
  <1> QED
    BY <1>3, <1>5, <1>6, LocalStep

\* Nothing before or after is nothing more.
LEMMA ThenNothing ==
    ASSUME NEW o \in [Server -> Seq(Msg)]
    PROVE  Then(Nothing, o) = o /\ Then(o, Nothing) = o
  <1>1. \A q \in Server : Nothing[q] \o o[q] = o[q] /\ o[q] \o Nothing[q] = o[q]
    BY ConcatEmptySeq DEF Nothing
  <1> QED
    BY <1>1 DEF Then

\* The outputs ServersKept allows.
Fits(q, s, o) ==
    \/ o = << >>
    \/ Len(o) = 1 /\ About(q, s, o[1])
    \/ Len(o) = 2 /\ o[1].type = "KILL" /\ About(q, s, o[2])

\* A line about u is passed on, after the KILL of a loser.
LEMMA ForwardOut ==
    ASSUME NEW s \in Server, NEW p \in Server, NEW u \in User, NEW m \in Msg, m.type \in {"UID", "NICK"}, m.user = u,
           NEW old \in User, NEW o1, o1 = Nothing \/ o1 = FloodAll(KillLine(old))
    PROVE  LET out == Then(o1, Flood(p, m))
           IN  /\ Brief(out)
               /\ \A v \in User \ {u} : \A q \in Server : \A i \in 1..Len(out[q]) : Plain(out[q][i], v)
               /\ \A q \in Server \ {p} : \A e : Hears(q, u, e, out[q]) = After(q, u, e, m)
               /\ o1 # Nothing => \A q \in Server : \E i \in 1..Len(out[q]) : IsKill(out[q][i], old)
               /\ \A q \in Server : (q # p => About(q, s, m)) => Fits(q, s, out[q])
  <1> DEFINE k == KillLine(old)
             o2 == Flood(p, m)
             out == Then(o1, o2)
  <1>1. k \in Msg /\ k.type = "KILL" /\ IsKill(k, old)
    BY LineTypes DEF KillLine, IsKill, Msg
  <1>2. o1 \in [Server -> Seq(Msg)] /\ o2 \in [Server -> Seq(Msg)]
    BY <1>1, OutTypes
  <1>3. AtMost(o1, k) /\ AtMost(o2, m)
    BY <1>1, AtMostOut
  <1>4. \A q \in Server : q # p => o2[q] = <<m>>
    BY OutForm
  <1>5. o2[p] = << >>
    BY OutForm
  <1>6. \A q \in Server : (o1 = Nothing => o1[q] = << >>) /\ (o1 # Nothing => o1[q] = <<k>>)
    BY OutForm
  <1>7. /\ Brief(out)
        /\ \A q \in Server : o1[q] = << >> => out[q] = o2[q]
        /\ \A q \in Server : o2[q] = << >> => out[q] = o1[q]
        /\ \A q \in Server : o1[q] = <<k>> /\ o2[q] = <<m>> =>
               Len(out[q]) = 2 /\ out[q][1] = k /\ out[q][2] = m
    <2> HIDE DEF k, o2
    <2>1. m.type # "QUIT" /\ k.type # "QUIT"
      BY <1>1
    <2> QED
      BY <1>1, <1>3, <2>1, BriefThen
  <1>8. ASSUME NEW q \in Server
        PROVE  /\ q = p /\ o1 = Nothing => out[q] = << >>
               /\ q = p /\ o1 # Nothing => out[q] = <<k>>
               /\ q # p /\ o1 = Nothing => out[q] = <<m>>
               /\ q # p /\ o1 # Nothing => Len(out[q]) = 2 /\ out[q][1] = k /\ out[q][2] = m
    <2> HIDE DEF out, k, o2
    <2> QED
      BY <1>4, <1>5, <1>6, <1>7
  <1>9. \A v \in User \ {u} : Plain(m, v) /\ Plain(k, v)
    BY <1>1 DEF Plain
  <1>10. \A q, e : After(q, u, e, k) = e
    BY <1>1, AfterPlain DEF Plain
  <1>11. ASSUME NEW q \in Server
         PROVE  /\ \A v \in User \ {u} : \A i \in 1..Len(out[q]) : Plain(out[q][i], v)
                /\ q # p => \A e : Hears(q, u, e, out[q]) = After(q, u, e, m)
                /\ o1 # Nothing => \E i \in 1..Len(out[q]) : IsKill(out[q][i], old)
                /\ (q # p => About(q, s, m)) => Fits(q, s, out[q])
    <2> HIDE DEF out, k, o2
    <2>1. CASE q = p /\ o1 = Nothing
      <3>1. out[q] = << >>
        BY <1>8, <2>1
      <3> QED
        BY <2>1, <3>1 DEF Fits
    <2>2. CASE q = p /\ o1 # Nothing
      <3>1. out[q] = <<k>> /\ Len(out[q]) = 1 /\ out[q][1] = k
        BY <1>8, <2>2, SingleLine
      <3> QED
        BY <1>1, <1>9, <2>2, <3>1 DEF Fits, About
    <2>3. CASE q # p /\ o1 = Nothing
      <3>0. out[q] = <<m>>
        BY <1>8, <2>3
      <3>1. out[q] # << >> /\ Len(out[q]) = 1 /\ out[q][1] = m
        BY <3>0, SingleLine
      <3>2. \A e : Hears(q, u, e, out[q]) = After(q, u, e, m)
        BY <3>1 DEF Hears
      <3>3. \A i \in 1..Len(out[q]) : out[q][i] = m
        BY <3>1
      <3> QED
        BY <1>9, <2>3, <3>1, <3>2, <3>3 DEF Fits
    <2>4. CASE q # p /\ o1 # Nothing
      <3>1. Len(out[q]) = 2 /\ out[q][1] = k /\ out[q][2] = m /\ out[q] # << >>
        BY <1>8, <2>4
      <3>2. \A e : Hears(q, u, e, out[q]) = After(q, u, e, m)
        BY <1>10, <3>1 DEF Hears
      <3>3. \A i \in 1..Len(out[q]) : i = 1 \/ i = 2
        BY <3>1
      <3>4. 1 \in 1..Len(out[q])
        BY <3>1
      <3> QED
        BY <1>1, <1>9, <2>4, <3>1, <3>2, <3>3, <3>4 DEF Fits
    <2> QED
      BY <2>1, <2>2, <2>3, <2>4
  <1> HIDE DEF out
  <1> QED
    BY <1>7, <1>11 DEF out

\* What a server sends when it refuses a line about u: KILLs, one of them back to p.
OnlyKills(s, p, u, old, o2, out) ==
    /\ Brief(out)
    /\ \A v : \A q \in Server : \A i \in 1..Len(out[q]) : Plain(out[q][i], v)
    /\ \E i \in 1..Len(out[p]) : IsKill(out[p][i], u)
    /\ o2 # Nothing => \A q \in Server : \E i \in 1..Len(out[q]) : IsKill(out[q][i], old)
    /\ \A q \in Server : Fits(q, s, out[q])

\* Only KILLs are sent: one back, and one for a loser.
LEMMA KillOut ==
    ASSUME NEW s \in Server, NEW p \in Server, NEW u \in User, NEW old \in User,
           NEW o1, o1 = RouteTo(p, KillLine(u)) \/ o1 = FloodAll(KillLine(u)),
           NEW o2, o2 = Nothing \/ o2 = FloodAll(KillLine(old))
    PROVE  OnlyKills(s, p, u, old, o2, Then(o1, o2))
  <1> DEFINE out == Then(o1, o2)
             k == KillLine(u)
             j == KillLine(old)
  <1>1. /\ k \in Msg /\ k.type = "KILL" /\ IsKill(k, u)
        /\ j \in Msg /\ j.type = "KILL" /\ IsKill(j, old)
    BY LineTypes DEF KillLine, IsKill, Msg
  <1>2. o1 \in [Server -> Seq(Msg)] /\ o2 \in [Server -> Seq(Msg)]
    BY <1>1, OutTypes
  <1>3. AtMost(o1, k) /\ AtMost(o2, j)
    BY <1>1, AtMostOut
  <1>4. o1[p] = <<k>> /\ \A q \in Server : o2 # Nothing => o2[q] = <<j>>
    BY OutForm
  <1>7. /\ Brief(out)
        /\ \A q \in Server : o1[q] = << >> => out[q] = o2[q]
        /\ \A q \in Server : o2[q] = << >> => out[q] = o1[q]
        /\ \A q \in Server : o1[q] = <<k>> /\ o2[q] = <<j>> =>
               Len(out[q]) = 2 /\ out[q][1] = k /\ out[q][2] = j
    <2> HIDE DEF k, j
    <2>1. j.type # "QUIT" /\ k.type # "QUIT"
      BY <1>1
    <2> QED
      BY <1>1, <1>3, <2>1, BriefThen
  <1>8. ASSUME NEW q \in Server
        PROVE  /\ \A v : \A i \in 1..Len(out[q]) : Plain(out[q][i], v)
               /\ o1[q] = <<k>> => \E i \in 1..Len(out[q]) : IsKill(out[q][i], u)
               /\ o2[q] = <<j>> => \E i \in 1..Len(out[q]) : IsKill(out[q][i], old)
               /\ Fits(q, s, out[q])
    <2>0. \A v : Plain(k, v) /\ Plain(j, v)
      BY <1>1 DEF Plain
    <2> HIDE DEF out, k, j
    <2>9. <<k>> # << >> /\ <<j>> # << >>
      OBVIOUS
    <2>1. CASE o1[q] = << >> /\ o2[q] = << >>
      <3>1. out[q] = << >>
        BY <1>7, <2>1
      <3> QED
        BY <2>1, <2>9, <3>1 DEF Fits
    <2>2. CASE o1[q] = <<k>> /\ o2[q] = << >>
      <3>0. out[q] = <<k>>
        BY <1>7, <2>2
      <3>1. out[q] = <<k>> /\ Len(out[q]) = 1 /\ out[q][1] = k
        BY <3>0, SingleLine
      <3> QED
        BY <1>1, <2>0, <2>2, <2>9, <3>1 DEF Fits, About
    <2>3. CASE o1[q] = << >> /\ o2[q] = <<j>>
      <3>0. out[q] = <<j>>
        BY <1>7, <2>3
      <3>1. out[q] = <<j>> /\ Len(out[q]) = 1 /\ out[q][1] = j
        BY <3>0, SingleLine
      <3> QED
        BY <1>1, <2>0, <2>3, <2>9, <3>1 DEF Fits, About
    <2>4. CASE o1[q] = <<k>> /\ o2[q] = <<j>>
      <3>1. Len(out[q]) = 2 /\ out[q][1] = k /\ out[q][2] = j
        BY <1>7, <2>4
      <3>3. 1 \in 1..Len(out[q]) /\ 2 \in 1..Len(out[q]) /\ \A i \in 1..Len(out[q]) : i = 1 \/ i = 2
        BY <3>1
      <3> QED
        BY <1>1, <2>0, <3>1, <3>3 DEF Fits, About
    <2>5. (o1[q] = << >> \/ o1[q] = <<k>>) /\ (o2[q] = << >> \/ o2[q] = <<j>>)
      BY <1>3 DEF AtMost
    <2> QED
      BY <2>1, <2>2, <2>3, <2>4, <2>5
  <1> HIDE DEF out
  <1> QED
    BY <1>4, <1>7, <1>8 DEF out, OnlyKills

\* A line about a user, as the claims have it.
LEMMA UserLine ==
    ASSUME CInv, NEW s \in Server, NEW p \in Server, NEW type, type \in {"UID", "NICK", "QUIT"}, Reading(s, p, type)
    PROVE  LET m == Head(chan[<<p, s>>])
           IN  /\ m \in Msg /\ m.type = type /\ m.user \in User /\ p \in Neighbours(s) /\ p # s
               /\ Home[m.user] # s /\ Up(s, m.user) = p /\ Remote(s, m.user) /\ IsBehind(s, Home[m.user], p)
               /\ type = "UID" => Home[m.user] \in servers[s]
               /\ \A q \in Neighbours(s) : q # p => About(q, s, m)
               /\ \A q \in Neighbours(s) : q # Home[m.user] /\ Up(q, m.user) = s => q # p
               /\ type \in {"UID", "NICK"} => m.nick \in Nick /\ m.ts \in Time
               /\ ~IsKill(m, m.user) /\ ~Splits(s, m.user, m) /\ m.type # "SQUIT"
               /\ m.type \in {"UID", "NICK", "QUIT", "KILL"}
  <1> DEFINE m == Head(chan[<<p, s>>])
  <1>1. m \in Msg /\ m.type = type /\ p \in Neighbours(s) /\ p # s /\ Claims(s, p, Via(s, p), m)
    BY Heard
  <1>2. m.user \in User /\ (type \in {"UID", "NICK"} => m.nick \in Nick /\ m.ts \in Time)
    BY <1>1, MsgFields
  <1>3. Home[m.user] \in Beyond(s, p) /\ (type = "UID" => Home[m.user] \in servers[s])
    BY <1>1 DEF Claims, Via
  <1>4. /\ Home[m.user] # s /\ Route[s][Home[m.user]] = p /\ IsBehind(s, Home[m.user], p)
        /\ \A q \in Neighbours(s) : q # p => Home[m.user] \in Beyond(q, s)
    BY <1>1, <1>3, Sideways
  <1>5. \A q \in Neighbours(s) : q # p => About(q, s, m)
    BY <1>1, <1>3, <1>4 DEF About
  <1>6. \A q \in Neighbours(s) : q # Home[m.user] /\ Up(q, m.user) = s => q # p
    BY <1>2, <1>4, UpSide DEF Up
  <1> QED
    BY <1>1, <1>2, <1>3, <1>4, <1>5, <1>6 DEF Up, Remote, IsKill, Splits

\* A KILL for everyone is something.
LEMMA LoudKill ==
    ASSUME NEW u, NEW s \in Server
    PROVE  FloodAll(KillLine(u)) # Nothing
  <1>1. FloodAll(KillLine(u))[s] # Nothing[s]
    BY SingleLine DEF FloodAll, Nothing
  <1> QED
    BY <1>1

\* The line is filed and passed on.
LEMMA ForwardStep ==
    ASSUME CInv, IInv', NEW s \in Server, NEW p \in Server, NEW type, type \in {"UID", "NICK"}, Reading(s, p, type),
           NEW u, u = Head(chan[<<p, s>>]).user, type = "UID" <=> u \notin byUid[s],
           NEW old \in User, NEW gone \in SUBSET users[s], gone \subseteq {old},
           Settle(s, gone, {u}, Head(chan[<<p, s>>]).nick, Head(chan[<<p, s>>]).ts), UNCHANGED <<servers, lc>>,
           NEW o1, o1 = Nothing \/ o1 = FloodAll(KillLine(old)), old \in gone /\ Remote(s, old) => o1 # Nothing,
           chan' = SentOnRead(s, p, Then(o1, Flood(p, Head(chan[<<p, s>>]))))
    PROVE  CInv'
  <1> DEFINE m == Head(chan[<<p, s>>])
             out == Then(o1, Flood(p, m))
  <1>0. TypeOK /\ IInv
    BY DEF CInv, IInv
  <1>1. /\ m \in Msg /\ m.type = type /\ u \in User /\ p \in Neighbours(s) /\ p # s
        /\ Home[u] # s /\ Up(s, u) = p
        /\ \A q \in Neighbours(s) : q # p => About(q, s, m)
        /\ \A q \in Neighbours(s) : q # Home[u] /\ Up(q, u) = s => q # p
        /\ m.nick \in Nick /\ m.ts \in Time
        /\ ~IsKill(m, u) /\ ~Splits(s, u, m) /\ m.type # "SQUIT"
        /\ m.type \in {"UID", "NICK", "QUIT", "KILL"}
    BY UserLine
  <1>2. /\ Brief(out)
        /\ \A v \in User \ {u} : \A q \in Server : \A i \in 1..Len(out[q]) : Plain(out[q][i], v)
        /\ \A q \in Server \ {p} : \A e : Hears(q, u, e, out[q]) = After(q, u, e, m)
        /\ o1 # Nothing => \A q \in Server : \E i \in 1..Len(out[q]) : IsKill(out[q][i], old)
        /\ \A q \in Server : (q # p => About(q, s, m)) => Fits(q, s, out[q])
    <2>1. m.type \in {"UID", "NICK"} /\ m.user = u
      BY <1>1
    <2> HIDE DEF m
    <2> QED
      BY <1>1, <2>1, ForwardOut
  <1> HIDE DEF out
  <1>3. ServersOk(s, out, p)
    <2>1. \A q \in Neighbours(s) : Fits(q, s, out[q])
      BY <1>1, <1>2, Edge
    <2> QED
      BY <1>0, <1>1, <2>1, ServersKept DEF Fits
  <1>4. \A v \in gone \ {u} : Remote(s, v) => \E i \in 1..Len(out[Up(s, v)]) : IsKill(out[Up(s, v)][i], v)
    <2> SUFFICES ASSUME NEW v \in gone, Remote(s, v)
                 PROVE  \E i \in 1..Len(out[Up(s, v)]) : IsKill(out[Up(s, v)][i], v)
      OBVIOUS
    <2>1. v = old
      OBVIOUS
    <2>2. Up(s, old) \in Server
      BY <2>1, UpNext DEF Remote
    <2> QED
      BY <1>2, <2>1, <2>2
  <1>5. Settled(s, gone, {u}, m.nick, m.ts)
    <2>1. gone \in SUBSET User /\ {u} \in SUBSET User
      BY <1>0, <1>1 DEF TypeOK
    <2> QED
      BY <1>0, <2>1, SettleTables
  <1>6. u \in byUid'[s] /\ Copy(s, u)' = <<m.nick, m.ts>>
    BY <1>5 DEF Settled, Copy
  <1>7. UserOk(s, out, p, u)
    <2>1. type = "UID" <=> Copy(s, u) = << >>
      BY <1>0, <1>1, CopyType DEF IInv
    <2>2. \A q : After(q, u, Copy(s, u), m) = <<m.nick, m.ts>>
      BY <1>1, <2>1 DEF After, Wipes
    <2>3. Due(s, p, u) = <<m.nick, m.ts>>
      BY <1>1, <2>2 DEF Due
    <2>4. \A q \in Neighbours(s) : q # Home[u] /\ Up(q, u) = s => Hears(q, u, Copy(s, u), out[q]) = <<m.nick, m.ts>>
      <3> SUFFICES ASSUME NEW q \in Neighbours(s), q # Home[u], Up(q, u) = s
                   PROVE  Hears(q, u, Copy(s, u), out[q]) = <<m.nick, m.ts>>
        OBVIOUS
      <3>1. q \in Server \ {p}
        BY <1>1, Edge
      <3>2. Hears(q, u, Copy(s, u), out[q]) = After(q, u, Copy(s, u), m)
        BY <1>2, <3>1
      <3> QED
        BY <2>2, <3>2
    <2> QED
      BY <1>1, <1>6, <2>3, <2>4 DEF UserOk
  <1>8. {u} \subseteq {u}
    OBVIOUS
  <1> QED
    BY <1>1, <1>2, <1>3, <1>4, <1>7, <1>8, SettleRead DEF out

\* The line loses: the user it is about is killed.
LEMMA RefuseStep ==
    ASSUME CInv, IInv', NEW s \in Server, NEW p \in Server, NEW type, type \in {"UID", "NICK"}, Reading(s, p, type),
           NEW u, u = Head(chan[<<p, s>>]).user,
           NEW old \in User, NEW gone \in SUBSET users[s], gone \subseteq {u, old}, u \notin byUid[s] \/ u \in gone,
           Settle(s, gone, {}, NoNick, 0), UNCHANGED <<servers, lc>>,
           NEW o1, o1 = RouteTo(p, KillLine(u)) \/ o1 = FloodAll(KillLine(u)),
           NEW o2, o2 = Nothing \/ o2 = FloodAll(KillLine(old)),
           old \in gone \ {u} /\ Remote(s, old) => o2 # Nothing,
           chan' = SentOnRead(s, p, Then(o1, o2))
    PROVE  CInv'
  <1> DEFINE m == Head(chan[<<p, s>>])
             out == Then(o1, o2)
  <1>0. TypeOK /\ IInv
    BY DEF CInv, IInv
  <1>1. /\ m \in Msg /\ m.type = type /\ u \in User /\ p \in Neighbours(s) /\ p # s
        /\ Home[u] # s /\ Up(s, u) = p /\ Remote(s, u)
        /\ ~IsKill(m, u) /\ ~Splits(s, u, m) /\ m.type # "SQUIT"
        /\ m.type \in {"UID", "NICK", "QUIT", "KILL"}
    BY UserLine
  <1>2. /\ Brief(out)
        /\ \A v : \A q \in Server : \A i \in 1..Len(out[q]) : Plain(out[q][i], v)
        /\ \E i \in 1..Len(out[p]) : IsKill(out[p][i], u)
        /\ o2 # Nothing => \A q \in Server : \E i \in 1..Len(out[q]) : IsKill(out[q][i], old)
        /\ \A q \in Server : Fits(q, s, out[q])
    <2>1. /\ u \in User
          /\ o1 = RouteTo(p, KillLine(u)) \/ o1 = FloodAll(KillLine(u))
          /\ o2 = Nothing \/ o2 = FloodAll(KillLine(old))
      BY <1>1
    <2> HIDE DEF m
    <2>2. OnlyKills(s, p, u, old, o2, out)
      BY <2>1, KillOut
    <2> QED
      BY <2>2 DEF OnlyKills
  <1> HIDE DEF out
  <1>3. ServersOk(s, out, p)
    <2>1. \A q \in Neighbours(s) : Fits(q, s, out[q])
      BY <1>2, Edge
    <2> QED
      BY <1>0, <1>1, <2>1, ServersKept DEF Fits
  <1>4. \A v \in gone \ {u} : Remote(s, v) => \E i \in 1..Len(out[Up(s, v)]) : IsKill(out[Up(s, v)][i], v)
    <2> SUFFICES ASSUME NEW v \in gone \ {u}, Remote(s, v)
                 PROVE  \E i \in 1..Len(out[Up(s, v)]) : IsKill(out[Up(s, v)][i], v)
      OBVIOUS
    <2>1. v = old
      OBVIOUS
    <2>2. Up(s, old) \in Server
      BY <2>1, UpNext DEF Remote
    <2> QED
      BY <1>2, <2>1, <2>2
  <1>5. u \notin byUid'[s] /\ Copy(s, u)' = << >>
    <2>1. gone \in SUBSET User /\ {} \in SUBSET User
      BY <1>0 DEF TypeOK
    <2>2. Settled(s, gone, {}, NoNick, 0)
      BY <1>0, <2>1, SettleTables
    <2>3. u \notin byUid'[s]
      BY <1>1, <2>2 DEF Settled
    <2> QED
      BY <2>3 DEF Copy
  <1>6. Hit(s, out, p, u)
    BY <1>1, <1>2 DEF Hit
  <1>7. UserOk(s, out, p, u)
    <2>1. u \notin byUid[s] => Copy(s, u) = << >>
      BY DEF Copy
    <2>2. \A q \in Neighbours(s) : Hears(q, u, Copy(s, u), out[q]) = Copy(s, u)
      <3> SUFFICES ASSUME NEW q \in Neighbours(s)
                   PROVE  Hears(q, u, Copy(s, u), out[q]) = Copy(s, u)
        OBVIOUS
      <3>1. q \in Server
        BY Edge
      <3>2. out[q] \in Seq(Msg) /\ Len(out[q]) <= 2 /\ \A i \in 1..Len(out[q]) : Plain(out[q][i], u)
        BY <1>2, <3>1 DEF Brief
      <3> QED
        BY <3>2, HearsPlain
    <2> QED
      BY <1>1, <1>5, <1>6, <2>1, <2>2 DEF UserOk
  <1>8. {} \subseteq {u}
    OBVIOUS
  <1>9. \A v \in User \ {u} : \A q \in Server : \A i \in 1..Len(out[q]) : Plain(out[q][i], v)
    BY <1>2
  <1> QED
    BY <1>1, <1>2, <1>3, <1>4, <1>7, <1>8, <1>9, SettleRead DEF out

\* The lines the code builds of what it has read are what it has read.
LEMMA SameLine ==
    ASSUME NEW m \in Msg
    PROVE  /\ m.type = "UID" => UidLine(m.user, m.nick, m.ts) = m
           /\ m.type = "NICK" => NickLine(m.user, m.nick, m.ts) = m
           /\ m.type = "QUIT" => QuitLine(m.user) = m
           /\ m.type = "SERVER" => ServerLine(m.sid) = m
           /\ m.type = "SQUIT" => SquitLine(m.sid) = m
  BY DEF Msg, UidLine, NickLine, QuitLine, ServerLine, SquitLine

\* A KILL goes out for a remote loser only.
LEMMA KillOfForm ==
    ASSUME NEW s \in Server, NEW old
    PROVE  /\ KillOf(s, old) = Nothing \/ KillOf(s, old) = FloodAll(KillLine(old))
           /\ Remote(s, old) => KillOf(s, old) # Nothing
  BY LoudKill DEF KillOf

(***************************************************************************)
(* UID, NICK and QUIT lines.                                               *)
(***************************************************************************)
\* handle_uid: what a server introduces, refuses or evicts, it says on, or says back.
LEMMA HandleUidTrails ==
    ASSUME CInv, NEW s \in Server, NEW p \in Server, HandleUid(s, p)
    PROVE  CInv'
  <1> DEFINE m == Head(chan[<<p, s>>])
             u == m.user
             Holds == Holders(s, m.nick)
             forward == Flood(p, UidLine(u, m.nick, m.ts))
             killBack == RouteTo(p, KillLine(u))
  <1>0. IInv /\ IInv' /\ TypeOK /\ Support /\ Reading(s, p, "UID")
    BY HandleUidKeeps DEF CInv, IInv, HandleUid
  <1>1. /\ m \in Msg /\ m.type = "UID" /\ u \in User /\ p \in Neighbours(s)
        /\ Remote(s, u) /\ Home[u] # s /\ Home[u] \in servers[s] /\ IsBehind(s, Home[u], p)
        /\ ~Splits(s, u, m)
    BY <1>0, UserLine
  <1>2. SrcServer(s, p, Home[u])
    BY <1>1 DEF SrcServer
  <1>3. ASSUME u \in byUid[s], Ignore(s, p)
        PROVE  CInv'
    <2>1. \A v \in User : After(s, v, Copy(s, v), m) = Copy(s, v) /\ ~Splits(s, v, m) /\ ~IsKill(m, v)
      <3>1. Copy(s, u) # << >>
        BY <1>0, <1>1, <1>3, CopyType
      <3> QED
        BY <1>1, <3>1 DEF After, Wipes, Splits, IsKill
    <2>2. ServersAfter(s, Via(s, p), m) = Via(s, p)
      BY <1>1 DEF ServersAfter
    <2> HIDE DEF m
    <2> QED
      BY <1>0, <1>3, <2>1, <2>2, IgnoreStep DEF m
  <1>4. UidLine(u, m.nick, m.ts) = m
    BY <1>1, SameLine
  <1>5. \A old \in Holds : old \in User /\ {old} \in SUBSET users[s]
    BY <1>0 DEF Holders, TypeOK
  <1>6. ASSUME NEW old \in User, NEW gone \in SUBSET users[s], gone \subseteq {old}, u \notin byUid[s],
               Settle(s, gone, {u}, m.nick, m.ts), UNCHANGED <<servers, lc>>,
               NEW o1, o1 = Nothing \/ o1 = FloodAll(KillLine(old)), old \in gone /\ Remote(s, old) => o1 # Nothing,
               chan' = SentOnRead(s, p, Then(o1, Flood(p, m)))
        PROVE  CInv'
    <2> DEFINE type == "UID"
    <2>1. type \in {"UID", "NICK"} /\ Reading(s, p, type) /\ (type = "UID" <=> u \notin byUid[s])
      BY <1>0, <1>6
    <2> HIDE DEF type
    <2> QED
      BY <1>0, <1>6, <2>1, ForwardStep
  <1>7. ASSUME NEW old \in User, NEW gone \in SUBSET users[s], gone \subseteq {old}, u \notin byUid[s],
               Settle(s, gone, {}, NoNick, 0), UNCHANGED <<servers, lc>>,
               NEW o2, o2 = Nothing \/ o2 = FloodAll(KillLine(old)), old \in gone /\ Remote(s, old) => o2 # Nothing,
               chan' = SentOnRead(s, p, Then(killBack, o2))
        PROVE  CInv'
    <2> DEFINE type == "UID"
    <2>1. type \in {"UID", "NICK"} /\ Reading(s, p, type) /\ gone \subseteq {u, old}
      BY <1>0, <1>7
    <2>2. old \in gone \ {u} /\ Remote(s, old) => o2 # Nothing
      BY <1>7
    <2> HIDE DEF type
    <2> QED
      BY <1>0, <1>7, <2>1, <2>2, RefuseStep
  <1>8. ASSUME u \notin byUid[s], Holds = {}, Settle(s, {}, {u}, m.nick, m.ts), chan' = SentOnRead(s, p, forward),
               UNCHANGED <<servers, lc, faults, moves>>
        PROVE  CInv'
    <2>1. Then(Nothing, Flood(p, m)) = forward
      BY <1>1, <1>4, OutTypes, ThenNothing
    <2>2. {} \in SUBSET users[s] /\ {} \subseteq {u} /\ u \notin {}
      OBVIOUS
    <2> HIDE DEF m, u, forward
    <2> QED
      BY <1>1, <1>6, <1>8, <2>1, <2>2
  <1>9. ASSUME u \notin byUid[s], NEW old \in Holds, Settle(s, {old}, {u}, m.nick, m.ts),
               chan' = SentOnRead(s, p, Then(KillOf(s, old), forward)), UNCHANGED <<servers, lc, faults, moves>>
        PROVE  CInv'
    <2>1. old \in User /\ {old} \in SUBSET users[s] /\ {old} \subseteq {old}
      BY <1>5
    <2>2. /\ KillOf(s, old) = Nothing \/ KillOf(s, old) = FloodAll(KillLine(old))
          /\ Remote(s, old) => KillOf(s, old) # Nothing
      BY KillOfForm
    <2>3. forward = Flood(p, m)
      BY <1>4
    <2> HIDE DEF m, u, forward, Holds
    <2> QED
      BY <1>6, <1>9, <2>1, <2>2, <2>3
  <1>10. ASSUME u \notin byUid[s], NEW old \in Holds, Settle(s, {old}, {}, NoNick, 0),
                chan' = SentOnRead(s, p, Then(killBack, KillOf(s, old))), UNCHANGED <<servers, lc, faults, moves>>
         PROVE  CInv'
    <2>1. old \in User /\ {old} \in SUBSET users[s] /\ {old} \subseteq {old}
      BY <1>5
    <2>2. /\ KillOf(s, old) = Nothing \/ KillOf(s, old) = FloodAll(KillLine(old))
          /\ Remote(s, old) => KillOf(s, old) # Nothing
      BY KillOfForm
    <2> HIDE DEF m, u, killBack, Holds
    <2> QED
      BY <1>7, <1>10, <2>1, <2>2
  <1>11. ASSUME u \notin byUid[s], Settle(s, {}, {}, NoNick, 0), chan' = SentOnRead(s, p, killBack),
                UNCHANGED <<servers, lc, faults, moves>>
         PROVE  CInv'
    <2>1. Then(killBack, Nothing) = killBack
      <3>1. KillLine(u) \in Msg
        BY <1>1 DEF KillLine, Msg
      <3>2. killBack \in [Server -> Seq(Msg)]
        BY <3>1, OutTypes
      <3> HIDE DEF killBack
      <3> QED
        BY <3>2, ThenNothing
    <2>2. {} \in SUBSET users[s] /\ {} \subseteq {u} /\ u \notin {}
      OBVIOUS
    <2> HIDE DEF m, u, killBack
    <2> QED
      BY <1>1, <1>7, <1>11, <2>1, <2>2
  <1> QED
    BY <1>2, <1>3, <1>8, <1>9, <1>10, <1>11 DEF HandleUid

\* handle_nick: a rename is passed on, or its loser is killed towards everyone who has it.
LEMMA HandleNickTrails ==
    ASSUME CInv, NEW s \in Server, NEW p \in Server, HandleNick(s, p)
    PROVE  CInv'
  <1> DEFINE m == Head(chan[<<p, s>>])
             u == m.user
             Clash == Holders(s, m.nick) \ {u}
             forward == Flood(p, NickLine(u, m.nick, m.ts))
  <1>0. IInv /\ IInv' /\ TypeOK /\ Support /\ Reading(s, p, "NICK")
    BY HandleNickKeeps DEF CInv, IInv, HandleNick
  <1>1. /\ m \in Msg /\ m.type = "NICK" /\ u \in User /\ p \in Neighbours(s)
        /\ Remote(s, u) /\ Home[u] # s /\ IsBehind(s, Home[u], p)
        /\ ~Splits(s, u, m)
    BY <1>0, UserLine
  <1>2. ~SrcUser(s, p, u) => u \notin byUid[s]
    BY <1>1 DEF SrcUser
  <1>g. SrcUser(s, p, u) => u \in byUid[s] /\ u \in users[s]
    BY <1>0, <1>1 DEF SrcUser, IInv, RemoteAnchored
  <1>3. ASSUME u \notin byUid[s], Ignore(s, p)
        PROVE  CInv'
    <2>1. \A v \in User : After(s, v, Copy(s, v), m) = Copy(s, v) /\ ~Splits(s, v, m) /\ ~IsKill(m, v)
      <3>1. Copy(s, u) = << >>
        BY <1>0, <1>1, <1>3, CopyType
      <3> QED
        BY <1>1, <3>1 DEF After, Wipes, Splits, IsKill
    <2>2. ServersAfter(s, Via(s, p), m) = Via(s, p)
      BY <1>1 DEF ServersAfter
    <2> HIDE DEF m
    <2> QED
      BY <1>0, <1>3, <2>1, <2>2, IgnoreStep DEF m
  <1>4. NickLine(u, m.nick, m.ts) = m
    BY <1>1, SameLine
  <1>5. \A old \in Clash : old \in User /\ {old} \in SUBSET users[s]
    BY <1>0 DEF Holders, TypeOK
  <1>6. ASSUME NEW old \in User, NEW gone \in SUBSET users[s], gone \subseteq {old}, u \in byUid[s],
               Settle(s, gone, {u}, m.nick, m.ts), UNCHANGED <<servers, lc>>,
               NEW o1, o1 = Nothing \/ o1 = FloodAll(KillLine(old)), old \in gone /\ Remote(s, old) => o1 # Nothing,
               chan' = SentOnRead(s, p, Then(o1, Flood(p, m)))
        PROVE  CInv'
    <2> DEFINE type == "NICK"
    <2>1. type \in {"UID", "NICK"} /\ Reading(s, p, type) /\ (type = "UID" <=> u \notin byUid[s])
      BY <1>0, <1>6
    <2> HIDE DEF type
    <2> QED
      BY <1>0, <1>6, <2>1, ForwardStep
  <1>8. ASSUME u \in byUid[s], Clash = {}, Settle(s, {}, {u}, m.nick, m.ts), chan' = SentOnRead(s, p, forward),
               UNCHANGED <<servers, lc, faults, moves>>
        PROVE  CInv'
    <2>1. Then(Nothing, Flood(p, m)) = forward
      BY <1>1, <1>4, OutTypes, ThenNothing
    <2>2. {} \in SUBSET users[s] /\ {} \subseteq {u} /\ u \notin {}
      OBVIOUS
    <2> HIDE DEF m, u, forward
    <2> QED
      BY <1>1, <1>6, <1>8, <2>1, <2>2
  <1>9. ASSUME u \in byUid[s], NEW old \in Clash, Settle(s, {old}, {u}, m.nick, m.ts),
               chan' = SentOnRead(s, p, Then(KillOf(s, old), forward)), UNCHANGED <<servers, lc, faults, moves>>
        PROVE  CInv'
    <2>1. old \in User /\ {old} \in SUBSET users[s] /\ {old} \subseteq {old}
      BY <1>5
    <2>2. /\ KillOf(s, old) = Nothing \/ KillOf(s, old) = FloodAll(KillLine(old))
          /\ Remote(s, old) => KillOf(s, old) # Nothing
      BY KillOfForm
    <2>3. forward = Flood(p, m)
      BY <1>4
    <2> HIDE DEF m, u, forward, Clash
    <2> QED
      BY <1>6, <1>9, <2>1, <2>2, <2>3
  <1>10. ASSUME u \in users[s], Settle(s, {u}, {}, NoNick, 0),
                chan' = SentOnRead(s, p, FloodAll(KillLine(u))), UNCHANGED <<servers, lc, faults, moves>>
         PROVE  CInv'
    <2> DEFINE type == "NICK"
               o == FloodAll(KillLine(u))
    <2>1. Then(o, Nothing) = o
      <3>1. KillLine(u) \in Msg
        BY <1>1 DEF KillLine, Msg
      <3>2. o \in [Server -> Seq(Msg)]
        BY <1>1, <3>1, OutTypes
      <3> HIDE DEF o
      <3> QED
        BY <3>2, ThenNothing
    <2>2. /\ type \in {"UID", "NICK"} /\ Reading(s, p, type)
          /\ {u} \in SUBSET users[s] /\ {u} \subseteq {u, u} /\ u \in {u} /\ u \notin {u} \ {u}
      BY <1>0, <1>10
    <2>3. chan' = SentOnRead(s, p, Then(o, Nothing)) /\ o = FloodAll(KillLine(u))
      BY <1>10, <2>1
    <2> HIDE DEF type, o
    <2> QED
      BY <1>0, <1>1, <1>10, <2>2, <2>3, RefuseStep
  <1> QED
    BY <1>2, <1>g, <1>3, <1>8, <1>9, <1>10 DEF HandleNick

\* m for everyone but p.
Flooded(s, p, m, o) ==
    /\ \A q \in Server : q # p => o[q] = <<m>> /\ \A u, e : Hears(q, u, e, o[q]) = After(q, u, e, m)
    /\ o[p] = << >>
    /\ \A q \in Server : (q # p => About(q, s, m)) => Fits(q, s, o[q])
    /\ \A q \in Server : \A i \in 1..Len(o[q]) : o[q][i] = m
\* A single line that everyone but p is told.
LEMMA FloodForm ==
    ASSUME NEW s, NEW p \in Server, NEW m
    PROVE  Flooded(s, p, m, Flood(p, m))
  <1>1. ASSUME NEW q \in Server, q # p
        PROVE  /\ Flood(p, m)[q] = <<m>> /\ \A u, e : Hears(q, u, e, Flood(p, m)[q]) = After(q, u, e, m)
               /\ About(q, s, m) => Fits(q, s, Flood(p, m)[q])
               /\ \A i \in 1..Len(Flood(p, m)[q]) : Flood(p, m)[q][i] = m
    <2> DEFINE o == Flood(p, m)[q]
    <2>1. o = <<m>>
      BY <1>1, OutForm
    <2>2. o # << >> /\ Len(o) = 1 /\ o[1] = m
      BY <2>1, SingleLine
    <2> HIDE DEF o
    <2>3. \A u, e : Hears(q, u, e, o) = After(q, u, e, m)
      BY <2>2 DEF Hears
    <2>4. \A i \in 1..Len(o) : o[i] = m
      BY <2>2
    <2> QED
      BY <2>1, <2>2, <2>3, <2>4 DEF o, Fits
  <1>2. Flood(p, m)[p] = << >>
    BY OutForm
  <1> QED
    BY <1>1, <1>2 DEF Fits, Flooded

\* handle_quit: a server that had the user passes its QUIT on, any other one has nothing to pass on.
LEMMA HandleQuitTrails ==
    ASSUME CInv, NEW s \in Server, NEW p \in Server, HandleQuit(s, p)
    PROVE  CInv'
  <1> DEFINE m == Head(chan[<<p, s>>])
             u == m.user
             out == Flood(p, m)
  <1>0. IInv /\ IInv' /\ TypeOK /\ Support /\ QuitGone /\ Reading(s, p, "QUIT")
    BY HandleQuitKeeps DEF CInv, IInv, HandleQuit
  <1>1. /\ m \in Msg /\ m.type = "QUIT" /\ u \in User /\ p \in Neighbours(s) /\ p # s
        /\ Remote(s, u) /\ Home[u] # s /\ Up(s, u) = p /\ IsBehind(s, Home[u], p)
        /\ \A q \in Neighbours(s) : q # p => About(q, s, m)
        /\ \A q \in Neighbours(s) : q # Home[u] /\ Up(q, u) = s => q # p
        /\ ~Splits(s, u, m) /\ ~IsKill(m, u)
        /\ m.type \in {"UID", "NICK", "QUIT", "KILL"}
    BY <1>0, UserLine
  <1>2. ~SrcUser(s, p, u) => u \notin byUid[s]
    BY <1>1 DEF SrcUser
  <1>g. SrcUser(s, p, u) => u \in byUid[s] /\ u \in users[s]
    BY <1>0, <1>1 DEF SrcUser, IInv, RemoteAnchored
  <1>a. \A q, e : After(q, u, e, m) = << >>
    BY <1>1 DEF After, Wipes
  <1>3. ASSUME u \notin byUid[s], Ignore(s, p)
        PROVE  CInv'
    <2>1. \A v \in User : After(s, v, Copy(s, v), m) = Copy(s, v) /\ ~Splits(s, v, m) /\ ~IsKill(m, v)
      <3>1. Copy(s, u) = << >>
        BY <1>0, <1>1, <1>3, CopyType
      <3> QED
        BY <1>1, <1>a, <3>1 DEF After, Wipes, Splits, IsKill
    <2>2. ServersAfter(s, Via(s, p), m) = Via(s, p)
      BY <1>1 DEF ServersAfter
    <2> HIDE DEF m
    <2> QED
      BY <1>0, <1>3, <2>1, <2>2, IgnoreStep DEF m
  <1>4. ASSUME NEW w \in User, w = u, w \in byUid[s], w \in users[s], Settle(s, {w}, {}, NoNick, 0), chan' = SentOnRead(s, p, Flood(p, QuitLine(w))),
               UNCHANGED <<servers, lc, faults, moves>>
        PROVE  CInv'
    <2>0. /\ m.type = "QUIT" /\ m.user = w /\ m \in Msg /\ p \in Neighbours(s) /\ p # s
          /\ Remote(s, w) /\ Home[w] # s /\ Up(s, w) = p
          /\ \A q \in Neighbours(s) : q # p => About(q, s, m)
          /\ \A q \in Neighbours(s) : q # Home[w] /\ Up(q, w) = s => q # p
          /\ ~Splits(s, w, m) /\ ~IsKill(m, w)
          /\ m.type \in {"UID", "NICK", "QUIT", "KILL"}
          /\ \A q, e : After(q, w, e, m) = << >>
      BY <1>1, <1>a, <1>4
    <2>1. Flood(p, QuitLine(w)) = out
      BY <2>0, SameLine
    <2>2. Settled(s, {w}, {}, NoNick, 0)
      <3>1. {w} \in SUBSET User /\ {} \in SUBSET User
        BY <2>0
      <3> HIDE DEF u, m
      <3> QED
        BY <1>0, <1>4, <3>1, SettleTables
    <2>3. alive[w] = "gone"
      <3>1. 1 \in 1..Len(chan[<<p, s>>]) /\ chan[<<p, s>>][1] = m /\ <<p, s>> \in Link
        BY <1>0, LineFacts DEF Reading
      <3> QED
        BY <1>0, <2>0, <3>1 DEF QuitGone
    <2>4. alive'[w] = "gone" /\ Ending(w)'
      BY <2>0, <2>2, <2>3 DEF Settled, Ending
    <2>5. Brief(out)
      <3> HIDE DEF m
      <3> QED
        BY <2>0, <2>4, BriefOut
    <2>6. w \notin byUid'[s] /\ Copy(s, w)' = << >>
      BY <2>0, <2>2 DEF Settled, Copy
    <2> HIDE DEF m
    <2>7. /\ \A q \in Server : q # p => \A v, e : Hears(q, v, e, out[q]) = After(q, v, e, m)
          /\ \A q \in Server : (q # p => About(q, s, m)) => Fits(q, s, out[q])
          /\ \A q \in Server : \A i \in 1..Len(out[q]) : out[q][i] = m
      <3>1. Flooded(s, p, m, out)
        BY FloodForm DEF out
      <3> HIDE DEF out
      <3> QED
        BY <3>1 DEF Flooded
    <2> HIDE DEF out
    <2>8. UserOk(s, out, p, w)
      <3>1. Due(s, p, w) = << >>
        BY <2>0 DEF Due, m
      <3>2. \A q \in Neighbours(s) : q # Home[w] /\ Up(q, w) = s => Hears(q, w, Copy(s, w), out[q]) = << >>
        <4> SUFFICES ASSUME NEW q \in Neighbours(s), q # Home[w], Up(q, w) = s
                     PROVE  Hears(q, w, Copy(s, w), out[q]) = << >>
          OBVIOUS
        <4>1. q \in Server /\ q # p
          BY <2>0, Edge
        <4>2. Hears(q, w, Copy(s, w), out[q]) = After(q, w, Copy(s, w), m)
          BY <2>7, <4>1
        <4> QED
          BY <2>0, <4>2
      <3> QED
        BY <2>0, <2>4, <2>6, <3>1, <3>2 DEF UserOk, m
    <2>9. ServersOk(s, out, p)
      <3>1. \A q \in Neighbours(s) : Fits(q, s, out[q])
        BY <2>0, <2>7, Edge
      <3> QED
        BY <1>0, <2>0, <1>4, <3>1, ServersKept DEF Fits, m
    <2>10. \A v \in User \ {w} : \A q \in Server : \A i \in 1..Len(out[q]) : Plain(out[q][i], v)
      BY <2>0, <2>7 DEF Plain
    <2>11. chan' = SentOnRead(s, p, out)
      BY <1>4, <2>1
    <2> DEFINE type == "QUIT"
               gone == {w}
               new == {}
    <2>12. /\ type \in {"UID", "NICK", "QUIT"} /\ Reading(s, p, type)
           /\ gone \in SUBSET users[s] /\ new \subseteq {w} /\ gone \ {w} = {}
           /\ Settle(s, gone, new, NoNick, 0)
      BY <1>0, <1>4
    <2> HIDE DEF type, gone, new
    <2> QED
      BY <1>0, <1>4, <2>5, <2>8, <2>9, <2>10, <2>11, <2>12, SettleRead DEF m
  <1> QED
    BY <1>1, <1>2, <1>g, <1>3, <1>4 DEF HandleQuit

(***************************************************************************)
(* Steps that drop nobody: kills, and what is not announced.               *)
(***************************************************************************)
\* At most a KILL for each neighbour.
Calm(out) == \A q \in Server : out[q] = << >> \/ \E k \in User : out[q] = <<KillLine(k)>>

\* A KILL says nothing of a table.
LEMMA CalmForm ==
    ASSUME NEW out, Calm(out), NEW s, NEW q \in Server
    PROVE  Fits(q, s, out[q]) /\ \A u \in User : \A e : Hears(q, u, e, out[q]) = e
  <1>1. CASE out[q] = << >>
    BY <1>1, HearsForm DEF Fits
  <1>2. ASSUME NEW k \in User, out[q] = <<KillLine(k)>>
        PROVE  Fits(q, s, out[q]) /\ \A u \in User : \A e : Hears(q, u, e, out[q]) = e
    <2> DEFINE m == KillLine(k)
    <2>1. m.type = "KILL"
      BY DEF KillLine
    <2>2. out[q] # << >> /\ Len(out[q]) = 1 /\ out[q][1] = m
      BY <1>2, SingleLine
    <2> HIDE DEF m
    <2>3. \A u \in User : \A e : After(q, u, e, m) = e
      BY <2>1, AfterPlain DEF Plain
    <2> QED
      BY <2>1, <2>2, <2>3 DEF Fits, About, Hears
  <1> QED
    BY <1>1, <1>2 DEF Calm

\* A step that changes no entry and says nothing but KILLs.
LEMMA StillStep ==
    ASSUME CInv, IInv', NEW s \in Server, NEW out, NEW r, OneStep(s, out, r), Calm(out),
           byUid'[s] = byUid[s], \A u \in User : Copy(s, u)' = Copy(s, u), servers'[s] = servers[s],
           r # s => /\ Head(chan[<<r, s>>]).type = "KILL"
                    /\ \A u \in User : IsKill(Head(chan[<<r, s>>]), u) /\ u \in byUid[s] =>
                           Ending(u)' \/ Hit(s, out, r, u)
    PROVE  CInv'
  <1>0. TypeOK
    BY DEF CInv, IInv
  <1>1. ServersOk(s, out, r)
    <2>1. \A q \in Neighbours(s) : Fits(q, s, out[q])
      BY CalmForm, Edge
    <2>2. r # s => Head(chan[<<r, s>>]).type \in {"UID", "NICK", "QUIT", "KILL"}
      OBVIOUS
    <2> QED
      BY <1>0, <2>1, <2>2, ServersKept DEF Fits
  <1>2. ASSUME NEW u \in User
        PROVE  UserOk(s, out, r, u)
    <2>1. ASSUME NEW q \in Neighbours(s)
          PROVE  Hears(q, u, Copy(s, u), out[q]) = Copy(s, u)
      <3>1. q \in Server
        BY Edge
      <3>2. \A v \in User : \A e : Hears(q, v, e, out[q]) = e
        BY <3>1, CalmForm
      <3> QED
        BY <3>2
    <2> DEFINE m == Head(chan[<<r, s>>])
    <2>2. r # s => /\ After(s, u, Copy(s, u), m) = Copy(s, u)
                   /\ ~Splits(s, u, m)
                   /\ IsKill(m, u) /\ u \in byUid[s] => Ending(u)' \/ Hit(s, out, r, u)
      BY AfterPlain DEF Plain
    <2> HIDE DEF m
    <2> QED
      BY <2>1, <2>2, AsideOk DEF m
  <1> QED
    BY <1>1, <1>2, LocalStep

\* The KILL of a user towards its server.
LEMMA CalmOut ==
    ASSUME NEW u \in User, NEW p \in Server
    PROVE  Calm(Nothing) /\ Brief(Nothing) /\ Calm(RouteTo(p, KillLine(u))) /\ Brief(RouteTo(p, KillLine(u)))
           /\ \E i \in 1..Len(RouteTo(p, KillLine(u))[p]) : IsKill(RouteTo(p, KillLine(u))[p][i], u)
  <1> DEFINE m == KillLine(u)
             o == RouteTo(p, m)
  <1>1. m \in Msg /\ m.type = "KILL" /\ IsKill(m, u)
    BY LineTypes DEF KillLine, Msg, IsKill
  <1>2. \A q \in Server : Nothing[q] = << >> /\ (o[q] = << >> \/ o[q] = <<KillLine(u)>>)
    BY OutForm
  <1>3. Calm(Nothing) /\ Calm(o)
    BY <1>2 DEF Calm
  <1>4. o[p] = <<m>>
    BY OutForm
  <1>5. 1 \in 1..Len(o[p]) /\ o[p][1] = m
    BY <1>4, SingleLine
  <1> HIDE DEF m
  <1>6. Brief(Nothing) /\ Brief(o)
    BY <1>1, BriefOut
  <1> HIDE DEF o
  <1> QED
    BY <1>1, <1>3, <1>5, <1>6 DEF o, m

\* cmd_kill: the KILL of a remote user goes towards its server, and here the user stays.
LEMMA OperKillTrails ==
    ASSUME CInv, NEW s \in Server, NEW u \in User, OperKill(s, u)
    PROVE  CInv'
  <1> DEFINE out == RouteTo(Route[s][Home[u]], KillLine(u))
  <1>0. TypeOK /\ IInv
    BY DEF CInv, IInv
  <1>1. UNCHANGED <<alive, users, byUid, nick, nickTs, servers, lc, faults>> /\ chan' = Sent(s, out) /\ s # Home[u]
        /\ moves < MaxMoves /\ moves' = moves + 1
    BY DEF OperKill, Remote
  <1>2. Route[s][Home[u]] \in Server
    BY <1>1, UpNext DEF Up
  <1>3. Calm(out) /\ Brief(out)
    BY <1>2, CalmOut
  <1> HIDE DEF out
  <1>4. IInv'
    <2>1. chan' \in [Link -> Seq(Msg)]
      BY <1>0, <1>1, <1>3, SentType DEF Brief
    <2>2. moves' \in 0..MaxMoves
      BY <1>0, <1>1, BoundType DEF TypeOK
    <2> QED
      BY <1>0, <1>1, <2>1, <2>2, ChanKeeps
  <1>5. Own(s)
    BY <1>1 DEF Own, Ending
  <1>6. OneStep(s, out, s)
    BY <1>0, <1>1, <1>3, <1>5, SendStep
  <1>7. byUid'[s] = byUid[s] /\ servers'[s] = servers[s] /\ \A v \in User : Copy(s, v)' = Copy(s, v)
    BY <1>1 DEF Copy
  <1> QED
    BY <1>3, <1>4, <1>6, <1>7, StillStep

\* A step that sends nothing.
LEMMA SilentStep ==
    ASSUME CInv, IInv', NEW s \in Server, Own(s), chan' = chan,
           byUid'[s] = byUid[s], \A u \in User : Copy(s, u)' = Copy(s, u), servers'[s] = servers[s]
    PROVE  CInv'
  <1>0. TypeOK
    BY DEF CInv, IInv
  <1>1. chan' = Sent(s, Nothing)
    BY <1>0, SentNothing
  <1>2. Calm(Nothing) /\ Brief(Nothing)
    BY DEF Calm, Brief, Nothing, Leaving
  <1>3. OneStep(s, Nothing, s)
    BY <1>0, <1>1, <1>2, SendStep
  <1> QED
    BY <1>2, <1>3, StillStep

\* client_mark_quit: nobody is told yet.
LEMMA MarkQuitTrails ==
    ASSUME CInv, IInv', NEW u \in User, MarkQuit(u)
    PROVE  CInv'
  <1>1. Home[u] \in Server /\ TypeOK
    BY HomeType DEF CInv, IInv
  <1>2. alive[u] = "open" /\ alive' = [alive EXCEPT ![u] = "quitting"]
        /\ UNCHANGED <<users, byUid, nick, nickTs, servers, lc, chan, faults, moves>>
    BY DEF MarkQuit
  <1>3. Own(Home[u])
    BY <1>1, <1>2 DEF Own, Ending, TypeOK
  <1>4. \A v \in User : Copy(Home[u], v)' = Copy(Home[u], v)
    BY <1>2 DEF Copy
  <1> QED
    BY <1>1, <1>2, <1>3, <1>4, SilentStep

\* cmd_nick before registration: nobody else knows of it.
LEMMA NickUnregisteredTrails ==
    ASSUME CInv, IInv', NEW u \in User, NEW n \in Nick, NickUnregistered(u, n)
    PROVE  CInv'
  <1> DEFINE s == Home[u]
  <1>1. s \in Server /\ TypeOK
    BY HomeType DEF CInv, IInv
  <1>2. /\ alive[u] \in {"new", "open"} /\ u \notin byUid[s] /\ alive' = [alive EXCEPT ![u] = "open"]
        /\ nick' = [nick EXCEPT ![s][u] = n]
        /\ UNCHANGED <<byUid, nickTs, servers, lc, chan, faults, moves>>
    BY DEF NickUnregistered, Registered
  <1>3. Own(s)
    BY <1>1, <1>2 DEF Own, Ending, TypeOK
  <1>4. \A v \in User : Copy(s, v)' = Copy(s, v)
    BY <1>1, <1>2 DEF Copy, TypeOK
  <1> QED
    BY <1>1, <1>2, <1>3, <1>4, SilentStep

\* link_close and an end of file: the link counts as gone, so nothing is owed over it.
LEMMA ClosingTrails ==
    ASSUME CInv, IInv', NEW s \in Server, NEW p \in Server, lc[s][p] = "up", lc' = [lc EXCEPT ![s][p] = "closing"],
           UNCHANGED <<alive, users, byUid, nick, nickTs, servers, chan>>
    PROVE  CInv'
  <1>1. TypeOK
    BY DEF CInv, IInv
  <1>2. Own(s)
    BY <1>1 DEF Own, Ending, TypeOK
  <1>3. \A v \in User : Copy(s, v)' = Copy(s, v)
    BY DEF Copy
  <1> QED
    BY <1>1, <1>2, <1>3, SilentStep

\* handle_kill: a local user is to leave; the KILL of another one goes on to its server, and the
\* server that passes it on keeps the user until the QUIT comes back.
LEMMA HandleKillTrails ==
    ASSUME CInv, NEW s \in Server, NEW p \in Server, HandleKill(s, p)
    PROVE  CInv'
  <1> DEFINE m == Head(chan[<<p, s>>])
  <1>0. IInv /\ IInv' /\ TypeOK /\ Support /\ Reading(s, p, "KILL")
    BY HandleKillKeeps DEF CInv, IInv, HandleKill
  <1>1. /\ m \in Msg /\ m.type = "KILL" /\ p # s /\ lc[s][p] # "down" /\ m.user \in User
    BY <1>0, Heard, MsgFields
  <1>2. PICK w \in User : w = m.user
    BY <1>1
  <1>3. CASE w \notin byUid[s] /\ Ignore(s, p)
    <2>1. \A v \in User : After(s, v, Copy(s, v), m) = Copy(s, v) /\ ~Splits(s, v, m) /\ ~(IsKill(m, v) /\ v \in byUid[s])
      BY <1>1, <1>2, <1>3 DEF After, Wipes, Splits, IsKill
    <2>2. ServersAfter(s, Via(s, p), m) = Via(s, p)
      BY <1>1 DEF ServersAfter
    <2> HIDE DEF m
    <2> QED
      BY <1>0, <1>3, <2>1, <2>2, IgnoreStep DEF m
  <1>4. CASE /\ w \in byUid[s] /\ ~Remote(s, w)
             /\ alive' = [alive EXCEPT ![w] = "quitting"]
             /\ chan' = SentOnRead(s, p, Nothing)
             /\ UNCHANGED <<users, byUid, nick, nickTs, servers, lc, faults, moves>>
    <2>1. alive[w] \in {"open", "quitting"} /\ alive' = [alive EXCEPT ![w] = "quitting"]
      BY <1>0, <1>4 DEF Support
    <2>2. Own(s) /\ Ending(w)'
      BY <1>0, <1>4, <2>1 DEF Own, Ending, TypeOK
    <2>3. Calm(Nothing) /\ Brief(Nothing)
      BY DEF Calm, Brief, Nothing, Leaving
    <2>4. OneStep(s, Nothing, p)
      BY <1>0, <1>1, <1>4, <2>2, <2>3, ReadStep
    <2>5. \A v \in User : Copy(s, v)' = Copy(s, v) /\ (IsKill(m, v) => v = w)
      BY <1>2, <1>4 DEF Copy, IsKill
    <2> QED
      BY <1>0, <1>1, <1>4, <2>2, <2>3, <2>4, <2>5, StillStep
  <1>5. CASE /\ w \in byUid[s] /\ Remote(s, w)
             /\ chan' = SentOnRead(s, p, RouteTo(Route[s][Home[w]], KillLine(w)))
             /\ UNCHANGED <<alive, users, byUid, nick, nickTs, servers, lc, faults, moves>>
    <2> DEFINE out == RouteTo(Up(s, w), KillLine(w))
    <2>0. s # Home[w] /\ Up(s, w) \in Server
      BY <1>5, UpNext DEF Remote
    <2>1. Own(s)
      BY <1>5 DEF Own, Ending
    <2>2. Calm(out) /\ Brief(out) /\ \E i \in 1..Len(out[Up(s, w)]) : IsKill(out[Up(s, w)][i], w)
      BY <2>0, CalmOut
    <2>3. chan' = SentOnRead(s, p, out)
      BY <1>5 DEF Up
    <2> HIDE DEF out
    <2>4. OneStep(s, out, p)
      BY <1>0, <1>1, <1>5, <2>1, <2>2, <2>3, ReadStep
    <2>5. \A v \in User : Copy(s, v)' = Copy(s, v) /\ (IsKill(m, v) => v = w)
      BY <1>2, <1>5 DEF Copy, IsKill
    <2>6. Hit(s, out, p, w)
      BY <1>1, <2>0, <2>2 DEF Hit
    <2> QED
      BY <1>0, <1>1, <1>5, <2>2, <2>4, <2>5, <2>6, StillStep
  <1> QED
    BY <1>2, <1>3, <1>4, <1>5 DEF HandleKill

(***************************************************************************)
(* Local users.                                                            *)
(***************************************************************************)
\* A line everyone is told.
LEMMA LoudForm ==
    ASSUME NEW s, NEW m
    PROVE  /\ \A q \in Server : FloodAll(m)[q] = <<m>> /\ \A u, e : Hears(q, u, e, FloodAll(m)[q]) = After(q, u, e, m)
           /\ \A q \in Server : About(q, s, m) => Fits(q, s, FloodAll(m)[q])
  <1>1. ASSUME NEW q \in Server
        PROVE  /\ FloodAll(m)[q] = <<m>> /\ \A u, e : Hears(q, u, e, FloodAll(m)[q]) = After(q, u, e, m)
               /\ About(q, s, m) => Fits(q, s, FloodAll(m)[q])
    <2> DEFINE o == FloodAll(m)[q]
    <2>1. o = <<m>>
      BY DEF FloodAll
    <2>2. o # << >> /\ Len(o) = 1 /\ o[1] = m
      BY <2>1, SingleLine
    <2> HIDE DEF o
    <2>3. \A u, e : Hears(q, u, e, o) = After(q, u, e, m)
      BY <2>2 DEF Hears
    <2> QED
      BY <2>1, <2>2, <2>3 DEF o, Fits
  <1> QED
    BY <1>1

\* All neighbours at once.
LEMMA EdgeOn ==
    ASSUME NEW s \in Server
    PROVE  \A q \in Neighbours(s) : q \in Server /\ q # s /\ Route[q][s] = s
  BY Edge

\* A server announces a user of its own.
LEMMA AnnounceStep ==
    ASSUME CInv, IInv', NEW u \in User, NEW s \in Server, s = Home[u], Own(s), NEW m \in Msg, m.user = u,
           m.type \in {"UID", "NICK", "QUIT"}, m.type = "QUIT" => alive'[u] = "gone",
           m.type = "UID" => u \notin byUid[s], m.type # "UID" => u \in byUid[s],
           m.type # "QUIT" => u \in byUid'[s] /\ Copy(s, u)' = <<m.nick, m.ts>>,
           m.type = "QUIT" => u \notin byUid'[s],
           \A v \in User \ {u} : Copy(s, v)' = Copy(s, v) /\ (v \in byUid'[s] <=> v \in byUid[s]),
           servers'[s] = servers[s], chan' = Sent(s, FloodAll(m))
    PROVE  CInv'
  <1> DEFINE out == FloodAll(m)
  <1>0. TypeOK /\ Support
    BY DEF CInv, IInv
  <1>1. Brief(out)
    BY BriefOut
  <1>2. OneStep(s, out, s)
    BY <1>0, <1>1, SendStep
  <1>3. \A q \in Server : out[q] = <<m>>
    BY LoudForm
  <1>4. ASSUME NEW q \in Neighbours(s)
        PROVE  /\ out[q] = <<m>> /\ About(q, s, m) /\ Fits(q, s, out[q])
               /\ \A v, e : Hears(q, v, e, out[q]) = After(q, v, e, m)
    <2>1. q \in Server /\ q # s /\ Route[q][s] = s
      BY <1>4, EdgeOn
    <2>2. s \in servers[s]
      BY <1>0 DEF Support
    <2>3. About(q, s, m)
      BY <2>1, <2>2 DEF About, Beyond
    <2>4. Fits(q, s, out[q])
      BY <2>1, <2>3, LoudForm
    <2>5. \A v, e : Hears(q, v, e, out[q]) = After(q, v, e, m)
      BY <2>1, LoudForm
    <2> QED
      BY <1>3, <2>1, <2>3, <2>4, <2>5
  <1> HIDE DEF out
  <1>5. ServersOk(s, out, s)
    BY <1>0, <1>4, ServersKept DEF Fits
  <1>6. ASSUME NEW v \in User, v # u
        PROVE  UserOk(s, out, s, v)
    <2>1. \A q \in Neighbours(s) : Hears(q, v, Copy(s, v), out[q]) = Copy(s, v)
      <3> SUFFICES ASSUME NEW q \in Neighbours(s)
                   PROVE  Hears(q, v, Copy(s, v), out[q]) = Copy(s, v)
        OBVIOUS
      <3>1. Hears(q, v, Copy(s, v), out[q]) = After(q, v, Copy(s, v), m)
        BY <1>4
      <3>2. Plain(m, v)
        BY <1>6 DEF Plain
      <3> QED
        BY <3>1, <3>2, AfterPlain
    <2> QED
      BY <1>6, <2>1, AsideOk
  <1>7. UserOk(s, out, s, u)
    <2>1. m.type = "QUIT" => Copy(s, u)' = << >> /\ Ending(u)'
      BY DEF Copy, Ending
    <2>2. ASSUME NEW q \in Neighbours(s)
          PROVE  /\ Hears(q, u, Copy(s, u), out[q]) = Copy(s, u)'
                 /\ m.type = "QUIT" => out[q] = <<m>> /\ Wipes(q, u, m)
      <3>1. Copy(s, u) = << >> <=> u \notin byUid[s]
        BY <1>0, CopyType
      <3>2. Hears(q, u, Copy(s, u), out[q]) = After(q, u, Copy(s, u), m)
        BY <1>4
      <3>3. After(q, u, Copy(s, u), m) = Copy(s, u)'
        BY <2>1, <3>1 DEF After, Wipes
      <3> QED
        BY <1>4, <3>2, <3>3 DEF Wipes
    <2>3. u \notin byUid'[s] => m.type = "QUIT"
      OBVIOUS
    <2> QED
      BY <2>1, <2>2, <2>3 DEF UserOk
  <1> QED
    BY <1>2, <1>5, <1>6, <1>7, LocalStep

\* cmd_send_welcome_if_ready: a new user is announced to everyone.
LEMMA RegisterTrails ==
    ASSUME CInv, IInv', NEW u \in User, NEW t \in Time, Register(u, t)
    PROVE  CInv'
  <1> DEFINE s == Home[u]
  <1>0. s \in Server /\ TypeOK /\ TypeOK' /\ Support' /\ u \in users[s] /\ nick[s][u] \in Nick
    BY HomeType DEF CInv, IInv, Register, Support
  <1>1. PICK stamp : /\ stamp = IF nickTs[s][u] = 0 THEN t ELSE nickTs[s][u]
                     /\ byUid' = [byUid EXCEPT ![s] = @ \cup {u}] /\ nickTs' = [nickTs EXCEPT ![s][u] = stamp]
                     /\ chan' = Sent(s, FloodAll(UidLine(u, nick[s][u], stamp))) /\ u \notin byUid[s]
                     /\ UNCHANGED <<alive, users, nick, servers, lc, faults, moves>>
    BY DEF Register, Registered
  <1>2. stamp \in Time
    BY <1>0, <1>1, BoundType DEF TypeOK, Time
  <1>3. PICK n \in Nick : n = nick[s][u]
    BY <1>0
  <1> DEFINE m == UidLine(u, n, stamp)
  <1>4. m \in Msg /\ m.type = "UID" /\ m.user = u /\ m.nick = n /\ m.ts = stamp
    BY <1>0, <1>2, LineTypes DEF UidLine
  <1>5. Own(s)
    BY <1>0, <1>1 DEF Own, Ending, TypeOK
  <1>6. u \in byUid'[s] /\ nick'[s][u] = n /\ nickTs'[s][u] = stamp
    BY <1>0, <1>1, <1>3 DEF TypeOK
  <1>7. \A v \in User \ {u} : Copy(s, v)' = Copy(s, v) /\ (v \in byUid'[s] <=> v \in byUid[s])
    <2>1. \A v \in User \ {u} : nickTs'[s][v] = nickTs[s][v] /\ (v \in byUid'[s] <=> v \in byUid[s])
      BY <1>0, <1>1 DEF TypeOK
    <2> QED
      BY <1>1, <2>1 DEF Copy
  <1>8. Copy(s, u)' = <<m.nick, m.ts>>
    BY <1>4, <1>6 DEF Copy
  <1>9. chan' = Sent(s, FloodAll(m)) /\ servers'[s] = servers[s]
    BY <1>1, <1>3
  <1> HIDE DEF m
  <1> QED
    BY <1>0, <1>1, <1>4, <1>5, <1>6, <1>7, <1>8, <1>9, AnnounceStep

\* A service bot comes up under its nick and is announced to everyone.
LEMMA ServiceNickTrails ==
    ASSUME CInv, IInv', NEW u \in User, NEW n \in Nick, NEW t \in Time, ServiceNick(u, n, t)
    PROVE  CInv'
  <1> DEFINE s == Home[u]
             m == UidLine(u, n, t)
  <1>0. s \in Server /\ TypeOK /\ Support
    BY HomeType DEF CInv, IInv
  <1>1. /\ alive[u] = "new" /\ alive' = [alive EXCEPT ![u] = "open"]
        /\ byUid' = [byUid EXCEPT ![s] = @ \cup {u}]
        /\ nick' = [nick EXCEPT ![s][u] = n]
        /\ nickTs' = [nickTs EXCEPT ![s][u] = t]
        /\ chan' = Sent(s, FloodAll(m))
        /\ UNCHANGED <<servers, lc, faults, moves>>
    BY DEF ServiceNick
  <1>2. u \notin byUid[s]
    BY <1>0, <1>1 DEF Support, Remote
  <1>4. m \in Msg /\ m.type = "UID" /\ m.user = u /\ m.nick = n /\ m.ts = t
    BY <1>0, LineTypes DEF UidLine
  <1> HIDE DEF m
  <1>5. Own(s)
    BY <1>0, <1>1 DEF Own, Ending, TypeOK
  <1>6. u \in byUid'[s] /\ nick'[s][u] = n /\ nickTs'[s][u] = t
    BY <1>0, <1>1 DEF TypeOK
  <1>7. \A v \in User \ {u} : Copy(s, v)' = Copy(s, v) /\ (v \in byUid'[s] <=> v \in byUid[s])
    BY <1>0, <1>1 DEF Copy, TypeOK
  <1>8. Copy(s, u)' = <<m.nick, m.ts>>
    BY <1>4, <1>6 DEF Copy
  <1> QED
    BY <1>0, <1>1, <1>2, <1>4, <1>5, <1>6, <1>7, <1>8, AnnounceStep

\* cmd_nick and force_nick_change: a registered user's new nick is announced to everyone.
LEMMA RenameTrails ==
    ASSUME CInv, IInv', NEW u \in User, NEW n \in Nick, NEW t \in Time, Rename(u, n, t), UNCHANGED alive
    PROVE  CInv'
  <1> DEFINE s == Home[u]
             m == NickLine(u, n, t)
  <1>0. s \in Server /\ TypeOK
    BY HomeType DEF CInv, IInv
  <1>1. /\ u \in byUid[s]
        /\ nick' = [nick EXCEPT ![s][u] = n]
        /\ nickTs' = [nickTs EXCEPT ![s][u] = t]
        /\ chan' = Sent(s, FloodAll(m))
        /\ UNCHANGED <<alive, byUid, servers, lc, faults>>
    BY DEF Rename, Registered
  <1>4. m \in Msg /\ m.type = "NICK" /\ m.user = u /\ m.nick = n /\ m.ts = t
    BY <1>0, LineTypes DEF NickLine
  <1> HIDE DEF m
  <1>5. Own(s)
    BY <1>0, <1>1 DEF Own, Ending, TypeOK
  <1>6. u \in byUid'[s] /\ nick'[s][u] = n /\ nickTs'[s][u] = t
    BY <1>0, <1>1 DEF TypeOK
  <1>7. \A v \in User \ {u} : Copy(s, v)' = Copy(s, v) /\ (v \in byUid'[s] <=> v \in byUid[s])
    BY <1>0, <1>1 DEF Copy, TypeOK
  <1>8. Copy(s, u)' = <<m.nick, m.ts>>
    BY <1>4, <1>6 DEF Copy
  <1> QED
    BY <1>0, <1>1, <1>4, <1>5, <1>6, <1>7, <1>8, AnnounceStep

\* server_remove_client: a local user goes, and everyone is told.
LEMMA RemoveLocalTrails ==
    ASSUME CInv, IInv', NEW u \in User, RemoveLocal(u)
    PROVE  CInv'
  <1> DEFINE s == Home[u]
             m == QuitLine(u)
  <1>0. s \in Server /\ TypeOK
    BY HomeType DEF CInv, IInv
  <1>1. /\ alive' = [alive EXCEPT ![u] = "gone"]
        /\ byUid' = [byUid EXCEPT ![s] = @ \ {u}]
        /\ nick' = [nick EXCEPT ![s][u] = NoNick]
        /\ nickTs' = [nickTs EXCEPT ![s][u] = 0]
        /\ chan' = IF u \in byUid[s] THEN Sent(s, FloodAll(m)) ELSE chan
        /\ UNCHANGED <<servers, lc, faults, moves>>
    BY DEF RemoveLocal, Registered
  <1>4. m \in Msg /\ m.type = "QUIT" /\ m.user = u
    BY <1>0 DEF QuitLine, Msg
  <1> HIDE DEF m
  <1>5. Own(s)
    BY <1>0, <1>1 DEF Own, Ending, TypeOK
  <1>6. u \notin byUid'[s] /\ alive'[u] = "gone"
    BY <1>0, <1>1 DEF TypeOK
  <1>7. \A v \in User \ {u} : Copy(s, v)' = Copy(s, v) /\ (v \in byUid'[s] <=> v \in byUid[s])
    BY <1>0, <1>1 DEF Copy, TypeOK
  <1>8. CASE u \in byUid[s]
    BY <1>0, <1>1, <1>4, <1>5, <1>6, <1>7, <1>8, AnnounceStep
  <1>9. CASE u \notin byUid[s]
    <2>00. byUid'[s] = byUid[s] \ {u}
      BY <1>0, <1>1 DEF TypeOK
    <2>0. byUid'[s] = byUid[s]
      BY <1>9, <2>00
    <2>1. Copy(s, u)' = Copy(s, u) /\ byUid'[s] = byUid[s]
      BY <1>9, <2>0 DEF Copy
    <2> QED
      BY <1>0, <1>1, <1>5, <1>7, <1>9, <2>1, SilentStep
  <1> QED
    BY <1>8, <1>9

(***************************************************************************)
(* SERVER lines.                                                           *)
(***************************************************************************)
\* m tells q that s has the server t.
NewsOk(q, s, t, m) ==
    /\ Claims(q, s, servers[s] \cap Beyond(q, s), m)
    /\ ServersAfter(q, servers[s] \cap Beyond(q, s), m) = (servers[s] \cup {t}) \cap Beyond(q, s)
\* What may be said on of a server p introduced.
LEMMA NewsSays ==
    ASSUME NEW s \in Server, NEW p \in Neighbours(s), NEW t \in Beyond(s, p), t \notin servers[s],
           Route[t][s] \in Via(s, p), NEW q \in Neighbours(s), q # p,
           NEW m \in Msg, m.type = "SERVER", m.sid = t
    PROVE  NewsOk(q, s, t, m)
  <1>1. q \in Server /\ <<q, s>> \in Link
    BY Edge
  <1>2. t \in Server /\ t # s /\ t \in Beyond(q, s)
    BY Sideways
  <1>3. Route[t][q] = Route[t][s]
    BY <1>1, <1>2, RouteShared DEF Beyond
  <1>4. Route[t][s] \in servers[s] /\ Route[t][s] \in Beyond(s, p)
    BY DEF Via
  <1>5. Route[t][s] \in Beyond(q, s)
    BY <1>4, Sideways
  <1> QED
    BY <1>2, <1>3, <1>4, <1>5 DEF Claims, ServersAfter, NewsOk

\* A line that says nothing of any user, to everyone but p.
LEMMA UsersAside ==
    ASSUME TypeOK, NEW s \in Server, NEW p \in Server, NEW r, NEW m \in Msg, m.type = "SERVER",
           NEW out, out = Flood(p, m) \/ out = Nothing, byUid'[s] = byUid[s], \A v \in User : Copy(s, v)' = Copy(s, v),
           r # s => Head(chan[<<r, s>>]).type = "SERVER"
    PROVE  \A v \in User : UserOk(s, out, r, v)
  <1>1. AtMost(out, m)
    BY AtMostOut
  <1>2. ASSUME NEW v \in User
        PROVE  UserOk(s, out, r, v)
    <2>1. Plain(m, v)
      BY DEF Plain
    <2>2. ASSUME NEW q \in Neighbours(s)
          PROVE  Hears(q, v, Copy(s, v), out[q]) = Copy(s, v)
      <3>1. q \in Server
        BY Edge
      <3>2. out[q] = << >> \/ out[q] = <<m>>
        BY <1>1, <3>1 DEF AtMost
      <3>3. After(q, v, Copy(s, v), m) = Copy(s, v)
        BY <2>1, AfterPlain
      <3>4. <<m>> # << >> /\ Len(<<m>>) = 1 /\ <<m>>[1] = m
        BY SingleLine
      <3>5. out[q] = << >> \/ (out[q] # << >> /\ Len(out[q]) = 1 /\ out[q][1] = m)
        BY <3>2, <3>4
      <3> QED
        BY <3>3, <3>5 DEF Hears
    <2> DEFINE n == Head(chan[<<r, s>>])
    <2>3. r # s => /\ After(s, v, Copy(s, v), n) = Copy(s, v) /\ ~Splits(s, v, n) /\ ~IsKill(n, v)
      BY DEF After, Wipes, Splits, IsKill
    <2> HIDE DEF n
    <2> QED
      BY <2>2, <2>3, AsideOk DEF n
  <1> QED
    BY <1>2

\* handle_server.
LEMMA HandleServerTrails ==
    ASSUME CInv, NEW s \in Server, NEW p \in Server, HandleServer(s, p)
    PROVE  CInv'
  <1> DEFINE m == Head(chan[<<p, s>>])
  <1>0. IInv /\ IInv' /\ TypeOK /\ Support /\ Reading(s, p, "SERVER")
    BY HandleServerKeeps DEF CInv, IInv, HandleServer
  <1>1. /\ p \in Neighbours(s) /\ p # s /\ lc[s][p] # "down" /\ m \in Msg /\ m.type = "SERVER"
        /\ Claims(s, p, Via(s, p), m)
    BY <1>0, Heard
  <1>2. m.sid \in Beyond(s, p) /\ m.sid \notin servers[s] /\ m.sid # p /\ Route[m.sid][s] \in Via(s, p)
    BY <1>1 DEF Claims, Via
  <1>3. PICK t \in Beyond(s, p) : t = m.sid
    BY <1>2
  <1>4. t \in Server /\ t # s /\ Route[s][t] = p /\ t \notin servers[s] /\ Route[t][s] \in Via(s, p)
    BY <1>2, <1>3 DEF Beyond
  <1>5. SrcServer(s, p, Route[t][s])
    <2>1. Route[t][s] \in servers[s] /\ Route[t][s] \in Beyond(s, p)
      BY <1>4 DEF Via
    <2>2. Route[t][s] # s /\ IsBehind(s, Route[t][s], p)
      BY <1>1, <2>1, Sideways
    <2> QED
      BY <2>1, <2>2 DEF SrcServer
  <1> DEFINE out == Flood(p, m)
  <1>6. /\ servers' = [servers EXCEPT ![s] = @ \cup {t}]
        /\ lc' = lc /\ chan' = SentOnRead(s, p, Flood(p, ServerLine(t)))
        /\ UNCHANGED <<alive, users, byUid, nick, nickTs>>
    BY <1>3, <1>4, <1>5 DEF HandleServer
  <1>7. ServerLine(t) = m
    BY <1>1, <1>3 DEF Msg, ServerLine
  <1>8. /\ servers'[s] = servers[s] \cup {t} /\ \A z \in Server : z # s => servers'[z] = servers[z]
    BY <1>0, <1>6 DEF TypeOK
  <1>9. Own(s)
    BY <1>6, <1>8 DEF Own, Ending
  <1> HIDE DEF m
  <1>10. Brief(out)
    BY <1>1, BriefOut
  <1>11. chan' = SentOnRead(s, p, out)
    BY <1>6, <1>7
  <1>12. OneStep(s, out, p)
    BY <1>0, <1>1, <1>6, <1>9, <1>10, <1>11, ReadStep
  <1>13. \A q \in Server : out[q] = IF q = p THEN << >> ELSE <<m>>
    BY OutForm
  <1>14. \A v \in User : UserOk(s, out, p, v)
    <2>1. byUid'[s] = byUid[s] /\ \A v \in User : Copy(s, v)' = Copy(s, v)
      BY <1>6 DEF Copy
    <2>2. p # s => Head(chan[<<p, s>>]).type = "SERVER"
      BY <1>1 DEF m
    <2> HIDE DEF out
    <2>3. out = Flood(p, m) \/ out = Nothing
      BY DEF out
    <2> QED
      BY <1>0, <1>1, <2>1, <2>2, <2>3, UsersAside
  <1> HIDE DEF out
  <1>15. ASSUME NEW q \in Neighbours(s)
         PROVE  /\ Via(s, q)' = IF q = p THEN ServersAfter(s, Via(s, q), m) ELSE Via(s, q)
                /\ Says(q, s, servers[s] \cap Beyond(q, s), out[q], servers'[s] \cap Beyond(q, s))
    <2>0. q \in Server /\ q # s
      BY Edge
    <2>1. CASE q = p
      <3>1. Via(s, p)' = ServersAfter(s, Via(s, p), m)
        BY <1>1, <1>3, <1>8 DEF Via, ServersAfter
      <3>2. t \notin Beyond(p, s)
        BY <1>1, <1>4, OneSide
      <3>3. out[q] = << >> /\ servers'[s] \cap Beyond(q, s) = servers[s] \cap Beyond(q, s)
        BY <1>8, <1>13, <2>0, <2>1, <3>2
      <3> QED
        BY <2>1, <3>1, <3>3 DEF Says
    <2>2. CASE q # p
      <3>1. Via(s, q)' = Via(s, q)
        BY <1>4, <1>8, <2>2 DEF Via, Beyond
      <3>2. /\ Claims(q, s, servers[s] \cap Beyond(q, s), m)
            /\ ServersAfter(q, servers[s] \cap Beyond(q, s), m) = (servers[s] \cup {t}) \cap Beyond(q, s)
        <4>1. t \notin servers[s] /\ Route[t][s] \in Via(s, p) /\ m \in Msg /\ m.type = "SERVER" /\ m.sid = t
          BY <1>1, <1>3, <1>4
        <4>2. p \in Neighbours(s) /\ t \in Beyond(s, p)
          BY <1>1, <1>3
        <4>3. NewsOk(q, s, t, m)
          BY <2>2, <4>1, <4>2, NewsSays
        <4> QED
          BY <4>3 DEF NewsOk
      <3>3. out[q] = <<m>>
        BY <1>13, <2>0, <2>2
      <3>4. Len(out[q]) = 1 /\ out[q][1] = m
        BY <3>3, SingleLine
      <3> QED
        BY <1>8, <2>2, <3>1, <3>2, <3>4 DEF Says
    <2> QED
      BY <2>1, <2>2
  <1>16. ServersOk(s, out, p)
    BY <1>15 DEF ServersOk, m
  <1> QED
    BY <1>0, <1>12, <1>14, <1>16, LocalStep

(***************************************************************************)
(* Netsplits.                                                              *)
(***************************************************************************)
\* Two neighbours see the same servers behind a third.
LEMMA SplitOn ==
    ASSUME NEW s \in Server, NEW q \in Neighbours(s), NEW t \in Server, t # s, t # q
    PROVE  \A h : IsBehind(q, h, t) <=> IsBehind(s, h, t)
  <1>1. q \in Server /\ <<q, s>> \in Link
    BY Edge
  <1>2. Route[t][q] = Route[t][s]
    BY <1>1, RouteShared
  <1> QED
    BY <1>2 DEF IsBehind

\* What a SQUIT line for t does at s, where p is the way to t, and what it says to the others.
SplitOk(s, p, t) ==
    /\ \A q \in Neighbours(s) : q # p => t # q /\ t \in Beyond(q, s) /\ \A h : IsBehind(q, h, t) <=> IsBehind(s, h, t)
    /\ \A h \in Server : IsBehind(s, h, t) => h # s /\ Route[s][h] = p

\* What hangs behind t at s hangs behind it at the neighbours it is said to.
LEMMA SplitForm ==
    ASSUME NEW s \in Server, NEW p \in Neighbours(s), NEW t \in Beyond(s, p)
    PROVE  SplitOk(s, p, t)
  <1>1. t \in Server /\ t # s /\ Route[s][t] = p
    BY DEF Beyond
  <1>2. ASSUME NEW q \in Neighbours(s), q # p
        PROVE  t # q /\ t \in Beyond(q, s) /\ \A h : IsBehind(q, h, t) <=> IsBehind(s, h, t)
    <2>1. t \in Beyond(q, s)
      BY <1>2, Sideways
    <2>2. t # q
      BY <2>1 DEF Beyond
    <2> QED
      BY <1>1, <2>1, <2>2, SplitOn
  <1>3. ASSUME NEW h \in Server, IsBehind(s, h, t)
        PROVE  h # s /\ Route[s][h] = p
    <2>1. h # s
      BY <1>1, <1>3 DEF IsBehind
    <2> QED
      BY <1>1, <1>3, <2>1, SideOf
  <1> QED
    BY <1>2, <1>3 DEF SplitOk

\* A subtree goes, and everyone but p is told.
LEMMA SplitServers ==
    ASSUME TypeOK, Support, NEW s \in Server, NEW p \in Neighbours(s), NEW t \in Beyond(s, p), t \in servers[s],
           NEW m \in Msg, m.type = "SQUIT", m.sid = t,
           servers'[s] = servers[s] \ ServersBehind(s, t), NEW out, out = Flood(p, m),
           NEW r, r = p \/ (r = s /\ lc'[s][p] = "down"), r = p => Head(chan[<<p, s>>]) = m
    PROVE  ServersOk(s, out, r)
  <1>1. SplitOk(s, p, t) /\ p # s /\ t \in Server
    BY SplitForm, Edge DEF Beyond
  <1>2. \A q \in Server : out[q] = IF q = p THEN << >> ELSE <<m>>
    <2>1. p \in Server
      BY EdgeOn
    <2> QED
      BY <2>1, OutForm
  <1>3. \A h \in servers[s] : h \in servers'[s] <=> h = s \/ ~IsBehind(s, h, t)
    BY DEF ServersBehind
  <1>4. servers[s] \subseteq Server /\ servers'[s] \subseteq servers[s]
    BY DEF TypeOK
  <1>5. ASSUME NEW q \in Neighbours(s), lc'[s][q] # "down"
        PROVE  Via(s, q)' = IF q = r THEN ServersAfter(s, Via(s, q), Head(chan[<<q, s>>])) ELSE Via(s, q)
    <2>1. CASE q = p
      <3>1. r = p /\ Head(chan[<<q, s>>]) = m
        BY <1>5, <2>1
      <3>2. Via(s, q)' = {h \in Via(s, q) : ~IsBehind(s, h, t)}
        BY <1>3, <1>4 DEF Via, Beyond
      <3> QED
        BY <2>1, <3>1, <3>2 DEF ServersAfter
    <2>2. CASE q # p
      <3>1. q # r
        BY <2>2, EdgeOn
      <3>2. \A h \in servers[s] : h \in Beyond(s, q) => h \in servers'[s]
        BY <1>1, <1>3, <1>4, <2>2 DEF SplitOk, Beyond
      <3> QED
        BY <1>4, <3>1, <3>2 DEF Via
    <2> QED
      BY <2>1, <2>2
  <1>6. ASSUME NEW q \in Neighbours(s)
        PROVE  Says(q, s, servers[s] \cap Beyond(q, s), out[q], servers'[s] \cap Beyond(q, s))
    <2> DEFINE x == servers[s] \cap Beyond(q, s)
               y == servers'[s] \cap Beyond(q, s)
    <2>0. q \in Server
      BY Edge
    <2>1. CASE q = p
      <3>1. \A h \in servers[s] : h \in Beyond(q, s) => ~(h # s /\ Route[s][h] = p)
        BY <1>4, <2>1, OneSide DEF Beyond
      <3>2. \A h \in servers[s] : h \in Beyond(q, s) => h \in servers'[s]
        BY <1>1, <1>3, <1>4, <3>1 DEF SplitOk
      <3>3. y = x
        BY <1>4, <3>2
      <3> QED
        BY <1>2, <2>0, <2>1, <3>3 DEF Says
    <2>2. CASE q # p
      <3>1. out[q] = <<m>>
        BY <1>2, <2>0, <2>2
      <3>2. Len(out[q]) = 1 /\ out[q][1] = m
        BY <3>1, SingleLine
      <3>3. t \in x /\ t # s
        BY <1>1, <2>2 DEF SplitOk, Beyond
      <3>4. Claims(q, s, x, m)
        BY <3>3 DEF Claims
      <3>5. ~IsBehind(s, s, t)
        BY <1>1 DEF SplitOk
      <3>6. y = {h \in x : ~IsBehind(q, h, t)}
        BY <1>1, <1>3, <1>4, <2>2, <3>5 DEF SplitOk
      <3>7. y = ServersAfter(q, x, m)
        BY <3>6 DEF ServersAfter
      <3> HIDE DEF x, y
      <3> QED
        BY <3>2, <3>4, <3>7 DEF Says, x, y
    <2> QED
      BY <2>1, <2>2
  <1> QED
    BY <1>5, <1>6 DEF ServersOk

\* A user behind t is swept off s, anyone else stays.
LEMMA SplitUser ==
    ASSUME IInv, NEW s \in Server, NEW p \in Neighbours(s), NEW t \in Beyond(s, p),
           NEW m \in Msg, m.type = "SQUIT", m.sid = t, Settled(s, UsersBehind(s, t), {}, NoNick, 0),
           NEW out, out = Flood(p, m),
           NEW r, r = p \/ (r = s /\ lc'[s][p] = "down"), r = p => Head(chan[<<p, s>>]) = m, NEW u \in User
    PROVE  UserOk(s, out, r, u)
  <1>0. TypeOK /\ Support /\ RemoteAnchored
    BY DEF IInv
  <1>1. SplitOk(s, p, t) /\ p \in Server /\ p # s /\ t \in Server
    BY SplitForm, EdgeOn, Edge DEF Beyond
  <1>2. Flooded(s, p, m, out)
    BY <1>1, FloodForm
  <1>3. \A q \in Server : q # p => out[q] = <<m>> /\ \A e : Hears(q, u, e, out[q]) = After(q, u, e, m)
    BY <1>2 DEF Flooded
  <1>4. out[p] = << >>
    BY <1>2 DEF Flooded
  <1>5. Home[u] \in Server
    BY HomeType
  <1>6. CASE IsBehind(s, Home[u], t)
    <2>1. Home[u] # s /\ Up(s, u) = p
      BY <1>1, <1>5, <1>6 DEF SplitOk, Up
    <2>2. u \notin byUid'[s]
      <3>1. u \in byUid[s] => u \in UsersBehind(s, t)
        BY <1>0, <1>6, <2>1 DEF RemoteAnchored, UsersBehind, Remote
      <3>2. Remote(s, u)
        BY <2>1 DEF Remote
      <3> QED
        BY <3>1, <3>2 DEF Settled
    <2>3. Copy(s, u)' = << >>
      BY <2>2 DEF Copy
    <2>4. ASSUME NEW q \in Neighbours(s), q # p
          PROVE  /\ out[q] = <<m>> /\ Splits(q, u, m) /\ Hears(q, u, Copy(s, u), out[q]) = << >>
      <3>1. IsBehind(q, Home[u], t)
        BY <1>1, <1>6, <2>4 DEF SplitOk
      <3>2. q \in Server
        BY EdgeOn
      <3>3. After(q, u, Copy(s, u), m) = << >>
        BY <3>1 DEF After, Wipes
      <3> QED
        BY <1>3, <2>4, <3>1, <3>2, <3>3 DEF Splits
    <2>5. Swept(s, out, u)
      BY <2>1, <2>2, <2>4 DEF Swept
    <2>6. lc'[s][p] # "down" => Due(s, r, u) = << >>
      <3>1. After(s, u, Copy(s, u), m) = << >>
        BY <1>6 DEF After, Wipes
      <3> QED
        BY <2>1, <3>1 DEF Due
    <2>7. \A q \in Neighbours(s) : q # Home[u] /\ Up(q, u) = s => q # p
      BY <1>5, <2>1, UpSide
    <2>8. r # s => ~IsKill(Head(chan[<<r, s>>]), u)
      BY DEF IsKill
    <2> QED
      BY <2>1, <2>2, <2>3, <2>4, <2>5, <2>6, <2>7, <2>8 DEF UserOk
  <1>7. CASE ~IsBehind(s, Home[u], t)
    <2>1. (u \in byUid'[s] <=> u \in byUid[s]) /\ Copy(s, u)' = Copy(s, u)
      <3>1. u \notin UsersBehind(s, t)
        BY <1>7 DEF UsersBehind
      <3> QED
        BY <3>1 DEF Settled, Copy
    <2>2. ASSUME NEW q \in Neighbours(s)
          PROVE  Hears(q, u, Copy(s, u), out[q]) = Copy(s, u)
      <3>1. CASE q = p
        BY <1>4, <3>1 DEF Hears
      <3>2. CASE q # p
        <4>1. ~IsBehind(q, Home[u], t)
          BY <1>1, <1>7, <3>2 DEF SplitOk
        <4>2. q \in Server
          BY EdgeOn
        <4>3. After(q, u, Copy(s, u), m) = Copy(s, u)
          BY <4>1 DEF After, Wipes
        <4> QED
          BY <1>3, <3>2, <4>2, <4>3
      <3> QED
        BY <3>1, <3>2
    <2>3. r # s => Head(chan[<<r, s>>]) = m
      BY <1>1
    <2>4. After(s, u, Copy(s, u), m) = Copy(s, u) /\ ~Splits(s, u, m) /\ ~IsKill(m, u)
      BY <1>7 DEF After, Wipes, Splits, IsKill
    <2> QED
      BY <2>1, <2>2, <2>3, <2>4, AsideOk
  <1> QED
    BY <1>6, <1>7

\* A subtree goes.
LEMMA SplitStep ==
    ASSUME CInv, IInv', NEW s \in Server, NEW p \in Neighbours(s), NEW t \in Beyond(s, p), t \in servers[s],
           NEW m \in Msg, m.type = "SQUIT", m.sid = t, RemoveServerTree(s, t),
           NEW out, out = Flood(p, m),
           NEW r, r = p \/ (r = s /\ lc'[s][p] = "down"), r = p => Head(chan[<<p, s>>]) = m, OneStep(s, out, r)
    PROVE  CInv'
  <1> DEFINE gone == UsersBehind(s, t)
  <1>0. IInv /\ TypeOK /\ Support
    BY DEF CInv, IInv
  <1>1. Settle(s, gone, {}, NoNick, 0) /\ servers' = [servers EXCEPT ![s] = @ \ ServersBehind(s, t)]
    BY DEF RemoveServerTree
  <1>2. gone \in SUBSET User
    BY <1>0 DEF UsersBehind, TypeOK
  <1> HIDE DEF gone
  <1>3. Settled(s, gone, {}, NoNick, 0)
    BY <1>0, <1>1, <1>2, SettleTables
  <1>4. servers'[s] = servers[s] \ ServersBehind(s, t)
    BY <1>0, <1>1 DEF TypeOK
  <1>5. \A u \in User : UserOk(s, out, r, u)
    <2> SUFFICES ASSUME NEW u \in User
                 PROVE  UserOk(s, out, r, u)
      OBVIOUS
    <2>1. Settled(s, UsersBehind(s, t), {}, NoNick, 0)
      BY <1>3 DEF gone
    <2> QED
      BY <1>0, <2>1, SplitUser
  <1>6. ServersOk(s, out, r)
    BY <1>0, <1>4, SplitServers
  <1> QED
    BY <1>0, <1>5, <1>6, LocalStep

\* remove_server_tree changes the tables of one server.
LEMMA TreeOwn ==
    ASSUME IInv, NEW s \in Server, NEW t \in Server, RemoveServerTree(s, t),
           \A z \in Server \ {s} : lc'[z] = lc[z],
           \A x \in Server : (lc'[s][x] = "up" => lc[s][x] = "up") /\ (lc[s][x] = "down" => lc'[s][x] = "down")
    PROVE  Own(s)
  <1> DEFINE gone == UsersBehind(s, t)
             new == {}
  <1>1. TypeOK /\ gone \in SUBSET users[s] /\ new \in SUBSET User
    BY DEF IInv, UsersBehind
  <1>2. Settle(s, gone, new, NoNick, 0) /\ servers' = [servers EXCEPT ![s] = @ \ ServersBehind(s, t)]
    BY DEF RemoveServerTree
  <1> HIDE DEF gone, new
  <1>3. \A z \in Server \ {s} : servers'[z] = servers[z] /\ lc'[z] = lc[z]
    BY <1>1, <1>2 DEF TypeOK
  <1> QED
    BY <1>1, <1>2, <1>3, SettleOwn

\* handle_squit.
LEMMA HandleSquitTrails ==
    ASSUME CInv, NEW s \in Server, NEW p \in Server, HandleSquit(s, p)
    PROVE  CInv'
  <1> DEFINE m == Head(chan[<<p, s>>])
  <1>0. IInv /\ IInv' /\ TypeOK /\ Support /\ Reading(s, p, "SQUIT")
    BY HandleSquitKeeps DEF CInv, IInv, HandleSquit
  <1>1. /\ p \in Neighbours(s) /\ p # s /\ lc[s][p] # "down" /\ m \in Msg /\ m.type = "SQUIT"
        /\ Claims(s, p, Via(s, p), m)
    BY <1>0, Heard
  <1>2. m.sid \in Beyond(s, p) /\ m.sid \in servers[s] /\ m.sid # p
    BY <1>1 DEF Claims, Via
  <1>3. PICK t \in Beyond(s, p) : t = m.sid
    BY <1>2
  <1>4. t \in Server /\ t # s /\ t # p /\ t \in servers[s]
    BY <1>2, <1>3 DEF Beyond
  <1>5. SrcServer(s, p, t)
    <2>1. IsBehind(s, t, p)
      BY <1>1, <1>3, Sideways
    <2> QED
      BY <1>4, <2>1 DEF SrcServer
  <1> DEFINE out == Flood(p, m)
  <1>6. RemoveServerTree(s, t) /\ chan' = SentOnRead(s, p, Flood(p, SquitLine(t))) /\ UNCHANGED lc
    BY <1>3, <1>4, <1>5 DEF HandleSquit
  <1>7. SquitLine(t) = m
    BY <1>1, <1>3 DEF Msg, SquitLine
  <1>8. Own(s)
    BY <1>0, <1>4, <1>6, TreeOwn
  <1> HIDE DEF m
  <1>9. Brief(out)
    BY <1>1, BriefOut
  <1>10. chan' = SentOnRead(s, p, out)
    BY <1>6, <1>7
  <1>11. OneStep(s, out, p)
    BY <1>0, <1>1, <1>6, <1>8, <1>9, <1>10, ReadStep
  <1>12. m.sid = t /\ out = Flood(p, m) /\ Head(chan[<<p, s>>]) = m
    BY <1>3 DEF m
  <1> HIDE DEF out
  <1>13. PICK k \in Msg : k = m
    BY <1>1
  <1>14. out = Flood(p, k) /\ k.type = "SQUIT" /\ k.sid = t /\ Head(chan[<<p, s>>]) = k
    BY <1>1, <1>12, <1>13
  <1> QED
    BY <1>0, <1>1, <1>3, <1>4, <1>6, <1>11, <1>14, SplitStep

\* Where the peer of a reaped link goes.
LEMMA ReapStep ==
    ASSUME TypeOK, NEW s \in Server, NEW p \in Neighbours(s), NEW out, Brief(out), Own(s), lc'[s][p] = "down",
           chan' = [Sent(s, out) EXCEPT ![<<p, s>>] = << >>]
    PROVE  OneStep(s, out, s)
  <1>0. p \in Server /\ p # s /\ <<p, s>> \in Link
    BY Edge
  <1>1. /\ \A l \in Link : l[1] # s => Sent(s, out)[l] = chan[l]
        /\ \A q \in Neighbours(s) :
               Sent(s, out)[<<s, q>>] = IF CanSend(s, q) THEN chan[<<s, q>>] \o out[q] ELSE chan[<<s, q>>]
        /\ DOMAIN Sent(s, out) = Link
    BY SentForm
  <1>2. /\ \A l \in Link : l # <<p, s>> => chan'[l] = Sent(s, out)[l]
        /\ chan'[<<p, s>>] = << >>
    <2>1. Sent(s, out) = [l \in Link |-> Sent(s, out)[l]]
      BY DEF Sent
    <2> QED
      BY <1>0, <2>1
  <1>3. out \in [Server -> Seq(Msg)] /\ \A q \in Server : Len(out[q]) <= 2
    BY DEF Brief
  <1>4. ASSUME NEW q \in Neighbours(s)
        PROVE  /\ chan'[<<s, q>>] = IF CanSend(s, q) THEN chan[<<s, q>>] \o out[q] ELSE chan[<<s, q>>]
               /\ lc'[s][q] # "down" =>
                      IF q = s THEN chan[<<q, s>>] # << >> /\ chan'[<<q, s>>] = Tail(chan[<<q, s>>])
                      ELSE chan'[<<q, s>>] = chan[<<q, s>>]
               /\ lc'[s][q] = "down" => chan'[<<q, s>>] \in {chan[<<q, s>>], << >>}
               /\ \A i \in 1..Len(out[q]) : out[q][i].type = "QUIT" => alive'[out[q][i].user] = "gone"
    <2>1. q \in Server /\ q # s /\ <<s, q>> \in Link /\ <<q, s>> \in Link
      BY Edge
    <2>2. chan'[<<s, q>>] = Sent(s, out)[<<s, q>>]
      BY <1>0, <1>2, <2>1
    <2>3. q # p => chan'[<<q, s>>] = chan[<<q, s>>]
      BY <1>1, <1>2, <2>1
    <2>4. \A i \in 1..Len(out[q]) : out[q][i].type = "QUIT" => alive'[out[q][i].user] = "gone"
      BY <2>1 DEF Brief, Leaving
    <2> QED
      BY <1>1, <1>2, <2>1, <2>2, <2>3, <2>4
  <1>5. \A l \in Link : l[1] # s /\ l[2] # s => chan'[l] = chan[l]
    BY <1>0, <1>1, <1>2
  <1> QED
    BY <1>3, <1>4, <1>5 DEF OneStep, Own

\* link_reap.
LEMMA ReapTrails ==
    ASSUME CInv, NEW s \in Server, NEW p \in Server, Reap(s, p)
    PROVE  CInv'
  <1> DEFINE m == SquitLine(p)
             out == Flood(p, m)
  <1>0. IInv /\ IInv' /\ TypeOK /\ Support
    BY ReapKeeps DEF CInv, IInv
  <1>1. /\ <<p, s>> \in Link /\ lc[s][p] = "closing" /\ lc' = [lc EXCEPT ![s][p] = "down"] /\ RemoveServerTree(s, p)
        /\ chan' = [Sent(s, out) EXCEPT ![<<p, s>>] = << >>]
    BY LinkSymmetric DEF Reap
  <1>2. p \in Neighbours(s) /\ p # s /\ Route[s][p] = p
    <2>1. p \in Neighbours(s)
      BY <1>1 DEF Neighbours
    <2> QED
      BY <2>1, Edge
  <1>3. p \in Beyond(s, p) /\ p \in servers[s]
    BY <1>1, <1>2 DEF Beyond, CInv, PeerKnown
  <1>4. m \in Msg /\ m.type = "SQUIT" /\ m.sid = p
    BY DEF SquitLine, Msg
  <1>5. lc'[s][p] = "down" /\ \A z \in Server \ {s} : lc'[z] = lc[z]
    BY <1>0, <1>1 DEF TypeOK
  <1>6. \A x \in Server : (lc'[s][x] = "up" => lc[s][x] = "up") /\ (lc[s][x] = "down" => lc'[s][x] = "down")
    BY <1>0, <1>1 DEF TypeOK
  <1>7. Own(s)
    BY <1>0, <1>1, <1>5, <1>6, TreeOwn
  <1> HIDE DEF m
  <1>8. Brief(out)
    BY <1>4, BriefOut
  <1>9. OneStep(s, out, s)
    BY <1>0, <1>1, <1>2, <1>5, <1>7, <1>8, ReapStep
  <1>10. s = p \/ (s = s /\ lc'[s][p] = "down")
    BY <1>5
  <1>11. s = p => Head(chan[<<p, s>>]) = m
    BY <1>2
  <1>12. out = Flood(p, m)
    OBVIOUS
  <1> HIDE DEF out
  <1> QED
    BY <1>0, <1>1, <1>2, <1>3, <1>4, <1>9, <1>10, <1>11, <1>12, SplitStep

(***************************************************************************)
(* Bursts.                                                                 *)
(***************************************************************************)
\* An order of a finite set names every element of it.
LEMMA OrdersAll ==
    ASSUME NEW S, IsFiniteSet(S), NEW q \in Orders(S)
    PROVE  Len(q) \in Nat /\ DOMAIN q = 1..Len(q) /\ (\A i \in 1..Len(q) : q[i] \in S) /\ \A t \in S : \E i \in 1..Len(q) : q[i] = t
  <1> DEFINE n == Cardinality(S)
  <1>1. n \in Nat
    BY FS_CardinalityType
  <1> HIDE DEF n
  <1>2. q \in [1..n -> S] /\ \A i, j \in 1..n : i # j => q[i] # q[j]
    BY DEF Orders, n
  <1>3. ASSUME NEW t \in S, \A i \in 1..n : q[i] # t
        PROVE  FALSE
    <2>1. IsFiniteSet(S \ {t}) /\ Cardinality(S \ {t}) = n - 1
      BY FS_RemoveElement DEF n
    <2>2. IsFiniteSet(1..n) /\ Cardinality(1..n) = n
      BY <1>1, FS_Interval
    <2>3. q \in [1..n -> S \ {t}]
      BY <1>2, <1>3
    <2> DEFINE D == 1..n
               T == S \ {t}
    <2>4. IsFiniteSet(D) /\ IsFiniteSet(T) /\ Cardinality(T) < Cardinality(D) /\ q \in [D -> T]
      BY <1>1, <2>1, <2>2, <2>3
    <2> HIDE DEF D, T
    <2>5. \E i, j \in D : i # j /\ q[i] = q[j]
      BY <2>4, FS_PigeonHole
    <2> QED
      BY <1>2, <2>5 DEF D
  <1>4. q \in Seq(S)
    BY OrdersType
  <1>5. Len(q) = n
    BY <1>1, <1>2, <1>4
  <1> QED
    BY <1>1, <1>2, <1>3, <1>5

\* A burst: the servers of qs, then the users.
Lists(a, b, d, qs) ==
    /\ Len(qs) \in Nat /\ Len(qs) <= Len(d) /\ d \in Seq(Msg)
    /\ \A i \in 1..Len(qs) : qs[i] \in BurstServers(a, b) /\ d[i] = ServerLine(qs[i])
    /\ \A t \in BurstServers(a, b) : \E i \in 1..Len(qs) : qs[i] = t
    /\ \A i, j \in 1..Len(qs) : i # j => qs[i] # qs[j]
    /\ \A i, j \in 1..Len(qs) : i < j => ~IsBehind(a, qs[i], qs[j])
    /\ \A i \in 1..Len(d) : i > Len(qs) =>
           \E v \in BurstUsers(a, b) : d[i] = UidLine(v, nick[a][v], nickTs[a][v])
    /\ \A v \in BurstUsers(a, b) : \E i \in 1..Len(d) : d[i] = UidLine(v, nick[a][v], nickTs[a][v])

\* send_burst sends the servers, nearest first, then the users.
LEMMA BurstForm ==
    ASSUME IInv, NEW a \in Server, NEW b \in Server, NEW qs \in ServerOrders(a, b), NEW qu \in Orders(BurstUsers(a, b))
    PROVE  Lists(a, b, Burst(a, qs, qu), qs)
  <1> DEFINE S == BurstServers(a, b)
             U == BurstUsers(a, b)
             f == [i \in 1..Len(qs) |-> ServerLine(qs[i])]
             g == [i \in 1..Len(qu) |-> UidLine(qu[i], nick[a][qu[i]], nickTs[a][qu[i]])]
             n == Len(qs)
             k == Len(qu)
             d == Burst(a, qs, qu)
  <1>1. S \subseteq Server /\ U \subseteq User
    BY DEF BurstServers, BurstUsers, IInv, TypeOK
  <1>2. IsFiniteSet(S) /\ IsFiniteSet(U)
    BY <1>1, FS_Subset, UserFinite, ServerFinite
  <1>3. d \in Seq(Msg)
    BY BurstType
  <1>4. qs \in Orders(S) /\ \A i, j \in DOMAIN qs : i < j => ~IsBehind(a, qs[i], qs[j])
    BY DEF ServerOrders
  <1>5. n \in Nat /\ DOMAIN qs = 1..n /\ (\A i \in 1..n : qs[i] \in S) /\ \A t \in S : \E i \in 1..n : qs[i] = t
    BY <1>2, <1>4, OrdersAll
  <1>6. k \in Nat /\ (\A i \in 1..k : qu[i] \in U) /\ \A v \in U : \E i \in 1..k : qu[i] = v
    BY <1>2, OrdersAll
  <1>7. \A i, j \in 1..n : i # j => qs[i] # qs[j]
    <2>1. DOMAIN qs = 1..Cardinality(S) /\ \A i, j \in 1..Cardinality(S) : i # j => qs[i] # qs[j]
      BY <1>4 DEF Orders
    <2> QED
      BY <1>5, <2>1
  <1>8. /\ Len(d) = n + k
        /\ \A i \in 1..n : d[i] = ServerLine(qs[i])
        /\ \A i \in 1..k : d[i + n] = UidLine(qu[i], nick[a][qu[i]], nickTs[a][qu[i]])
    <2> DEFINE X == {ServerLine(qs[i]) : i \in 1..n} \cup {UidLine(qu[i], nick[a][qu[i]], nickTs[a][qu[i]]) : i \in 1..k}
    <2>1. f \in Seq(X) /\ Len(f) = n /\ \A i \in 1..n : f[i] = ServerLine(qs[i])
      BY <1>5
    <2>2. g \in Seq(X) /\ Len(g) = k /\ \A i \in 1..k : g[i] = UidLine(qu[i], nick[a][qu[i]], nickTs[a][qu[i]])
      BY <1>6
    <2>3. d = f \o g
      BY DEF Burst
    <2> HIDE DEF f, g, X, d, n, k
    <2>4. /\ Len(f \o g) = Len(f) + Len(g)
          /\ \A i \in 1..(Len(f) + Len(g)) : (f \o g)[i] = IF i <= Len(f) THEN f[i] ELSE g[i - Len(f)]
      BY <2>1, <2>2, ConcatProperties
    <2>5. \A i \in 1..n : d[i] = f[i]
      BY <1>5, <1>6, <2>1, <2>2, <2>3, <2>4
    <2>6. ASSUME NEW i \in 1..k
          PROVE  d[i + n] = g[i]
      <3>1. i + n \in 1..(n + k) /\ ~(i + n <= n) /\ (i + n) - n = i
        BY <1>5, <1>6, <2>6
      <3> QED
        BY <2>1, <2>2, <2>3, <2>4, <3>1
    <2> QED
      BY <2>1, <2>2, <2>3, <2>4, <2>5, <2>6
  <1> HIDE DEF d, n, k
  <1>9. ASSUME NEW i \in 1..Len(d), i > n
        PROVE  \E v \in U : d[i] = UidLine(v, nick[a][v], nickTs[a][v])
    <2> DEFINE j == i - n
    <2>1. j \in 1..k /\ j + n = i
      BY <1>5, <1>6, <1>8, <1>9
    <2> QED
      BY <1>6, <1>8, <2>1
  <1>10. ASSUME NEW v \in U
         PROVE  \E i \in 1..Len(d) : d[i] = UidLine(v, nick[a][v], nickTs[a][v])
    <2>1. PICK j \in 1..k : qu[j] = v
      BY <1>6
    <2>2. j + n \in 1..Len(d)
      BY <1>5, <1>6, <1>8
    <2> QED
      BY <1>8, <2>1, <2>2
  <1>11. n <= Len(d)
    BY <1>5, <1>6, <1>8
  <1> HIDE DEF S, U
  <1>12. \A i, j \in 1..n : i < j => ~IsBehind(a, qs[i], qs[j])
    BY <1>4, <1>5
  <1> QED
    BY <1>3, <1>5, <1>7, <1>8, <1>9, <1>10, <1>11, <1>12 DEF Lists, d, n, S, U

\* What a sends of its servers is what b hears about from a.
LEMMA BurstSide ==
    ASSUME IInv, NEW a \in Server, NEW b \in Neighbours(a)
    PROVE  /\ \A h \in Server : h \in Beyond(b, a) <=> (h = a \/ ~IsBehind(a, h, b))
           /\ {a} \cup BurstServers(a, b) = servers[a] \cap Beyond(b, a)
           /\ a \notin BurstServers(a, b) /\ BurstServers(a, b) \subseteq Server
           /\ \A u \in BurstUsers(a, b) : u \in User /\ u \in byUid[a] /\ Home[u] \in servers[a] /\ Home[u] \in Beyond(b, a)
  <1>0. /\ b \in Server /\ b # a /\ <<a, b>> \in Link /\ Route[a][b] = b /\ Route[b][a] = a /\ servers[a] \subseteq Server
        /\ a \in servers[a]
    BY Edge DEF IInv, TypeOK, Support
  <1>1. ASSUME NEW h \in Server
        PROVE  h \in Beyond(b, a) <=> (h = a \/ ~IsBehind(a, h, b))
    <2>1. h \in Beyond(b, a) <=> h \notin Beyond(a, b)
      BY OneSide
    <2>2. CASE h = a
      BY <2>1, <2>2 DEF Beyond
    <2>3. CASE h # a
      <3>1. Route[a][h] = b => IsBehind(a, h, b)
        BY <1>0, <2>3, BehindPeer
      <3>2. IsBehind(a, h, b) => Route[a][h] = b
        BY <1>0, <2>3, SideOf
      <3> QED
        BY <2>1, <2>3, <3>1, <3>2 DEF Beyond
    <2> QED
      BY <2>2, <2>3
  <1>2. {a} \cup BurstServers(a, b) = servers[a] \cap Beyond(b, a)
    BY <1>0, <1>1 DEF BurstServers
  <1>3. ASSUME NEW u \in BurstUsers(a, b)
        PROVE  u \in User /\ u \in byUid[a] /\ Home[u] \in servers[a] /\ Home[u] \in Beyond(b, a)
    <2>1. u \in User /\ u \in byUid[a] /\ ~IsBehind(a, Home[u], b) /\ Home[u] \in Server
      BY HomeType DEF BurstUsers, IInv, TypeOK
    <2>2. Home[u] \in servers[a]
      BY <1>0, <2>1 DEF IInv, RemoteAnchored, Remote
    <2> QED
      BY <1>1, <2>1, <2>2
  <1> QED
    BY <1>0, <1>1, <1>2, <1>3 DEF BurstServers

\* Who introduces a server of the burst is in it before.
LEMMA BurstParent ==
    ASSUME IInv, NEW a \in Server, NEW b \in Neighbours(a), NEW d, NEW qs, Lists(a, b, d, qs), NEW i \in 1..Len(qs)
    PROVE  Route[qs[i]][b] = a \/ \E j \in 1..Len(qs) : j < i /\ qs[j] = Route[qs[i]][b]
  <1> DEFINE t == qs[i]
             r == Route[t][a]
  <1>0. b \in Server /\ b # a /\ <<a, b>> \in Link /\ servers[a] \subseteq Server /\ t \in BurstServers(a, b) /\ Len(qs) \in Nat
    BY Edge DEF IInv, TypeOK, Lists
  <1>1. t \in servers[a] /\ t \in Server /\ t # a /\ ~IsBehind(a, t, b)
    BY <1>0 DEF BurstServers
  <1>2. t # b /\ Route[t][b] = r
    BY <1>0, <1>1, RouteShared DEF IsBehind
  <1>3. r \in servers[a] /\ r \in Server
    BY <1>0, <1>1 DEF IInv, ServerAnchored
  <1>4. CASE r = a
    BY <1>2, <1>4
  <1>5. CASE r # a
    <2>1. ~IsBehind(a, r, b)
      BY <1>0, <1>1, BehindUplink
    <2>2. r \in BurstServers(a, b)
      BY <1>3, <1>5, <2>1 DEF BurstServers
    <2>3. PICK j \in 1..Len(qs) : qs[j] = r
      BY <2>2 DEF Lists
    <2>4. <<t, r>> \in Link /\ <<r, t>> \in Link
      <3> HIDE DEF t
      <3>1. <<t, r>> \in Link
        BY <1>1, RouteAdjacent
      <3> QED
        BY <1>1, <1>3, <3>1, LinkSymmetric
    <2>5. r # t /\ Route[r][t] = t
      BY <2>4 DEF Link
    <2>6. IsBehind(a, t, r)
      <3>1. Route[r][a] # t
        BY <1>1, <1>5, RouteForward
      <3> QED
        BY <1>5, <2>5, <3>1 DEF IsBehind
    <2>7. ~(i < j)
      <3>1. \A x, y \in 1..Len(qs) : x < y => ~IsBehind(a, qs[x], qs[y])
        BY DEF Lists
      <3> QED
        BY <2>3, <2>6, <3>1
    <2>8. j < i
      BY <1>0, <2>3, <2>5, <2>7
    <2> QED
      BY <1>2, <2>3, <2>8
  <1> QED
    BY <1>4, <1>5

\* What a burst says of servers may be said, and adds up to those it comes from.
LEMMA BurstServersTrail ==
    ASSUME IInv, NEW a \in Server, NEW b \in Neighbours(a), NEW d, NEW qs, Lists(a, b, d, qs)
    PROVE  Claimed(b, a, {a}, d) /\ ServersRead(b, {a}, d) = servers[a] \cap Beyond(b, a)
  <1> DEFINE n == Len(qs)
             Pre(i) == {a} \cup {qs[j] : j \in {j \in 1..n : j <= i}}
             h == [i \in 0..Len(d) |-> Pre(i)]
             x == {a}
  <1>0. /\ b \in Server /\ b # a /\ n \in Nat /\ d \in Seq(Msg) /\ Len(d) \in Nat /\ n <= Len(d)
        /\ \A i \in 1..n : qs[i] \in BurstServers(a, b) /\ d[i] = ServerLine(qs[i])
        /\ \A t \in BurstServers(a, b) : \E i \in 1..n : qs[i] = t
        /\ \A i, j \in 1..n : i # j => qs[i] # qs[j]
        /\ \A i \in 1..Len(d) : i > n => \E v \in BurstUsers(a, b) : d[i] = UidLine(v, nick[a][v], nickTs[a][v])
    <2>1. b \in Server /\ b # a
      BY Edge
    <2>2. n \in Nat /\ d \in Seq(Msg) /\ n <= Len(d)
      BY DEF Lists
    <2>3. Len(d) \in Nat
      BY <2>2
    <2> QED
      BY <2>1, <2>2, <2>3 DEF Lists
  <1>1. /\ {a} \cup BurstServers(a, b) = servers[a] \cap Beyond(b, a)
        /\ a \notin BurstServers(a, b) /\ BurstServers(a, b) \subseteq Server
        /\ \A u \in BurstUsers(a, b) : u \in User /\ u \in byUid[a] /\ Home[u] \in servers[a] /\ Home[u] \in Beyond(b, a)
    BY BurstSide
  <1>p. \A i \in 1..n : Route[qs[i]][b] = a \/ \E j \in 1..n : j < i /\ qs[j] = Route[qs[i]][b]
    BY BurstParent
  <1>2. \A i \in Nat : Pre(i) \subseteq Server
    BY <1>0, <1>1
  <1>3. Pre(0) = {a}
    BY <1>0
  <1>4. \A i \in 1..n : Pre(i) = Pre(i - 1) \cup {qs[i]}
    <2> SUFFICES ASSUME NEW i \in 1..n
                 PROVE  Pre(i) = Pre(i - 1) \cup {qs[i]}
      OBVIOUS
    <2>1. \A j \in 1..n : j <= i <=> (j <= i - 1 \/ j = i)
      BY <1>0
    <2> QED
      BY <2>1
  <1>5. \A i \in Nat : i > n => Pre(i) = Pre(i - 1) /\ Pre(i - 1) = {a} \cup BurstServers(a, b)
    <2> SUFFICES ASSUME NEW i \in Nat, i > n
                 PROVE  Pre(i) = Pre(i - 1) /\ Pre(i - 1) = {a} \cup BurstServers(a, b)
      OBVIOUS
    <2>1. \A j \in 1..n : j <= i /\ j <= i - 1
      BY <1>0
    <2> QED
      BY <1>0, <2>1
  <1>6. Pre(Len(d)) = {a} \cup BurstServers(a, b)
    <2>1. \A j \in 1..n : j <= Len(d)
      BY <1>0
    <2> QED
      BY <1>0, <2>1
  <1> HIDE DEF Pre
  <1>7. ASSUME NEW i \in 1..Len(d)
        PROVE  Pre(i) = ServersAfter(b, Pre(i - 1), d[i]) /\ Claims(b, a, Pre(i - 1), d[i])
    <2>1. CASE i <= n
      <3>0. i \in 1..n
        BY <1>0, <2>1
      <3>1. d[i] = ServerLine(qs[i]) /\ qs[i] \in BurstServers(a, b)
        BY <1>0, <3>0
      <3>2. d[i].type = "SERVER" /\ d[i].sid = qs[i]
        BY <3>1 DEF ServerLine
      <3>3. qs[i] \in Beyond(b, a) /\ qs[i] # a
        BY <1>1, <3>1
      <3>4. qs[i] \notin Pre(i - 1)
        <4>1. \A j \in 1..n : j <= i - 1 => j # i
          BY <1>0, <3>0
        <4> QED
          BY <1>0, <3>0, <3>3, <4>1 DEF Pre
      <3>5. Route[qs[i]][b] \in Pre(i - 1)
        <4>1. CASE Route[qs[i]][b] = a
          BY <4>1 DEF Pre
        <4>2. CASE \E j \in 1..n : j < i /\ qs[j] = Route[qs[i]][b]
          <5>1. PICK j \in 1..n : j < i /\ qs[j] = Route[qs[i]][b]
            BY <4>2
          <5>2. j <= i - 1
            BY <1>0, <3>0, <5>1
          <5> QED
            BY <5>1, <5>2 DEF Pre
        <4> QED
          BY <1>p, <3>0, <4>1, <4>2
      <3> QED
        BY <1>4, <3>0, <3>2, <3>3, <3>4, <3>5 DEF ServersAfter, Claims
    <2>2. CASE i > n
      <3>0. i \in Nat
        OBVIOUS
      <3>1. PICK v \in BurstUsers(a, b) : d[i] = UidLine(v, nick[a][v], nickTs[a][v])
        BY <1>0, <2>2
      <3>2. d[i].type = "UID" /\ d[i].user = v
        BY <3>1 DEF UidLine
      <3>3. Home[v] \in Beyond(b, a) /\ Home[v] \in Pre(i - 1)
        BY <1>1, <1>5, <2>2, <3>0
      <3> QED
        BY <1>5, <2>2, <3>0, <3>2, <3>3 DEF ServersAfter, Claims
    <2> QED
      BY <1>0, <2>1, <2>2
  <1>8. x \in Sets /\ h \in [0..Len(d) -> Sets] /\ h[0] = x
    BY <1>0, <1>2, <1>3 DEF Sets
  <1>9. \A i \in 1..Len(d) : i - 1 \in 0..Len(d) /\ h[i] = Pre(i) /\ h[i - 1] = Pre(i - 1) /\ d[i] \in Msg
    BY <1>0
  <1> HIDE DEF h, x
  <1>10. Stages(b, x, d, h)
    <2>1. \A i \in 1..Len(d) : h[i] = ServerStep(b)[h[i - 1]][d[i]]
      <3> SUFFICES ASSUME NEW i \in 1..Len(d)
                   PROVE  h[i] = ServerStep(b)[h[i - 1]][d[i]]
        OBVIOUS
      <3>1. h[i] = ServersAfter(b, h[i - 1], d[i]) /\ h[i - 1] \in Sets /\ d[i] \in Msg
        BY <1>7, <1>8, <1>9
      <3> QED
        BY <1>0, <3>1, ServerStepType
    <2> QED
      BY <1>8, <2>1 DEF Stages, Runs
  <1>11. \A i \in 1..Len(d) : Claims(b, a, h[i - 1], d[i])
    BY <1>7, <1>9
  <1>12. Claimed(b, a, x, d)
    BY <1>10, <1>11 DEF Claimed
  <1>13. h[Len(d)] = ServersRead(b, x, d)
    BY <1>0, <1>8, <1>10, ServersSteps
  <1>14. h[Len(d)] = Pre(Len(d))
    BY <1>0 DEF h
  <1> QED
    BY <1>1, <1>6, <1>12, <1>13, <1>14 DEF x

\* What b knows of u once it has read the burst of a.
LEMMA BurstRead ==
    ASSUME IInv, NEW a \in Server, NEW b \in Neighbours(a), NEW d, NEW qs, Lists(a, b, d, qs), NEW u \in User
    PROVE  Read(b, u, << >>, d) = IF u \in BurstUsers(a, b) THEN Copy(a, u) ELSE << >>
  <1> DEFINE n == Len(qs)
             U == BurstUsers(a, b)
             c == Copy(a, u)
             Named(i) == \E j \in 1..Len(d) : j <= i /\ d[j].type = "UID" /\ d[j].user = u
             Pre(i) == IF Named(i) THEN c ELSE << >>
             h == [i \in 0..Len(d) |-> Pre(i)]
             e == << >>
  <1>0. b \in Server /\ TypeOK /\ Support
    BY EdgeOn DEF IInv
  <1>1. n \in Nat /\ d \in Seq(Msg) /\ Len(d) \in Nat
    <2>1. n \in Nat /\ d \in Seq(Msg)
      BY DEF Lists
    <2> QED
      BY <2>1
  <1>2. e \in Entry /\ c \in Entry
    BY <1>0, CopyType
  <1>3. ASSUME NEW i \in 1..Len(d)
        PROVE  \/ d[i].type = "SERVER"
               \/ d[i].type = "UID" /\ d[i].user \in U /\ (d[i].user = u => <<d[i].nick, d[i].ts>> = c)
    <2>1. CASE i <= n
      <3>1. i \in 1..n
        BY <1>1, <2>1
      <3>2. d[i] = ServerLine(qs[i])
        BY <3>1 DEF Lists
      <3> QED
        BY <3>2 DEF ServerLine
    <2>2. CASE i > n
      <3>1. PICK v \in U : d[i] = UidLine(v, nick[a][v], nickTs[a][v])
        BY <2>2 DEF Lists
      <3>2. d[i].type = "UID" /\ d[i].user = v /\ d[i].nick = nick[a][v] /\ d[i].ts = nickTs[a][v]
        BY <3>1 DEF UidLine
      <3>3. v \in byUid[a]
        BY DEF BurstUsers
      <3> QED
        BY <3>2, <3>3 DEF Copy
    <2> QED
      BY <1>1, <2>1, <2>2
  <1>4. Named(Len(d)) <=> u \in U
    <2>1. ASSUME u \in U
          PROVE  Named(Len(d))
      <3>1. PICK i \in 1..Len(d) : d[i] = UidLine(u, nick[a][u], nickTs[a][u])
        BY <2>1 DEF Lists
      <3>2. i <= Len(d) /\ d[i].type = "UID" /\ d[i].user = u
        BY <1>1, <3>1 DEF UidLine
      <3> QED
        BY <3>2
    <2>2. Named(Len(d)) => u \in U
      BY <1>3
    <2> QED
      BY <2>1, <2>2
  <1>5. u \in U => u \in byUid[a]
    BY DEF BurstUsers
  <1>6. u \in byUid[a] => c # << >>
    BY <1>0, CopyType
  <1>7. ~Named(0)
    BY <1>1
  <1>8. ASSUME NEW i \in 1..Len(d)
        PROVE  Named(i) <=> Named(i - 1) \/ (d[i].type = "UID" /\ d[i].user = u)
    <2>1. \A j \in 1..Len(d) : j <= i <=> (j <= i - 1 \/ j = i)
      BY <1>1
    <2>2. i <= i
      BY <1>1
    <2> QED
      BY <2>1, <2>2
  <1>9. ASSUME NEW i \in 1..Len(d)
        PROVE  Named(i - 1) => u \in U
    <2>1. \A j \in 1..Len(d) : d[j].type = "UID" => d[j].user \in U
      BY <1>3
    <2> QED
      BY <2>1
  <1> HIDE DEF Named, c
  <1>10. ASSUME NEW i \in 1..Len(d)
         PROVE  Pre(i) = After(b, u, Pre(i - 1), d[i])
    <2>1. CASE d[i].type = "SERVER"
      <3>1. Named(i) <=> Named(i - 1)
        BY <1>8, <2>1
      <3> QED
        BY <2>1, <3>1 DEF After, Wipes
    <2>2. CASE d[i].type = "UID" /\ d[i].user # u
      <3>1. Named(i) <=> Named(i - 1)
        BY <1>8, <2>2
      <3> QED
        BY <2>2, <3>1 DEF After, Wipes
    <2>3. CASE d[i].type = "UID" /\ d[i].user = u
      <3>1. Named(i) /\ <<d[i].nick, d[i].ts>> = c /\ u \in U
        BY <1>3, <1>8, <2>3
      <3>2. Pre(i) = c
        BY <3>1
      <3>3. CASE Named(i - 1)
        <4>1. Pre(i - 1) = c /\ c # << >>
          BY <1>5, <1>6, <3>1, <3>3
        <4> QED
          BY <2>3, <3>2, <4>1 DEF After, Wipes
      <3>4. CASE ~Named(i - 1)
        <4>1. Pre(i - 1) = << >>
          BY <3>4
        <4> QED
          BY <2>3, <3>1, <3>2, <4>1 DEF After, Wipes
      <3> QED
        BY <3>3, <3>4
    <2> QED
      BY <1>3, <2>1, <2>2, <2>3
  <1>11. h \in [0..Len(d) -> Entry] /\ h[0] = e
    BY <1>1, <1>2, <1>7
  <1>12. \A i \in 1..Len(d) : i - 1 \in 0..Len(d) /\ h[i] = Pre(i) /\ h[i - 1] = Pre(i - 1) /\ d[i] \in Msg
    BY <1>1
  <1>13. h[Len(d)] = IF u \in U THEN c ELSE << >>
    BY <1>1, <1>4
  <1> HIDE DEF Pre, h, e
  <1>14. Runs(Entry, UserStep(b, u), e, d, h)
    <2>1. \A i \in 1..Len(d) : h[i] = UserStep(b, u)[h[i - 1]][d[i]]
      <3> SUFFICES ASSUME NEW i \in 1..Len(d)
                   PROVE  h[i] = UserStep(b, u)[h[i - 1]][d[i]]
        OBVIOUS
      <3>1. h[i] = After(b, u, h[i - 1], d[i]) /\ h[i - 1] \in Entry /\ d[i] \in Msg
        BY <1>10, <1>11, <1>12
      <3> QED
        BY <1>0, <3>1, UserStepType
    <2> QED
      BY <1>11, <2>1 DEF Runs
  <1>15. Run(Entry, UserStep(b, u), e, d) = h[Len(d)]
    BY <1>0, <1>1, <1>2, <1>14, UserStepType, RunIs
  <1> QED
    BY <1>13, <1>15 DEF Read, e, c, U

\* A user a does not list though it has a UID is a local one on its way out.
LEMMA Unlisted ==
    ASSUME IInv, NEW a \in Server, NEW b \in Neighbours(a), NEW u \in User, Home[u] \in Beyond(b, a),
           u \in byUid[a], u \notin BurstUsers(a, b)
    PROVE  Ending(u)
  <1>1. Home[u] = a \/ ~IsBehind(a, Home[u], b)
    BY HomeType, BurstSide
  <1>2. a # Home[u] => u \in users[a]
    BY DEF IInv, RemoteAnchored, Remote
  <1>3. Home[u] = a => ~IsBehind(a, Home[u], b)
    <2>1. b # a
      BY Edge
    <2> QED
      BY <2>1 DEF IsBehind
  <1>4. u \notin users[a]
    BY <1>1, <1>3 DEF BurstUsers
  <1>5. Home[u] = a
    BY <1>2, <1>4
  <1>6. alive[u] \in {"open", "quitting"} /\ alive[u] # "open"
    BY <1>4, <1>5 DEF IInv, Support, Remote, OpenHoldsNick
  <1> QED
    BY <1>6 DEF Ending

(***************************************************************************)
(* A link comes up.                                                        *)
(***************************************************************************)
\* The link of a and b comes up.
Joined(a, b) ==
    /\ b \in Neighbours(a) /\ lc[a][b] = "down" /\ lc[b][a] = "down"
    /\ b \notin servers[a] /\ a \notin servers[b]
    /\ servers'[a] = servers[a] \cup {b} /\ servers'[b] = servers[b] \cup {a}
    /\ \A z \in Server \ {a, b} : servers'[z] = servers[z]
    /\ lc'[a][b] = "up" /\ lc'[b][a] = "up"
    /\ \A z, w \in Server : <<z, w>> # <<a, b>> /\ <<z, w>> # <<b, a>> => lc'[z][w] = lc[z][w]
    /\ alive' = alive /\ byUid' = byUid /\ nick' = nick /\ nickTs' = nickTs
    /\ \E qs : Lists(a, b, chan'[<<a, b>>], qs)
    /\ \E qs : Lists(b, a, chan'[<<b, a>>], qs)
    /\ \A q \in Neighbours(a) \ {b} :
           chan'[<<a, q>>] = IF CanSend(a, q) THEN Append(chan[<<a, q>>], ServerLine(b)) ELSE chan[<<a, q>>]
    /\ \A q \in Neighbours(b) \ {a} :
           chan'[<<b, q>>] = IF CanSend(b, q) THEN Append(chan[<<b, q>>], ServerLine(a)) ELSE chan[<<b, q>>]
    /\ \A l \in Link : l[1] # a /\ l[1] # b => chan'[l] = chan[l]

\* Neither end of a new link is special.
LEMMA JoinSwap ==
    ASSUME NEW a \in Server, NEW b \in Server, Joined(a, b)
    PROVE  Joined(b, a)
  <1>1. a \in Neighbours(b)
    BY Edge DEF Joined
  <1>2. \A z, w \in Server : <<z, w>> # <<b, a>> /\ <<z, w>> # <<a, b>> => lc'[z][w] = lc[z][w]
    BY DEF Joined
  <1>3. \A z \in Server \ {b, a} : servers'[z] = servers[z]
    BY DEF Joined
  <1> QED
    BY <1>1, <1>2, <1>3 DEF Joined

\* netsync_link_up joins two servers that knew nothing of each other.
LEMMA JoinForm ==
    ASSUME IInv, NEW a \in Server, NEW b \in Server, LinkUp(a, b)
    PROVE  Joined(a, b)
  <1>0. TypeOK /\ <<a, b>> \in Link /\ <<b, a>> \in Link /\ a # b
    BY LinkSymmetric DEF IInv, LinkUp, Link
  <1>1. b \in Neighbours(a)
    BY <1>0 DEF Neighbours
  <1>2. PICK qa \in ServerOrders(a, b), ua \in Orders(BurstUsers(a, b)),
             qb \in ServerOrders(b, a), ub \in Orders(BurstUsers(b, a)) :
        chan' = [l \in Link |->
                    CASE l = <<a, b>> -> Burst(a, qa, ua)
                      [] l = <<b, a>> -> Burst(b, qb, ub)
                      [] OTHER ->
                           IF l[1] = a /\ CanSend(a, l[2]) THEN Append(chan[l], ServerLine(b))
                           ELSE IF l[1] = b /\ CanSend(b, l[2]) THEN Append(chan[l], ServerLine(a))
                           ELSE chan[l]]
    BY DEF LinkUp
  <1>3. chan'[<<a, b>>] = Burst(a, qa, ua) /\ chan'[<<b, a>>] = Burst(b, qb, ub)
    BY <1>0, <1>2
  <1>4. Lists(a, b, chan'[<<a, b>>], qa)
    <2>1. Lists(a, b, Burst(a, qa, ua), qa)
      BY BurstForm
    <2> QED
      BY <1>3, <2>1
  <1>5. Lists(b, a, chan'[<<b, a>>], qb)
    <2>1. Lists(b, a, Burst(b, qb, ub), qb)
      BY BurstForm
    <2> QED
      BY <1>3, <2>1
  <1>6. ASSUME NEW q \in Neighbours(a) \ {b}
        PROVE  chan'[<<a, q>>] = IF CanSend(a, q) THEN Append(chan[<<a, q>>], ServerLine(b)) ELSE chan[<<a, q>>]
    <2>1. <<a, q>> \in Link /\ q # a
      BY Edge
    <2>2. <<a, q>> # <<a, b>> /\ <<a, q>> # <<b, a>>
      BY <1>0, <2>1
    <2> QED
      BY <1>0, <1>2, <2>1, <2>2
  <1>7. ASSUME NEW q \in Neighbours(b) \ {a}
        PROVE  chan'[<<b, q>>] = IF CanSend(b, q) THEN Append(chan[<<b, q>>], ServerLine(a)) ELSE chan[<<b, q>>]
    <2>1. <<b, q>> \in Link /\ q # b
      BY Edge
    <2>2. <<b, q>> # <<a, b>> /\ <<b, q>> # <<b, a>>
      BY <1>0, <2>1
    <2> QED
      BY <1>0, <1>2, <2>1, <2>2
  <1>8. \A l \in Link : l[1] # a /\ l[1] # b => chan'[l] = chan[l]
    <2> SUFFICES ASSUME NEW l \in Link, l[1] # a, l[1] # b
                 PROVE  chan'[l] = chan[l]
      OBVIOUS
    <2>1. l # <<a, b>> /\ l # <<b, a>>
      OBVIOUS
    <2> QED
      BY <1>2, <2>1
  <1>9. /\ lc[a][b] = "down" /\ lc[b][a] = "down" /\ b \notin servers[a] /\ a \notin servers[b]
        /\ lc' = [lc EXCEPT ![a][b] = "up", ![b][a] = "up"]
        /\ servers' = [servers EXCEPT ![a] = @ \cup {b}, ![b] = @ \cup {a}]
        /\ alive' = alive /\ byUid' = byUid /\ nick' = nick /\ nickTs' = nickTs
    BY DEF LinkUp
  <1>10. /\ servers'[a] = servers[a] \cup {b} /\ servers'[b] = servers[b] \cup {a}
         /\ \A z \in Server \ {a, b} : servers'[z] = servers[z]
    BY <1>0, <1>9 DEF TypeOK
  <1>11. /\ lc'[a][b] = "up" /\ lc'[b][a] = "up"
         /\ \A z, w \in Server : <<z, w>> # <<a, b>> /\ <<z, w>> # <<b, a>> => lc'[z][w] = lc[z][w]
    BY <1>0, <1>9 DEF TypeOK
  <1> QED
    BY <1>1, <1>4, <1>5, <1>6, <1>7, <1>8, <1>9, <1>10, <1>11 DEF Joined

\* Nobody behind the new link is known yet.
LEMMA NothingBehind ==
    ASSUME IInv, NEW a \in Server, NEW b \in Server, Joined(a, b)
    PROVE  /\ Via(b, a) = {} /\ Via(b, a)' = {a} /\ servers'[a] \cap Beyond(b, a) = servers[a] \cap Beyond(b, a)
           /\ \A u \in User : Home[u] \in Beyond(b, a) => u \notin byUid[b] /\ Home[u] \notin servers[b] /\ Copy(b, u) = << >>
  <1>1. /\ a \in Neighbours(b) /\ b \in Neighbours(a) /\ a # b /\ lc[b][a] = "down"
        /\ servers'[b] = servers[b] \cup {a} /\ servers'[a] = servers[a] \cup {b} /\ Route[b][a] = a
    BY Edge DEF Joined
  <1>2. \A t \in servers[b] : t \notin Beyond(b, a)
    BY <1>1 DEF IInv, ServerAnchored, Beyond
  <1>3. a \in Beyond(b, a) /\ b \notin Beyond(b, a)
    BY <1>1 DEF Beyond
  <1>4. Via(b, a) = {} /\ Via(b, a)' = {a}
    BY <1>1, <1>2, <1>3 DEF Via
  <1>5. ASSUME NEW u \in User, Home[u] \in Beyond(b, a)
        PROVE  u \notin byUid[b] /\ Home[u] \notin servers[b] /\ Copy(b, u) = << >>
    <2>1. Home[u] \notin servers[b] /\ Home[u] # b
      BY <1>2, <1>5 DEF Beyond
    <2>2. u \notin byUid[b]
      BY <2>1 DEF IInv, RemoteAnchored, Remote
    <2> QED
      BY <2>1, <2>2 DEF Copy
  <1> QED
    BY <1>1, <1>3, <1>4, <1>5

\* The new link starts with a burst.
LEMMA JoinNew ==
    ASSUME IInv, NEW a \in Server, NEW b \in Server, Joined(a, b)
    PROVE  ServerTrail(b, a)' /\ a \in servers'[b]
  <1>1. PICK d : d = chan'[<<a, b>>]
    OBVIOUS
  <1>2. PICK qs : Lists(a, b, d, qs)
    BY <1>1 DEF Joined
  <1>3. b \in Neighbours(a) /\ servers'[b] = servers[b] \cup {a}
    BY DEF Joined
  <1>4. Claimed(b, a, {a}, d) /\ ServersRead(b, {a}, d) = servers[a] \cap Beyond(b, a)
    BY <1>2, <1>3, BurstServersTrail
  <1>5. Via(b, a)' = {a} /\ servers'[a] \cap Beyond(b, a) = servers[a] \cap Beyond(b, a)
    BY NothingBehind
  <1> QED
    BY <1>1, <1>3, <1>4, <1>5 DEF ServerTrail

\* Everyone else beyond a is told of b.
LEMMA JoinTold ==
    ASSUME CInv, NEW a \in Server, NEW b \in Server, Joined(a, b), NEW s \in Neighbours(a), s # b
    PROVE  ServerTrail(s, a)' /\ (lc'[s][a] # "down" => a \in servers'[s])
  <1> DEFINE c == chan[<<a, s>>]
             m == ServerLine(b)
             x == Via(s, a)
  <1>0. IInv /\ TypeOK /\ Support
    BY DEF CInv, IInv
  <1>1. /\ s \in Server /\ s # a /\ <<a, s>> \in Link /\ a \in Neighbours(s) /\ Route[s][a] = a
        /\ b \in Neighbours(a) /\ b # a /\ <<a, b>> \in Link /\ Route[b][a] = a /\ Route[a][b] = b
    BY Edge DEF Joined
  <1>2. /\ servers'[s] = servers[s] /\ servers'[a] = servers[a] \cup {b}
        /\ lc'[s][a] = lc[s][a] /\ lc'[a][s] = lc[a][s] /\ b \notin servers[a]
        /\ chan'[<<a, s>>] = IF CanSend(a, s) THEN Append(c, m) ELSE c
    BY <1>1 DEF Joined
  <1>3. Via(s, a)' = x /\ x \in Sets
    BY <1>0, <1>1, <1>2, ViaForm DEF Via
  <1>4. c \in Seq(Msg) /\ m \in Msg /\ m.type = "SERVER" /\ m.sid = b
    BY <1>0, <1>1, LineFacts DEF ServerLine, Msg
  <1>5. lc[s][a] # "down" => a \in servers[s] /\ Claimed(s, a, x, c)
                             /\ (lc[a][s] = "up" => ServersRead(s, x, c) = servers[a] \cap Beyond(s, a))
    BY <1>1 DEF CInv, PeerKnown, ServersFollow, ServerTrail
  <1> HIDE DEF c, m, x
  <1>6. ASSUME lc[s][a] # "down", lc[a][s] = "up"
        PROVE  Claimed(s, a, x, Append(c, m)) /\ ServersRead(s, x, Append(c, m)) = servers'[a] \cap Beyond(s, a)
    <2> DEFINE y == servers[a] \cap Beyond(s, a)
    <2>1. Claimed(s, a, x, c) /\ ServersRead(s, x, c) = y
      BY <1>5, <1>6
    <2>2. b \in Beyond(s, a)
      <3>1. b \in Beyond(a, b)
        BY <1>1 DEF Beyond
      <3> QED
        BY <1>1, <3>1, Sideways
    <2>3. Route[b][s] = a
      <3>1. b # s /\ <<s, a>> \in Link
        BY <1>1, LinkSymmetric
      <3> QED
        BY <1>1, <3>1, RouteShared
    <2>4. a \in y
      BY <1>0, <1>1 DEF Beyond, Support
    <2>5. Claims(s, a, y, m)
      BY <1>1, <1>2, <1>4, <2>2, <2>3, <2>4 DEF Claims
    <2>6. ServersAfter(s, y, m) = servers'[a] \cap Beyond(s, a)
      BY <1>2, <1>4, <2>2 DEF ServersAfter
    <2> HIDE DEF y
    <2>7. Claimed(s, a, x, Append(c, m))
      BY <1>1, <1>3, <1>4, <2>1, <2>5, ClaimedOn
    <2>8. ServersRead(s, x, Append(c, m)) = ServersAfter(s, ServersRead(s, x, c), m)
      BY <1>1, <1>3, <1>4, ServersForm
    <2> QED
      BY <2>1, <2>6, <2>7, <2>8
  <1>7. ASSUME lc'[s][a] # "down"
        PROVE  /\ Claimed(s, a, Via(s, a)', chan'[<<a, s>>])
               /\ lc'[a][s] = "up" => ServersRead(s, Via(s, a)', chan'[<<a, s>>]) = servers'[a] \cap Beyond(s, a)
               /\ a \in servers'[s]
    <2>1. CASE lc[a][s] = "up"
      <3>1. chan'[<<a, s>>] = Append(c, m)
        BY <1>2, <1>7, <2>1 DEF CanSend
      <3> QED
        BY <1>2, <1>3, <1>5, <1>6, <1>7, <2>1, <3>1
    <2>2. CASE lc[a][s] # "up"
      <3>1. chan'[<<a, s>>] = c
        BY <1>2, <2>2 DEF CanSend
      <3> QED
        BY <1>2, <1>3, <1>5, <1>7, <2>2, <3>1
    <2> QED
      BY <2>1, <2>2
  <1> QED
    BY <1>7 DEF ServerTrail

\* A new link leaves the servers' trails over the other links alone, but for what it adds.
LEMMA JoinApart ==
    ASSUME CInv, NEW a \in Server, NEW b \in Server, Joined(a, b), NEW s \in Server, NEW p \in Neighbours(s), p # a, p # b
    PROVE  ServerTrail(s, p)' /\ (lc'[s][p] # "down" => p \in servers'[s])
  <1>1. /\ p \in Server /\ <<p, s>> \in Link /\ a # b /\ Route[a][b] = b /\ Route[b][a] = a
    BY Edge DEF Joined
  <1>2. /\ servers'[p] = servers[p] /\ lc'[s][p] = lc[s][p] /\ lc'[p][s] = lc[p][s] /\ chan'[<<p, s>>] = chan[<<p, s>>]
        /\ servers[s] \subseteq servers'[s] /\ servers'[s] \subseteq servers[s] \cup {a, b}
        /\ (s # a /\ s # b => servers'[s] = servers[s])
        /\ (s = a => servers'[s] = servers[s] \cup {b}) /\ (s = b => servers'[s] = servers[s] \cup {a})
    BY <1>1 DEF Joined
  <1>3. Via(s, p)' = Via(s, p)
    BY <1>1, <1>2 DEF Via, Beyond
  <1> QED
    BY <1>2, <1>3 DEF CInv, PeerKnown, ServersFollow, ServerTrail

\* netsync_link_up keeps the trails of the servers.
LEMMA JoinServers ==
    ASSUME CInv, NEW a \in Server, NEW b \in Server, Joined(a, b)
    PROVE  ServersFollow' /\ PeerKnown'
  <1>0. IInv /\ Joined(b, a)
    BY JoinSwap DEF CInv
  <1>1. ASSUME NEW s \in Server, NEW p \in Neighbours(s)
        PROVE  ServerTrail(s, p)' /\ (lc'[s][p] # "down" => p \in servers'[s])
    <2>1. s \in Neighbours(p) /\ p \in Server
      BY Edge
    <2>2. CASE p = a /\ s = b
      BY <1>0, <2>2, JoinNew
    <2>3. CASE p = b /\ s = a
      BY <1>0, <2>3, JoinNew
    <2>4. CASE p = a /\ s # b
      BY <2>1, <2>4, JoinTold
    <2>5. CASE p = b /\ s # a
      BY <1>0, <2>1, <2>5, JoinTold
    <2>6. CASE p # a /\ p # b
      BY <2>6, JoinApart
    <2> QED
      BY <2>2, <2>3, <2>4, <2>5, <2>6
  <1> QED
    BY <1>1 DEF ServersFollow, PeerKnown, Neighbours

\* A line more of a stream, at most.
Grown(l) == chan'[l] = chan[l] \/ \E m \in Msg : m.type = "SERVER" /\ chan'[l] = Append(chan[l], m)

\* A new link adds one SERVER line at most to any other.
LEMMA JoinLines ==
    ASSUME NEW a \in Server, NEW b \in Server, Joined(a, b), NEW l \in Link, l # <<a, b>>, l # <<b, a>>
    PROVE  Grown(l)
  <1>1. /\ ServerLine(a) \in Msg /\ ServerLine(a).type = "SERVER" /\ ServerLine(b) \in Msg /\ ServerLine(b).type = "SERVER"
    BY DEF ServerLine, Msg
  <1>2. PICK x \in Server, y \in Server : l = <<x, y>> /\ <<x, y>> \in Link
    BY DEF Link
  <1>3. <<y, x>> \in Link
    BY <1>2, LinkSymmetric
  <1>4. CASE x = a
    <2>1. y \in Neighbours(a) \ {b}
      BY <1>2, <1>3, <1>4 DEF Neighbours
    <2> QED
      BY <1>1, <1>2, <1>4, <2>1 DEF Joined, Grown
  <1>5. CASE x = b
    <2>1. y \in Neighbours(b) \ {a}
      BY <1>2, <1>3, <1>5 DEF Neighbours
    <2> QED
      BY <1>1, <1>2, <1>5, <2>1 DEF Joined, Grown
  <1>6. CASE x # a /\ x # b
    <2>1. l[1] # a /\ l[1] # b
      BY <1>2, <1>6
    <2> QED
      BY <2>1 DEF Joined, Grown
  <1> QED
    BY <1>4, <1>5, <1>6

\* The lines that were there, and that one.
LEMMA GrownLines ==
    ASSUME TypeOK, NEW l \in Link, Grown(l)
    PROVE  /\ \A i \in 1..Len(chan[l]) : i \in 1..Len(chan'[l]) /\ chan'[l][i] = chan[l][i]
           /\ \A i \in 1..Len(chan'[l]) :
                  chan'[l][i].type = "SERVER" \/ (i \in 1..Len(chan[l]) /\ chan'[l][i] = chan[l][i])
  <1>1. chan[l] \in Seq(Msg)
    BY LineFacts
  <1>2. CASE chan'[l] = chan[l]
    BY <1>2
  <1>3. ASSUME NEW m \in Msg, m.type = "SERVER", chan'[l] = Append(chan[l], m)
        PROVE  /\ \A i \in 1..Len(chan[l]) : i \in 1..Len(chan'[l]) /\ chan'[l][i] = chan[l][i]
               /\ \A i \in 1..Len(chan'[l]) :
                      chan'[l][i].type = "SERVER" \/ (i \in 1..Len(chan[l]) /\ chan'[l][i] = chan[l][i])
    <2> DEFINE c == chan[l]
               d == chan'[l]
    <2>0. c \in Seq(Msg) /\ d = Append(c, m)
      BY <1>1, <1>3
    <2> HIDE DEF c, d
    <2>1. /\ Len(c) \in Nat /\ Len(d) = Len(c) + 1 /\ d[Len(c) + 1] = m
          /\ \A i \in 1..Len(c) : d[i] = c[i]
      BY <2>0
    <2>2. \A i \in 1..Len(c) : i \in 1..Len(d)
      BY <2>1
    <2>3. \A i \in 1..Len(d) : i \in 1..Len(c) \/ i = Len(c) + 1
      BY <2>1
    <2> QED
      BY <1>3, <2>1, <2>2, <2>3 DEF c, d
  <1> QED
    BY <1>2, <1>3 DEF Grown

\* It says nothing of a user.
LEMMA GrownRead ==
    ASSUME TypeOK, NEW l \in Link, Grown(l), NEW s \in Server, NEW u \in User, NEW e \in Entry
    PROVE  Read(s, u, e, chan'[l]) = Read(s, u, e, chan[l])
  <1>1. chan[l] \in Seq(Msg)
    BY LineFacts
  <1>2. ASSUME NEW m \in Msg, m.type = "SERVER", chan'[l] = Append(chan[l], m)
        PROVE  Read(s, u, e, chan'[l]) = Read(s, u, e, chan[l])
    <2> DEFINE c == chan[l]
    <2>0. c \in Seq(Msg) /\ chan'[l] = Append(c, m)
      BY <1>1, <1>2
    <2> HIDE DEF c
    <2>1. Read(s, u, e, Append(c, m)) = After(s, u, Read(s, u, e, c), m)
      BY <2>0, ReadForm
    <2>2. Plain(m, u)
      BY <1>2 DEF Plain
    <2>3. After(s, u, Read(s, u, e, c), m) = Read(s, u, e, c)
      BY <2>2, AfterPlain
    <2> QED
      BY <2>0, <2>1, <2>3 DEF c
  <1> QED
    BY <1>2 DEF Grown

\* A burst contains no QUIT.
LEMMA ListsQuiet ==
    ASSUME NEW a, NEW b, NEW d, NEW qs, Lists(a, b, d, qs), NEW i \in 1..Len(d)
    PROVE  d[i].type # "QUIT"
  <1>1. Len(qs) \in Nat /\ d \in Seq(Msg)
    BY DEF Lists
  <1>2. Len(d) \in Nat
    BY <1>1
  <1>3. CASE i <= Len(qs)
    <2>1. i \in 1..Len(qs)
      BY <1>1, <1>2, <1>3
    <2>2. d[i] = ServerLine(qs[i])
      BY <2>1 DEF Lists
    <2> QED
      BY <2>2 DEF ServerLine
  <1>4. CASE i > Len(qs)
    <2>1. PICK v : d[i] = UidLine(v, nick[a][v], nickTs[a][v])
      BY <1>4 DEF Lists
    <2> QED
      BY <2>1 DEF UidLine
  <1> QED
    BY <1>1, <1>2, <1>3, <1>4

\* netsync_link_up sends no QUIT.
LEMMA JoinQuits ==
    ASSUME CInv, NEW a \in Server, NEW b \in Server, Joined(a, b)
    PROVE  QuitGone'
  <1> SUFFICES ASSUME NEW l \in Link, NEW i \in 1..Len(chan'[l]), chan'[l][i].type = "QUIT"
               PROVE  alive'[chan'[l][i].user] = "gone"
    BY DEF QuitGone
  <1>0. TypeOK /\ Joined(b, a) /\ alive' = alive
    <2>1. TypeOK
      BY DEF CInv, IInv
    <2>2. Joined(b, a)
      BY JoinSwap
    <2>3. alive' = alive
      BY DEF Joined
    <2> QED
      BY <2>1, <2>2, <2>3
  <1>1. l # <<a, b>>
    <2>1. PICK qs : Lists(a, b, chan'[<<a, b>>], qs)
      BY DEF Joined
    <2> QED
      BY <2>1, ListsQuiet
  <1>2. l # <<b, a>>
    <2>1. PICK qs : Lists(b, a, chan'[<<b, a>>], qs)
      BY DEF Joined
    <2> QED
      BY <2>1, ListsQuiet
  <1>3. Grown(l)
    BY <1>1, <1>2, JoinLines
  <1>4. i \in 1..Len(chan[l]) /\ chan'[l][i] = chan[l][i]
    BY <1>0, <1>3, GrownLines
  <1> QED
    BY <1>0, <1>4 DEF CInv, QuitGone

\* x is not at either end of the new link with u beyond the other.
Away(x, u, a, b) == ~(x = a /\ Up(x, u) = b) /\ ~(x = b /\ Up(x, u) = a)

\* What is said of u on any other link.
LEMMA JoinSame ==
    ASSUME CInv, NEW a \in Server, NEW b \in Server, Joined(a, b),
           NEW u \in User, NEW x \in Server, x # Home[u], Away(x, u, a, b)
    PROVE  /\ Killed(x, u) => Killed(x, u)'
           /\ Severed(x, u) => Severed(x, u)'
           /\ Live(x, Up(x, u))' <=> Live(x, Up(x, u))
           /\ Told(x, u)' = Told(x, u)
           /\ ~Severed(x, u)' => ~Severed(x, u)
  <1> DEFINE w == Up(x, u)
             i1 == <<w, x>>
             o1 == <<x, w>>
  <1>0. TypeOK /\ Support
    BY DEF CInv, IInv
  <1>1. w \in Server /\ w # x /\ i1 \in Link /\ o1 \in Link
    BY UpNext
  <1>2. i1 # <<a, b>> /\ i1 # <<b, a>> /\ o1 # <<a, b>> /\ o1 # <<b, a>>
    BY DEF Away
  <1>3. Grown(i1) /\ Grown(o1)
    BY <1>1, <1>2, JoinLines
  <1>4. /\ \A i \in 1..Len(chan[i1]) : i \in 1..Len(chan'[i1]) /\ chan'[i1][i] = chan[i1][i]
        /\ \A i \in 1..Len(chan[o1]) : i \in 1..Len(chan'[o1]) /\ chan'[o1][i] = chan[o1][i]
    BY <1>0, <1>1, <1>3, GrownLines
  <1>5. lc'[x][w] = lc[x][w] /\ lc'[w][x] = lc[w][x] /\ byUid' = byUid
    BY <1>1, <1>2 DEF Joined
  <1>6. Copy(x, u)' = Copy(x, u)
    BY DEF Joined, Copy
  <1>7. Killed(x, u) => Killed(x, u)'
    BY <1>4, <1>5 DEF Killed, Up
  <1>8. Severed(x, u) => Severed(x, u)'
    BY <1>4, <1>5 DEF Severed, Live, Splits, Up
  <1>9. Live(x, Up(x, u))' <=> Live(x, Up(x, u))
    BY <1>5 DEF Live, Up
  <1>10. Told(x, u)' = Told(x, u)
    <2>1. Copy(x, u) \in Entry
      BY <1>0, CopyType
    <2>2. Read(x, u, Copy(x, u), chan'[i1]) = Read(x, u, Copy(x, u), chan[i1])
      BY <1>0, <1>1, <1>3, <2>1, GrownRead
    <2> QED
      BY <1>6, <2>2 DEF Told, Up
  <1> QED
    BY <1>7, <1>8, <1>9, <1>10

\* Unless u is doomed, nobody below the new link who has heard of its server still does.
LEMMA JoinClimb ==
    ASSUME CInv, NEW a \in Server, NEW b \in Server, Joined(a, b), NEW u \in User, NEW w \in Server,
           b \in Path(w, Home[u]), b # Home[u], Up(b, u) = a, ~Doomed(w, u)'
    PROVE  Home[u] \notin servers[w]
  <1> SUFFICES ASSUME Home[u] \in servers[w]
               PROVE  FALSE
    OBVIOUS
  <1> DEFINE h == Home[u]
             C == {x \in Path(w, h) : b \in Path(x, h) /\ h \in servers[x]}
  <1>0. IInv /\ TypeOK /\ h \in Server /\ Joined(b, a) /\ a # b
    <2>1. Joined(b, a)
      BY JoinSwap
    <2>2. a # b
      BY Edge DEF Joined
    <2> QED
      BY <2>1, <2>2, HomeType DEF CInv, IInv
  <1>1. h \notin servers[b]
    <2>1. h \in Beyond(b, a)
      BY <1>0 DEF Beyond, Up
    <2> QED
      BY <1>0, <2>1, NothingBehind
  <1>2. C \subseteq Server /\ b \notin C /\ w \in C
    BY <1>1 DEF Path
  <1> HIDE DEF C
  <1>3. PICK x \in C : Route[x][b] \notin C
    BY <1>2, NoLoop
  <1>4. x \in Server /\ x # b /\ x \in Path(w, h) /\ b \in Path(x, h) /\ h \in servers[x]
    BY <1>2, <1>3 DEF C
  <1>5. x # h
    BY <1>4 DEF Path, IsBehind
  <1>6. Route[x][b] = Up(x, u)
    <2>1. IsBehind(x, h, b)
      BY <1>4 DEF Path
    <2> QED
      BY <1>0, <1>4, <1>5, <2>1, SideOf DEF Up
  <1> DEFINE y == Up(x, u)
  <1>7. y \in Server /\ y \in Neighbours(x) /\ y # x /\ y \in Path(x, h) /\ <<y, x>> \in Link
    BY <1>4, <1>5, UpNext
  <1>8. y \in Path(w, h)
    <2>1. Path(x, h) \subseteq Path(w, h)
      BY <1>0, <1>4, PathWithin
    <2> QED
      BY <1>7, <2>1
  <1>9. b \in Path(y, h)
    <2>1. Path(y, h) = Path(x, h) \ {x}
      BY <1>0, <1>4, <1>5, PathStep DEF Up
    <2> QED
      BY <1>4, <2>1
  <1>10. h \notin servers[y]
    BY <1>3, <1>6, <1>8, <1>9 DEF C
  <1>11. Away(x, u, a, b)
    <2>1. ASSUME x = a, Up(x, u) = b
          PROVE  FALSE
      <3>1. Route[a][h] = b /\ Route[b][h] = a /\ a # h
        BY <1>5, <2>1 DEF Up
      <3> QED
        BY <1>0, <3>1, RouteForward
    <2> QED
      BY <1>4, <2>1 DEF Away
  <1>12. ~Severed(x, u)
    <2>1. x \in Path(w, h) \ {h}
      BY <1>4, <1>5
    <2>2. ~Severed(x, u)'
      BY <2>1 DEF Doomed
    <2> QED
      BY <1>4, <1>5, <1>11, <2>2, JoinSame
  <1>13. lc[x][y] = "up" /\ lc[y][x] = "up" /\ \A i \in 1..Len(chan[<<y, x>>]) : ~Splits(x, u, chan[<<y, x>>][i])
    BY <1>12 DEF Severed, Live
  <1>14. ServersRead(x, Via(x, y), chan[<<y, x>>]) = servers[y] \cap Beyond(x, y)
    <2>1. ServerTrail(x, y)
      BY <1>4, <1>7 DEF CInv, ServersFollow
    <2> QED
      BY <1>13, <2>1 DEF ServerTrail
  <1>15. h \in Via(x, y)
    BY <1>0, <1>4, <1>5 DEF Via, Beyond, Up
  <1>16. \E i \in 1..Len(chan[<<y, x>>]) : chan[<<y, x>>][i].type = "SQUIT" /\ IsBehind(x, h, chan[<<y, x>>][i].sid)
    <2> DEFINE v == Via(x, y)
               q == chan[<<y, x>>]
    <2>1. v \in Sets /\ q \in Seq(Msg) /\ h \in v /\ h \notin ServersRead(x, v, q)
      BY <1>0, <1>4, <1>7, <1>10, <1>14, <1>15, ViaForm, LineFacts
    <2> HIDE DEF v, q, h
    <2>2. \E i \in 1..Len(q) : q[i].type = "SQUIT" /\ IsBehind(x, h, q[i].sid)
      BY <1>4, <2>1, SquitPending
    <2> QED
      BY <2>2 DEF q
  <1> QED
    BY <1>13, <1>16 DEF Splits

\* If a new link ends a user's doom, its server was not known there.
LEMMA JoinDoom ==
    ASSUME CInv, NEW a \in Server, NEW b \in Server, Joined(a, b), NEW u \in User, NEW z \in Server,
           Doomed(z, u), ~Doomed(z, u)'
    PROVE  Home[u] \notin servers[z]
  <1>1. ~Ending(u)
    <2>1. alive' = alive
      BY DEF Joined
    <2> QED
      BY <2>1 DEF Doomed, Ending
  <1>2. PICK x \in Path(z, Home[u]) \ {Home[u]} : Killed(x, u) \/ Severed(x, u)
    BY <1>1 DEF Doomed
  <1>3. x \in Server /\ x # Home[u] /\ x \in Path(z, Home[u])
    BY <1>2 DEF Path
  <1>4. ~Away(x, u, a, b)
    <2> SUFFICES ASSUME Away(x, u, a, b)
                 PROVE  FALSE
      OBVIOUS
    <2>1. Killed(x, u)' \/ Severed(x, u)'
      BY <1>2, <1>3, JoinSame
    <2> QED
      BY <1>2, <2>1 DEF Doomed
  <1>5. CASE x = b /\ Up(x, u) = a
    BY <1>3, <1>5, JoinClimb
  <1>6. CASE x = a /\ Up(x, u) = b
    <2>1. Joined(b, a)
      BY JoinSwap
    <2> QED
      BY <1>3, <1>6, <2>1, JoinClimb
  <1> QED
    BY <1>4, <1>5, <1>6 DEF Away

\* b hears all a knows of u in the burst.
LEMMA JoinNewUser ==
    ASSUME CInv, NEW a \in Server, NEW b \in Server, Joined(a, b), NEW u \in User, b # Home[u], Up(b, u) = a
    PROVE  UserTrail(b, u)'
  <1>0. IInv /\ TypeOK /\ Support
    BY DEF CInv, IInv
  <1>1. Home[u] \in Beyond(b, a)
    BY HomeType DEF Beyond, Up
  <1>2. Copy(b, u) = << >>
    BY <1>0, <1>1, NothingBehind
  <1>3. byUid' = byUid /\ alive' = alive /\ Copy(b, u)' = Copy(b, u) /\ Copy(a, u)' = Copy(a, u) /\ b \in Neighbours(a)
    BY DEF Joined, Copy
  <1>4. PICK d : d = chan'[<<a, b>>]
    OBVIOUS
  <1>5. PICK qs : Lists(a, b, d, qs)
    BY <1>4 DEF Joined
  <1>6. Read(b, u, << >>, d) = IF u \in BurstUsers(a, b) THEN Copy(a, u) ELSE << >>
    BY <1>0, <1>3, <1>5, BurstRead
  <1>7. Told(b, u)' = IF u \in BurstUsers(a, b) THEN Copy(a, u) ELSE << >>
    <2>1. Told(b, u)' = Read(b, u, Copy(b, u)', chan'[<<a, b>>])
      BY DEF Told, Up
    <2> QED
      BY <1>2, <1>3, <1>4, <1>6, <2>1
  <1>8. u \notin byUid[a] => Copy(a, u) = << >> /\ u \notin BurstUsers(a, b)
    BY DEF Copy, BurstUsers
  <1>9. CASE u \notin byUid[a]
    BY <1>3, <1>7, <1>8, <1>9 DEF UserTrail, Up
  <1>10. CASE u \in BurstUsers(a, b)
    <2>1. u \in byUid[a]
      BY <1>8, <1>10
    <2> QED
      BY <1>3, <1>7, <1>10, <2>1 DEF UserTrail, Up
  <1>11. CASE u \in byUid[a] /\ u \notin BurstUsers(a, b)
    <2>1. Ending(u)
      BY <1>0, <1>1, <1>3, <1>11, Unlisted
    <2>2. Doomed(a, u)'
      BY <1>3, <2>1 DEF Doomed, Ending
    <2> QED
      BY <1>3, <1>11, <2>2 DEF UserTrail, Up
  <1> QED
    BY <1>9, <1>10, <1>11

\* On every other link what was said still holds.
LEMMA JoinOldUser ==
    ASSUME CInv, NEW a \in Server, NEW b \in Server, Joined(a, b), NEW u \in User, NEW s \in Server, Away(s, u, a, b)
    PROVE  UserTrail(s, u)'
  <1> DEFINE w == Up(s, u)
  <1> SUFFICES ASSUME s # Home[u], Live(s, w)'
               PROVE  /\ Told(s, u)' = Copy(w, u)' \/ Killed(s, u)' \/ Doomed(w, u)'
                      /\ w = Home[u] /\ u \notin byUid'[Home[u]] => Told(s, u)' = << >>
    BY DEF UserTrail, Up
  <1>0. IInv /\ TypeOK /\ Support /\ Home[u] \in Server
    BY HomeType DEF CInv, IInv
  <1>1. w \in Server /\ w # s /\ w \in Neighbours(s) /\ <<w, s>> \in Link
    BY UpNext
  <1>2. byUid' = byUid /\ Copy(w, u)' = Copy(w, u)
    BY DEF Joined, Copy
  <1>3. /\ Killed(s, u) => Killed(s, u)'
        /\ Live(s, w)
        /\ Told(s, u)' = Told(s, u)
    BY JoinSame
  <1>4. /\ Told(s, u) = Copy(w, u) \/ Killed(s, u) \/ Doomed(w, u)
        /\ w = Home[u] /\ u \notin byUid[Home[u]] => Told(s, u) = << >>
    BY <1>3 DEF CInv, UsersFollow, UserTrail
  <1>5. ASSUME Doomed(w, u), ~Doomed(w, u)'
        PROVE  Told(s, u) = Copy(w, u)
    <2>1. Home[u] \notin servers[w]
      BY <1>1, <1>5, JoinDoom
    <2>2. w # Home[u]
      BY <1>0, <2>1 DEF Support
    <2>3. u \notin byUid[w]
      BY <1>0, <1>1, <2>1, <2>2 DEF IInv, RemoteAnchored, Remote
    <2>4. Copy(w, u) = << >>
      BY <2>3 DEF Copy
    <2> DEFINE v == Via(s, w)
               q == chan[<<w, s>>]
               e == Copy(s, u)
    <2>5. lc[s][w] # "down" /\ lc[w][s] = "up"
      BY <1>3 DEF Live
    <2>6. Claimed(s, w, v, q) /\ ServersRead(s, v, q) = servers[w] \cap Beyond(s, w)
      BY <1>1, <2>5 DEF CInv, ServersFollow, ServerTrail
    <2>7. v \in Sets /\ q \in Seq(Msg) /\ e \in Entry
      BY <1>0, <1>1, ViaForm, LineFacts, CopyType
    <2>8. Home[u] \notin v => e = << >>
      <3>1. Home[u] \in Beyond(s, w)
        BY <1>0 DEF Beyond, Up
      <3>2. u \in byUid[s] => Home[u] \in servers[s]
        BY <1>0 DEF IInv, RemoteAnchored, Remote
      <3> QED
        BY <3>1, <3>2 DEF Via, Copy
    <2>9. Home[u] \notin ServersRead(s, v, q)
      BY <2>1, <2>6
    <2> HIDE DEF v, q, e
    <2>10. Read(s, u, e, q) = << >>
      BY <2>6, <2>7, <2>8, <2>9, Absent
    <2> QED
      BY <2>4, <2>10 DEF Told, e, q, v, Up
  <1> QED
    BY <1>2, <1>3, <1>4, <1>5

\* netsync_link_up.
LEMMA LinkUpTrails ==
    ASSUME CInv, NEW a \in Server, NEW b \in Server, LinkUp(a, b)
    PROVE  CInv'
  <1>0. IInv /\ IInv'
    BY LinkUpKeeps DEF CInv
  <1>1. Joined(a, b)
    BY <1>0, JoinForm
  <1>2. Joined(b, a)
    BY <1>1, JoinSwap
  <1>3. ASSUME NEW s \in Server, NEW u \in User
        PROVE  UserTrail(s, u)'
    <2>1. CASE s = Home[u]
      BY <2>1 DEF UserTrail
    <2>2. CASE s # Home[u] /\ s = b /\ Up(s, u) = a
      BY <1>1, <2>2, JoinNewUser
    <2>3. CASE s # Home[u] /\ s = a /\ Up(s, u) = b
      BY <1>2, <2>3, JoinNewUser
    <2>4. CASE Away(s, u, a, b)
      BY <1>1, <2>4, JoinOldUser
    <2> QED
      BY <2>1, <2>2, <2>3, <2>4 DEF Away
  <1>4. UsersFollow'
    BY <1>3 DEF UsersFollow
  <1>5. ServersFollow' /\ PeerKnown'
    BY <1>1, JoinServers
  <1>6. QuitGone'
    BY <1>1, JoinQuits
  <1> QED
    BY <1>0, <1>4, <1>5, <1>6 DEF CInv

(***************************************************************************)
(* The trails hold, and what a quiet network knows.                        *)
(***************************************************************************)
\* In the beginning no link is up, and nothing is owed.
LEMMA InitCInv == Init => CInv
  <1> SUFFICES ASSUME Init
               PROVE  CInv
    OBVIOUS
  <1>1. \A s, p \in Server : lc[s][p] = "down"
    BY DEF Init
  <1>2. PeerKnown /\ ServersFollow
    BY <1>1 DEF PeerKnown, ServersFollow, ServerTrail, Neighbours
  <1>3. QuitGone
    <2>1. \A l \in Link : chan[l] = << >>
      BY DEF Init
    <2> QED
      BY <2>1 DEF QuitGone
  <1>4. ASSUME NEW s \in Server, NEW u \in User
        PROVE  UserTrail(s, u)
    <2>1. s # Home[u] => Up(s, u) \in Server
      BY UpNext
    <2> QED
      BY <1>1, <2>1 DEF UserTrail, Live
  <1> QED
    BY <1>2, <1>3, <1>4, InitIInv DEF CInv, UsersFollow

\* The trails depend on the state only.
LEMMA StutterCInv == CInv /\ UNCHANGED vars => CInv'
  <1> SUFFICES ASSUME CInv, UNCHANGED vars
               PROVE  CInv'
    OBVIOUS
  <1>1. /\ alive' = alive /\ byUid' = byUid /\ nick' = nick /\ nickTs' = nickTs /\ servers' = servers /\ lc' = lc
        /\ chan' = chan
    BY DEF vars
  <1>2. IInv'
    BY NextIInv DEF CInv
  <1>3. PeerKnown' /\ QuitGone'
    BY <1>1 DEF CInv, PeerKnown, QuitGone
  <1>4. ServersFollow'
    BY <1>1 DEF CInv, ServersFollow, ServerTrail, Via
  <1>5. ASSUME NEW s \in Server, NEW u \in User
        PROVE  UserTrail(s, u)'
    <2>1. /\ Live(s, Up(s, u))' <=> Live(s, Up(s, u))
          /\ Copy(s, u)' = Copy(s, u) /\ Copy(Up(s, u), u)' = Copy(Up(s, u), u)
      BY <1>1 DEF Live, Copy, Up
    <2>2. \A x : (Killed(x, u) => Killed(x, u)') /\ (Severed(x, u) => Severed(x, u)')
      BY <1>1 DEF Killed, Severed, Live, Splits, Up
    <2>3. Ending(u) => Ending(u)'
      BY <1>1 DEF Ending
    <2>4. Doomed(Up(s, u), u) => Doomed(Up(s, u), u)'
      BY <2>2, <2>3 DEF Doomed, Up
    <2>5. Told(s, u)' = Told(s, u)
      BY <1>1, <2>1 DEF Told, Up
    <2>6. UserTrail(s, u)
      BY DEF CInv, UsersFollow
    <2> QED
      BY <1>1, <2>1, <2>2, <2>4, <2>5, <2>6 DEF UserTrail
  <1> QED
    BY <1>2, <1>3, <1>4, <1>5 DEF CInv, UsersFollow

\* Every step keeps the trails.
LEMMA NextCInv == CInv /\ [Next]_vars => CInv'
  <1> SUFFICES ASSUME CInv, [Next]_vars
               PROVE  CInv'
    OBVIOUS
  <1>0. IInv'
    BY NextIInv DEF CInv
  <1>1. ASSUME NEW u \in User, NEW n \in Nick, NickUnregistered(u, n) PROVE CInv'
    BY <1>0, <1>1, NickUnregisteredTrails
  <1>2. ASSUME NEW u \in User, NEW t \in Time, Register(u, t) PROVE CInv'
    BY <1>0, <1>2, RegisterTrails
  <1>3. ASSUME NEW u \in User, NEW n \in Nick, NEW t \in Time, ServiceNick(u, n, t) PROVE CInv'
    BY <1>0, <1>3, ServiceNickTrails
  <1>4. ASSUME NEW u \in User, NEW n \in Nick, NEW t \in Time,
               NickRegistered(u, n, t) \/ SvsNick(u, n, t)
        PROVE  CInv'
    <2>1. Rename(u, n, t) /\ UNCHANGED alive
      BY <1>4 DEF NickRegistered, SvsNick, Rename
    <2> QED
      BY <1>0, <2>1, RenameTrails
  <1>5. ASSUME NEW u \in User, MarkQuit(u) PROVE CInv'
    BY <1>0, <1>5, MarkQuitTrails
  <1>6. ASSUME NEW u \in User, Teardown(u) \/ ServiceGone(u) PROVE CInv'
    <2>1. RemoveLocal(u)
      BY <1>6 DEF Teardown, ServiceGone
    <2> QED
      BY <1>0, <2>1, RemoveLocalTrails
  <1>7. CASE ClientStep
    BY <1>1, <1>2, <1>3, <1>4, <1>5, <1>6, <1>7 DEF ClientStep
  <1>8. ASSUME NEW s \in Server, NEW u \in User, OperKill(s, u) PROVE CInv'
    BY <1>8, OperKillTrails
  <1>9. ASSUME NEW s \in Server, NEW p \in Server, Receive(s, p) PROVE CInv'
    BY <1>9, HandleUidTrails, HandleNickTrails, HandleQuitTrails, HandleKillTrails,
       HandleServerTrails, HandleSquitTrails DEF Receive
  <1>10. ASSUME NEW s \in Server, NEW p \in Server, CloseLink(s, p) \/ ReadEof(s, p) PROVE CInv'
    <2>1. /\ lc[s][p] = "up" /\ lc' = [lc EXCEPT ![s][p] = "closing"]
          /\ UNCHANGED <<alive, users, byUid, nick, nickTs, servers, chan>>
      BY <1>10 DEF CloseLink, ReadEof
    <2> QED
      BY <1>0, <2>1, ClosingTrails
  <1>11. ASSUME NEW s \in Server, NEW p \in Server, LinkUp(s, p) \/ Reap(s, p) PROVE CInv'
    BY <1>11, LinkUpTrails, ReapTrails
  <1>12. CASE UNCHANGED vars
    BY <1>12, StutterCInv
  <1> QED
    BY <1>7, <1>8, <1>9, <1>10, <1>11, <1>12 DEF Next

\* In a quiet network every server has of a live user what its own server has.
LEMMA QuietCopies ==
    ASSUME CInv, Quiet, NEW u \in User, Registered(u)
    PROVE  alive[u] = "open" /\ \A s \in Server : Copy(s, u) = Copy(Home[u], u)
  <1> DEFINE h == Home[u]
             C == {s \in Server : Copy(s, u) # Copy(h, u)}
  <1>0. IInv /\ TypeOK /\ Support /\ h \in Server /\ u \in byUid[h]
    BY HomeType DEF CInv, IInv, Registered
  <1>1. alive[u] = "open"
    BY <1>0 DEF Support, Remote, Quiet
  <1>2. \A l \in Link : lc[l[1]][l[2]] = "up" /\ chan[l] = << >>
    BY DEF Quiet
  <1>3. ASSUME NEW x \in Server, x # h
        PROVE  /\ Up(x, u) \in Server /\ Live(x, Up(x, u)) /\ chan[<<Up(x, u), x>>] = << >>
               /\ ~Killed(x, u) /\ ~Severed(x, u)
    <2>1. Up(x, u) \in Server /\ <<x, Up(x, u)>> \in Link /\ <<Up(x, u), x>> \in Link
      BY <1>3, UpNext
    <2>2. lc[x][Up(x, u)] = "up" /\ lc[Up(x, u)][x] = "up" /\ chan[<<Up(x, u), x>>] = << >> /\ chan[<<x, Up(x, u)>>] = << >>
      BY <1>2, <2>1
    <2> QED
      BY <2>1, <2>2 DEF Live, Killed, Severed
  <1>4. \A z : ~Doomed(z, u)
    BY <1>1, <1>3 DEF Doomed, Ending, Path
  <1>5. ASSUME NEW x \in Server, x # h
        PROVE  Copy(x, u) = Copy(Up(x, u), u)
    <2>1. UserTrail(x, u)
      BY DEF CInv, UsersFollow
    <2>2. Told(x, u) = Copy(Up(x, u), u)
      BY <1>3, <1>4, <1>5, <2>1 DEF UserTrail
    <2>3. Copy(x, u) \in Entry /\ << >> \in Seq(Msg)
      BY <1>0, CopyType
    <2>4. Read(x, u, Copy(x, u), << >>) = Copy(x, u)
      BY <2>3, ReadForm
    <2> QED
      BY <1>3, <1>5, <2>2, <2>4 DEF Told
  <1>6. C = {}
    <2> SUFFICES ASSUME C # {}
                 PROVE  FALSE
      OBVIOUS
    <2>1. C \subseteq Server /\ h \notin C
      OBVIOUS
    <2> HIDE DEF C
    <2>2. PICK x \in C : Route[x][h] \notin C
      BY <1>0, <2>1, NoLoop
    <2>3. x \in Server /\ x # h /\ Copy(x, u) # Copy(h, u)
      BY <2>1, <2>2 DEF C
    <2>4. Copy(Up(x, u), u) = Copy(h, u)
      BY <1>3, <2>2, <2>3 DEF C, Up
    <2> QED
      BY <1>5, <2>3, <2>4
  <1> QED
    BY <1>1, <1>6

\* What is known at each end of every link, and what is in flight between them, add
\* up, whatever the handlers, bursts, netsplits and teardowns do, and in any order.
THEOREM Trails == Spec => []CInv
  BY InitCInv, NextCInv, PTL DEF Spec

\* Two servers' entries of a user are the same only if both file it alike.
LEMMA CopyAlike ==
    ASSUME TypeOK, Support, NEW s \in Server, NEW t \in Server, NEW u \in User, Copy(s, u) = Copy(t, u)
    PROVE  /\ u \in byUid[s] <=> u \in byUid[t]
           /\ u \in byUid[s] => nick[s][u] = nick[t][u] /\ nickTs[s][u] = nickTs[t][u]
  <1>1. u \in byUid[s] <=> u \in byUid[t]
    BY CopyType
  <1>2. ASSUME u \in byUid[s]
        PROVE  nick[s][u] = nick[t][u] /\ nickTs[s][u] = nickTs[t][u]
    <2>1. Copy(s, u) = <<nick[s][u], nickTs[s][u]>> /\ Copy(t, u) = <<nick[t][u], nickTs[t][u]>>
      BY <1>1, <1>2 DEF Copy
    <2>2. <<nick[s][u], nickTs[s][u]>> = <<nick[t][u], nickTs[t][u]>>
      BY <2>1
    <2> QED
      BY <2>2
  <1> QED
    BY <1>1, <1>2

\* A network that has come to rest knows every user that is on it, on every server,
\* by the nick and the timestamp its own server has: no line of netsync.c that
\* renames, collides, splits or bursts leaves a live user behind, on any tree.
THEOREM LiveKnownHolds == Spec => []LiveKnown
  <1>1. CInv => LiveKnown
    <2> SUFFICES ASSUME CInv, Quiet, NEW u \in User, OnNetwork(u), NEW s \in Server
                 PROVE  /\ u \in byUid[s]
                        /\ nick[s][u] = nick[Home[u]][u] /\ nickTs[s][u] = nickTs[Home[u]][u]
      BY DEF LiveKnown
    <2>1. Registered(u) /\ u \in byUid[Home[u]] /\ Home[u] \in Server
      BY HomeType DEF OnNetwork, Registered
    <2>2. Copy(s, u) = Copy(Home[u], u)
      BY <2>1, QuietCopies
    <2> QED
      BY <2>1, <2>2, CopyAlike DEF CInv, IInv
  <1> QED
    BY <1>1, Trails, PTL

\* In a quiet network the servers next to a user's own know it if it is on the
\* network, by its nick and timestamp there, and only then.
NextDoor ==
    Quiet => \A u \in User : \A s \in Neighbours(Home[u]) :
        /\ u \in byUid[s] <=> OnNetwork(u)
        /\ u \in byUid[s] => /\ nick[s][u] = nick[Home[u]][u]
                             /\ nickTs[s][u] = nickTs[Home[u]][u]

\* No collision, KILL, QUIT or netsplit leaves a user that is gone behind next door,
\* whatever lines crossed: server_remove_client tells every neighbour, and what a
\* neighbour still has to read from the user's own server is never overtaken.
THEOREM NextDoorHolds == Spec => []NextDoor
  <1>1. CInv => NextDoor
    <2> SUFFICES ASSUME CInv, Quiet, NEW u \in User, NEW s \in Neighbours(Home[u])
                 PROVE  /\ u \in byUid[s] <=> OnNetwork(u)
                        /\ u \in byUid[s] => /\ nick[s][u] = nick[Home[u]][u]
                                             /\ nickTs[s][u] = nickTs[Home[u]][u]
      BY DEF NextDoor
    <2> DEFINE h == Home[u]
    <2>1. IInv /\ TypeOK /\ Support /\ OpenHoldsNick /\ h \in Server
      BY HomeType DEF CInv, IInv
    <2>2. s \in Server /\ s # h /\ <<h, s>> \in Link /\ <<s, h>> \in Link /\ Up(s, u) = h
      BY <2>1, Edge DEF Up
    <2>3. CASE u \in byUid[h]
      <3>1. Registered(u)
        BY <2>3 DEF Registered
      <3>2. alive[u] = "open" /\ Copy(s, u) = Copy(h, u)
        BY <2>2, <3>1, QuietCopies
      <3>3. OnNetwork(u)
        BY <2>1, <3>1, <3>2 DEF OpenHoldsNick, OnNetwork
      <3> QED
        BY <2>1, <2>2, <2>3, <3>2, <3>3, CopyAlike
    <2>4. CASE u \notin byUid[h]
      <3>1. lc[s][h] = "up" /\ lc[h][s] = "up" /\ chan[<<h, s>>] = << >>
        BY <2>2 DEF Quiet
      <3>2. UserTrail(s, u)
        BY <2>2 DEF CInv, UsersFollow
      <3>3. Told(s, u) = << >>
        BY <2>2, <2>4, <3>1, <3>2 DEF UserTrail, Live
      <3>4. Copy(s, u) \in Entry /\ << >> \in Seq(Msg)
        BY <2>1, <2>2, CopyType
      <3>5. Read(s, u, Copy(s, u), << >>) = Copy(s, u)
        BY <2>2, <3>4, ReadForm
      <3>6. Copy(s, u) = << >>
        BY <2>2, <3>1, <3>3, <3>5 DEF Told
      <3>7. u \notin byUid[s]
        BY <2>1, <2>2, <3>6, CopyType
      <3> QED
        BY <2>4, <3>7 DEF OnNetwork, Registered
    <2> QED
      BY <2>3, <2>4
  <1> QED
    BY <1>1, Trails, PTL

\* Every server is linked to every other one.
Adjacent == \A s, t \in Server : s # t => <<s, t>> \in Link

\* Servers that are all linked to each other agree on who is on the network once it
\* is quiet. Further apart they need not: a server that dropped the loser of a
\* collision ignores the QUIT that comes back (handle_quit), and one beyond it keeps
\* the user (nick_ghost.cfg).
THEOREM ConvergedHolds == Spec => [](Adjacent => Converged)
  <1>1. NextDoor => (Adjacent => Converged)
    <2> SUFFICES ASSUME NextDoor, Adjacent, Quiet, NEW u \in User, NEW s \in Server \ {Home[u]}
                 PROVE  /\ u \in byUid[s] <=> OnNetwork(u)
                        /\ u \in byUid[s] => /\ nick[s][u] = nick[Home[u]][u]
                                             /\ nickTs[s][u] = nickTs[Home[u]][u]
      BY DEF Converged
    <2>1. s \in Neighbours(Home[u])
      BY HomeType DEF Adjacent, Neighbours
    <2> QED
      BY <2>1 DEF NextDoor
  <1> QED
    BY <1>1, NextDoorHolds, PTL
=============================================================================
