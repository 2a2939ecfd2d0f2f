---------------------------- MODULE ChanNetProofs ----------------------------
(***************************************************************************)
(* Proofs about ChanNet, for every tree of servers, any users and any      *)
(* workload: each server's copy of the channel is sound by itself, and     *)
(* servers that have heard everything list the same members.               *)
(*                                                                         *)
(* Both rest on the order of the lines on a link.  The lines on the way    *)
(* from p to s, applied one after the other to what s has of the users     *)
(* beyond p, lead to what p has of them; and when s comes to an SJOIN or   *)
(* JOIN, it knows whom the line is about.                                  *)
(***************************************************************************)
EXTENDS ChanNet, FiniteSetTheorems, SequenceTheorems, WellFoundedInduction, TLAPS

(***************************************************************************)
(* The tree.                                                               *)
(***************************************************************************)
Neighbours(s) == {p \in Server : <<p, s>> \in Link}
\* The users whose lines come to s from p.
Beyond(s, p) == {u \in User : Home[u] # s /\ Route[s][Home[u]] = p}

LEMMA Edge ==
    ASSUME NEW s \in Server, NEW p \in Neighbours(s)
    PROVE  p \in Server /\ p # s /\ <<p, s>> \in Link /\ <<s, p>> \in Link /\ Route[s][p] = p /\ Route[p][s] = s
           /\ s \in Neighbours(p)
<1>1. p \in Server /\ <<p, s>> \in Link  BY DEF Neighbours
<1>2. <<s, p>> \in Link  BY <1>1, LinkSymmetric
<1> QED  BY <1>1, <1>2 DEF Link, Neighbours

LEMMA Hop ==
    ASSUME NEW x \in Server, NEW s \in Server, x # s
    PROVE  Route[x][s] \in Neighbours(x)
<1>1. Route[x][s] \in Server /\ <<x, Route[x][s]>> \in Link  BY RouteType, RouteAdjacent
<1> QED  BY <1>1, LinkSymmetric DEF Neighbours

\* Going on towards s, one leaves every set of servers without s.
LEMMA NoLoop ==
    ASSUME NEW s \in Server, NEW C \in SUBSET Server, C # {}, s \notin C
    PROVE  \E x \in C : Route[x][s] \notin C
<1> SUFFICES ASSUME \A x \in C : Route[x][s] \in C  PROVE FALSE  OBVIOUS
<1> DEFINE Closed(D) == D \subseteq Server /\ D # {} /\ s \notin D /\ \A x \in D : Route[x][s] \in D
           Sizes == {Cardinality(D) : D \in {D \in SUBSET Server : Closed(D)}}
<1>1. \A D \in SUBSET Server : IsFiniteSet(D) /\ Cardinality(D) \in Nat
  BY ServerFinite, FS_Subset, FS_CardinalityType
<1>2. Sizes \subseteq Nat /\ Sizes # {}
  <2>1. Sizes \subseteq Nat  BY <1>1
  <2>2. Cardinality(C) \in Sizes  OBVIOUS
  <2> QED  BY <2>1, <2>2
<1>3. PICK n \in Sizes : \A m \in Sizes : ~(<<m, n>> \in OpToRel(<, Nat))
  <2> HIDE DEF Sizes
  <2> QED  BY <1>2, NatLessThanWellFounded, WFMin
<1>4. PICK D \in SUBSET Server : Closed(D) /\ n = Cardinality(D)  OBVIOUS
<1>5. PICK r \in D : TRUE  BY <1>4
<1> DEFINE T == {w \in D : w # r /\ Route[r][w] = Route[r][s]}
<1>6. Route[r][s] \in T
  <2>1. Route[r][s] \in Neighbours(r) /\ Route[r][s] \in D  BY <1>4, <1>5, Hop
  <2>2. Route[r][s] # r /\ Route[r][Route[r][s]] = Route[r][s]  BY <1>4, <1>5, <2>1, Edge
  <2> QED  BY <2>1, <2>2
<1>7. ASSUME NEW w \in T  PROVE Route[w][s] \in T
  <2> DEFINE z == Route[w][s]
  <2>1. w \in Server /\ r \in Server /\ w # s /\ w # r /\ z \in D /\ z \in Neighbours(w)  BY <1>4, <1>5, Hop
  <2>2. z \in Server /\ <<w, z>> \in Link /\ z # w  BY <2>1, Edge
  <2>3. z # r
    <3> SUFFICES ASSUME z = r  PROVE FALSE  OBVIOUS
    <3>1. Route[r][w] = w  BY <2>1, Edge
    <3>2. Route[r][s] = w  BY <3>1
    <3>3. r # s  BY <1>4, <1>5
    <3> QED  BY <2>1, <3>2, <3>3, RouteForward
  <2>4. Route[r][w] = Route[r][z]  BY <2>1, <2>2, <2>3, RouteShared
  <2> QED  BY <2>1, <2>3, <2>4
<1>8. Closed(T)  BY <1>4, <1>6, <1>7
<1>9. T \in SUBSET D /\ T # D  BY <1>5
<1>10. Cardinality(T) < n /\ Cardinality(T) \in Nat /\ n \in Nat
  <2> HIDE DEF T
  <2>1. IsFiniteSet(D) /\ Cardinality(D) \in Nat  BY <1>1
  <2>2. IsFiniteSet(T) /\ Cardinality(T) <= Cardinality(D) /\ Cardinality(T) # Cardinality(D)  BY <1>9, <2>1, FS_Subset
  <2>3. Cardinality(T) \in Nat  BY <2>2, FS_CardinalityType
  <2> QED  BY <1>4, <2>1, <2>2, <2>3
<1>11. Cardinality(T) \in Sizes
  <2>1. T \in SUBSET Server  BY <1>4
  <2> HIDE DEF T, Closed
  <2> QED  BY <1>8, <2>1
<1> HIDE DEF Sizes, T
<1>12. <<Cardinality(T), n>> \in OpToRel(<, Nat)  BY <1>10 DEF OpToRel
<1> QED  BY <1>3, <1>11, <1>12

\* Whoever is behind t is reached from s the way t is.
LEMMA SideOf ==
    ASSUME NEW s \in Server, NEW t \in Server, NEW x \in Server, t # s, x # s, IsBehind(s, x, t)
    PROVE  Route[s][x] = Route[s][t]
<1> DEFINE C == {y \in Server : y # s /\ y # t /\ Route[t][y] # Route[t][s] /\ Route[s][y] # Route[s][t]}
<1> SUFFICES ASSUME Route[s][x] # Route[s][t]  PROVE FALSE  OBVIOUS
<1>1. x \in C  BY DEF IsBehind
<1>2. PICK y \in C : Route[y][s] \notin C
  <2>1. C \in SUBSET Server /\ s \notin C /\ C # {}  BY <1>1
  <2> HIDE DEF C
  <2> QED  BY <2>1, NoLoop
<1> DEFINE z == Route[y][s]
<1>3. z \in Neighbours(y)  BY <1>2, Hop
<1>4. z \in Server /\ z # y /\ <<z, y>> \in Link  BY <1>3, Edge
<1>5. CASE z = s  BY <1>2, <1>4, <1>5, RouteShared
<1>6. CASE z = t  BY <1>2, <1>4, <1>6, RouteShared
<1>7. CASE z # s /\ z # t
  <2>1. Route[s][z] = Route[s][y] /\ Route[t][z] = Route[t][y]  BY <1>2, <1>4, <1>7, RouteShared
  <2> QED  BY <1>2, <1>4, <1>7, <2>1
<1> QED  BY <1>5, <1>6, <1>7

\* What src_user tests holds of the users beyond a neighbour, and remove_server_tree's of nobody else.
LEMMA Behind ==
    ASSUME NEW s \in Server, NEW p \in Neighbours(s), NEW u \in User
    PROVE  u \in Beyond(s, p) <=> Home[u] # s /\ IsBehind(s, Home[u], p)
<1>1. Home[u] \in Server  BY HomeType
<1>2. p \in Server /\ p # s /\ Route[s][p] = p /\ Route[p][s] = s  BY Edge
<1>3. Home[u] # s /\ IsBehind(s, Home[u], p) => u \in Beyond(s, p)  BY <1>1, <1>2, SideOf DEF Beyond
<1>4. u \in Beyond(s, p) => Home[u] # s /\ IsBehind(s, Home[u], p)
  <2> SUFFICES ASSUME Home[u] # s, Route[s][Home[u]] = p, Home[u] # p  PROVE Route[p][s] # Route[p][Home[u]]
    BY <1>2 DEF Beyond, IsBehind
  <2> QED  BY <1>1, <1>2, RouteForward
<1> QED  BY <1>3, <1>4

\* Ours, in a burst to q, are those who are beyond s for q: everyone but those beyond q.
LEMMA OursBeyond ==
    ASSUME NEW s \in Server, NEW q \in Neighbours(s), NEW u \in User
    PROVE  (u \in Beyond(q, s) <=> ~IsBehind(s, Home[u], q)) /\ (u \in Beyond(q, s) <=> u \notin Beyond(s, q))
<1>1. Home[u] \in Server  BY HomeType
<1>2. q \in Server /\ q # s /\ Route[q][s] = s /\ Route[s][q] = q  BY Edge
<1>3. u \in Beyond(q, s) <=> ~IsBehind(s, Home[u], q)  BY <1>1, <1>2 DEF Beyond, IsBehind
<1>4. Home[u] = s => ~IsBehind(s, Home[u], q)  BY <1>1, <1>2 DEF IsBehind
<1> QED  BY <1>3, <1>4, Behind

\* The users beyond one neighbour are not beyond another; a server is reached the same way from next to it.
LEMMA Apart ==
    ASSUME NEW s \in Server, NEW p, NEW q, p # q
    PROVE  Beyond(s, p) \cap Beyond(s, q) = {}
  BY DEF Beyond

LEMMA Onward ==
    ASSUME NEW s \in Server, NEW q \in Neighbours(s), NEW t \in Server, t = s \/ Route[s][t] # q
    PROVE  t # q /\ Route[q][t] = s
<1>1. q \in Server /\ q # s /\ Route[s][q] = q /\ Route[q][s] = s  BY Edge
<1>2. CASE t = s  BY <1>1, <1>2
<1>3. CASE t # s
  <2>1. t # q  BY <1>1, <1>3
  <2>2. IsBehind(q, t, s)  BY <1>1, <1>3, <2>1 DEF IsBehind
  <2> QED  BY <1>1, <2>1, <2>2, SideOf
<1> QED  BY <1>2, <1>3

\* With the servers behind t go users beyond the neighbour that leads to t, and both ends of a link mean the same.
Gone(s, t) == {u \in User : IsBehind(s, Home[u], t)}
LEMMA GoneForm ==
    ASSUME NEW s \in Server, NEW t \in Server, t # s
    PROVE  /\ \A u \in Gone(s, t) : Home[u] # s /\ Route[s][Home[u]] = Route[s][t]
           /\ \A p \in Neighbours(s) : t # p => Gone(s, t) = Gone(p, t)
<1>1. ASSUME NEW u \in Gone(s, t)  PROVE Home[u] # s /\ Route[s][Home[u]] = Route[s][t]
  <2>1. u \in User /\ Home[u] \in Server /\ IsBehind(s, Home[u], t)  BY HomeType DEF Gone
  <2>2. Home[u] # s  BY <2>1 DEF IsBehind
  <2> QED  BY <2>1, <2>2, SideOf
<1>2. ASSUME NEW p \in Neighbours(s), t # p  PROVE Gone(s, t) = Gone(p, t)
  <2>1. p \in Server /\ <<p, s>> \in Link  BY Edge
  <2>2. Route[t][p] = Route[t][s]  BY <1>2, <2>1, RouteShared
  <2> QED  BY <1>2, <2>2 DEF Gone, IsBehind
<1> QED  BY <1>1, <1>2

(***************************************************************************)
(* What is on a link: the lines from p, read by s, take what s has of the  *)
(* users beyond p from x to r.  There are two such things: the users s     *)
(* knows, and the members of the channel.                                  *)
(***************************************************************************)
Moved(k, s, x, m) ==
    IF m.type = "UID" /\ k = "known" THEN x \cup m.users
    ELSE IF m.type = "QUIT" \/ (m.type = "PART" /\ k = "member") THEN x \ {m.user}
    ELSE IF m.type = "SQUIT" THEN x \ Gone(s, m.sid)
    ELSE IF m.type = "SJOIN" /\ k = "member" THEN x \cup m.members
    ELSE IF m.type = "JOIN" /\ k = "member" THEN x \cup {m.user}
    ELSE x
\* Whom an SJOIN or a JOIN is about is known; and no KICK is trusted to name a member.
Claims(k, s, p, x, m) ==
    IF k = "known"
    THEN /\ m.type # "KILL"
         /\ m.type = "UID" => m.users \subseteq Beyond(s, p)
         /\ m.type = "SQUIT" => m.sid # s /\ m.sid # p /\ Route[s][m.sid] = p
         /\ m.type = "SJOIN" => m.members # {} /\ m.members \subseteq x
         /\ m.type = "JOIN" => m.user \in x
    ELSE m.type # "KICK"
Passes(h, k, s, p, x, q, r) ==
    /\ h \in [0..Len(q) -> SUBSET User] /\ h[0] = x /\ h[Len(q)] = r
    /\ \A i \in 1..Len(q) : h[i] = Moved(k, s, h[i - 1], q[i]) /\ Claims(k, s, p, h[i - 1], q[i])
Leads(k, s, p, x, q, r) == \E h : Passes(h, k, s, p, x, q, r)
\* As long as p's end is up, to what p has now.
Trail(k, s, p, x, q, y, live) == \E r : Leads(k, s, p, x, q, r) /\ (live => r = y)

LEMMA MsgForm ==
    ASSUME NEW m \in Msg
    PROVE  /\ m.type = "UID" => m.users \subseteq User
           /\ m.type \in {"QUIT", "KILL", "PART", "JOIN", "KICK", "TOPIC", "MODE"} => m.user \in User
           /\ m.type = "SQUIT" => m.sid \in Server
           /\ m.type = "SJOIN" => /\ m.members \subseteq User /\ m.ops \subseteq User /\ m.ts \in Time
                                  /\ m.flags \subseteq Flag /\ m.key \in Key \cup {NoKey}
           /\ m.type = "BMASK" => m.ts \in Time /\ m.masks \subseteq User
           /\ m.type = "TB" => m.ts \in Time /\ m.topic \in Topic
           /\ m.type = "JOIN" => m.ts \in Time
           /\ m.type = "KICK" => m.target \in User
           /\ m.type = "TOPIC" => m.topic \in Topic
           /\ m.type = "MODE" => m.change \in Change
  BY DEF Msg

LEMMA MovedType ==
    ASSUME NEW m \in Msg, NEW x \in SUBSET User, NEW k, NEW s
    PROVE  Moved(k, s, x, m) \in SUBSET User
<1>1. m.type = "UID" => m.users \subseteq User  BY MsgForm
<1>2. m.type = "SJOIN" => m.members \subseteq User  BY MsgForm
<1>3. m.type = "JOIN" => m.user \in User  BY MsgForm
<1> QED  BY <1>1, <1>2, <1>3 DEF Moved

LEMMA LeadsNowhere ==
    ASSUME NEW k, NEW s, NEW p, NEW x \in SUBSET User
    PROVE  Leads(k, s, p, x, << >>, x)
<1> DEFINE h == [i \in 0..0 |-> x]
<1>1. Len(<< >>) = 0 /\ 0..Len(<< >>) = {0} /\ 1..Len(<< >>) = {}  OBVIOUS
<1>2. h \in [0..Len(<< >>) -> SUBSET User] /\ h[0] = x  BY <1>1
<1>3. Passes(h, k, s, p, x, << >>, x)  BY <1>1, <1>2 DEF Passes
<1> QED  BY <1>3 DEF Leads

LEMMA LeadsEnds ==
    ASSUME NEW k, NEW s, NEW p, NEW x, NEW q \in Seq(Msg), NEW r, Leads(k, s, p, x, q, r)
    PROVE  r \in SUBSET User /\ (q = << >> => x = r)
<1>1. PICK h : Passes(h, k, s, p, x, q, r)  BY DEF Leads
<1>2. Len(q) \in Nat /\ Len(q) \in 0..Len(q)  OBVIOUS
<1>3. q = << >> => Len(q) = 0  OBVIOUS
<1> QED  BY <1>1, <1>2, <1>3 DEF Passes

LEMMA LeadsOn ==
    ASSUME NEW k, NEW s, NEW p, NEW x, NEW q \in Seq(Msg), NEW r, Leads(k, s, p, x, q, r),
           NEW m \in Msg, Claims(k, s, p, r, m)
    PROVE  Leads(k, s, p, x, Append(q, m), Moved(k, s, r, m))
<1>1. PICK h : Passes(h, k, s, p, x, q, r)  BY DEF Leads
<1> DEFINE n == Len(q)
           t == Append(q, m)
           g == [i \in 0..(n + 1) |-> IF i = n + 1 THEN Moved(k, s, r, m) ELSE h[i]]
<1>2. n \in Nat /\ Len(t) = n + 1 /\ t[n + 1] = m /\ \A i \in 1..n : t[i] = q[i]
  BY AppendProperties
<1>3. Moved(k, s, r, m) \in SUBSET User  BY LeadsEnds, MovedType
<1>4. /\ \A i \in 0..n : h[i] \in SUBSET User /\ g[i] = h[i]
      /\ g[n + 1] = Moved(k, s, r, m) /\ h[0] = x /\ h[n] = r
  BY <1>1, <1>2 DEF Passes
<1>5. g \in [0..Len(t) -> SUBSET User]  BY <1>1, <1>2, <1>3 DEF Passes
<1> HIDE DEF g, t
<1>6. ASSUME NEW i \in 1..Len(t)  PROVE g[i] = Moved(k, s, g[i - 1], t[i]) /\ Claims(k, s, p, g[i - 1], t[i])
  <2>1. CASE i = n + 1
    <3>1. i - 1 = n /\ n \in 0..n  BY <1>2, <2>1
    <3> QED  BY <1>2, <1>4, <2>1, <3>1
  <2>2. CASE i # n + 1
    <3>1. i \in 1..n /\ i \in 0..n /\ i - 1 \in 0..n  BY <1>2, <2>2
    <3>2. h[i] = Moved(k, s, h[i - 1], q[i]) /\ Claims(k, s, p, h[i - 1], q[i])  BY <1>1, <3>1 DEF Passes
    <3> QED  BY <1>2, <1>4, <3>1, <3>2
  <2> QED  BY <2>1, <2>2
<1>7. g[0] = x /\ g[Len(t)] = Moved(k, s, r, m)  BY <1>2, <1>4
<1>8. Passes(g, k, s, p, x, t, Moved(k, s, r, m))  BY <1>5, <1>6, <1>7 DEF Passes
<1> QED  BY <1>8 DEF Leads, t

LEMMA LeadsFrom ==
    ASSUME NEW k, NEW s, NEW p, NEW x, NEW q \in Seq(Msg), q # << >>, NEW r, Leads(k, s, p, x, q, r)
    PROVE  Leads(k, s, p, Moved(k, s, x, Head(q)), Tail(q), r) /\ Claims(k, s, p, x, Head(q))
<1>1. PICK h : Passes(h, k, s, p, x, q, r)  BY DEF Leads
<1> DEFINE n == Len(q)
           g == [i \in 0..(n - 1) |-> h[i + 1]]
<1>2. /\ n \in Nat /\ n > 0 /\ Head(q) = q[1] /\ Tail(q) \in Seq(Msg) /\ Len(Tail(q)) = n - 1
      /\ \A i \in 1..(n - 1) : Tail(q)[i] = q[i + 1]
  BY HeadTailProperties
<1>3. \A i \in 0..(n - 1) : i + 1 \in 0..n /\ i + 1 \in 1..n /\ (i + 1) - 1 = i  BY <1>2
<1>4. h[1] = Moved(k, s, x, q[1]) /\ Claims(k, s, p, x, q[1])
  <2>1. 1 \in 1..Len(q) /\ 1 - 1 = 0  BY <1>2
  <2> QED  BY <1>1, <2>1 DEF Passes
<1>5. g \in [0..Len(Tail(q)) -> SUBSET User]  BY <1>1, <1>2, <1>3 DEF Passes
<1>6. g[0] = h[1] /\ g[n - 1] = r  BY <1>1, <1>2 DEF Passes
<1>7. ASSUME NEW i \in 1..(n - 1)
      PROVE  g[i] = Moved(k, s, g[i - 1], Tail(q)[i]) /\ Claims(k, s, p, g[i - 1], Tail(q)[i])
  <2>1. i + 1 \in 1..Len(q) /\ (i + 1) - 1 = i /\ i \in 0..(n - 1) /\ i - 1 \in 0..(n - 1) /\ (i - 1) + 1 = i  BY <1>2
  <2>2. h[i + 1] = Moved(k, s, h[i], q[i + 1]) /\ Claims(k, s, p, h[i], q[i + 1])  BY <1>1, <2>1 DEF Passes
  <2> QED  BY <1>2, <2>1, <2>2
<1> HIDE DEF g
<1>8. Passes(g, k, s, p, Moved(k, s, x, Head(q)), Tail(q), r)  BY <1>2, <1>4, <1>5, <1>6, <1>7 DEF Passes
<1> QED  BY <1>2, <1>4, <1>8 DEF Leads

LEMMA TrailRead ==
    ASSUME NEW k, NEW s, NEW p, NEW x, NEW q \in Seq(Msg), q # << >>, NEW y, NEW live, Trail(k, s, p, x, q, y, live)
    PROVE  Trail(k, s, p, Moved(k, s, x, Head(q)), Tail(q), y, live) /\ Claims(k, s, p, x, Head(q))
  BY LeadsFrom DEF Trail

LEMMA TrailSaid ==
    ASSUME NEW k, NEW s, NEW p, NEW x, NEW q \in Seq(Msg), NEW y, Trail(k, s, p, x, q, y, TRUE),
           NEW m \in Msg, Claims(k, s, p, y, m)
    PROVE  Trail(k, s, p, x, Append(q, m), Moved(k, s, y, m), TRUE)
  BY LeadsOn DEF Trail

(***************************************************************************)
(* The invariant.                                                          *)
(***************************************************************************)
\* The lines users cause are of the kinds they send, with arguments of the mode's kind.
Line ==
    {m \in Msg : /\ m.type = "KICK" => "kick" \in play.ops
                 /\ m.type = "MODE" => /\ m.change.mode \in play.ops
                                       /\ m.change.mode = "k" => m.change.arg \in Key \cup {NoKey}
                                       /\ m.change.mode = "b" => m.change.arg \in User}
\* One server's copy: K it knows, M are in the channel c, O its ops.
OneCopy(K, c, M, O) ==
    /\ K \subseteq User /\ c \in Copy /\ M \subseteq K /\ O \subseteq M
    /\ M # {} => c.created # 0
    /\ c.topic # 0 => c.topicTime # 0
\* As long as no UID was refused, and for the members no KICK crosses anything.
Trusted(k) == spent.refused = 0 /\ (k = "member" => "kick" \notin play.ops)
Have(k) == IF k = "known" THEN known ELSE members
Follow(k) ==
    Trusted(k) => \A s \in Server : \A p \in Neighbours(s) :
        lc[s][p] # "down" => Trail(k, s, p, Have(k)[s] \cap Beyond(s, p), wire[<<p, s>>],
                                   Have(k)[p] \cap Beyond(s, p), lc[p][s] = "up")
Cut ==
    spent.refused = 0 => \A s \in Server : \A p \in Neighbours(s) :
        lc[s][p] = "down" => known[s] \cap Beyond(s, p) = {}

Tables ==
    /\ play \in Plays /\ now \in Time
    /\ spent \in [moves : 0..play.moves, faults : 0..play.faults, refused : 0..play.refused]
    /\ known \in [Server -> SUBSET User] /\ channel \in [Server -> Copy]
    /\ members \in [Server -> SUBSET User] /\ chanops \in [Server -> SUBSET User]
    /\ lc \in [Server -> [Server -> {"down", "up", "closing"}]]
Copies == \A s \in Server : OneCopy(known[s], channel[s], members[s], chanops[s])
Wires == wire \in [Link -> Seq(Line)]
Inv == Tables /\ Copies /\ Wires /\ Follow("known") /\ Follow("member") /\ Cut

LEMMA PlayForm ==
    ASSUME Tables
    PROVE  /\ play.servers \subseteq Server /\ play.users \subseteq User /\ play.topics \subseteq Topic
           /\ play.moves \in Nat /\ play.faults \in Nat /\ play.refused \in Nat
           /\ spent.moves \in Nat /\ spent.faults \in Nat /\ spent.refused \in Nat
  BY PlaysType DEF Tables

LEMMA WireForm ==
    ASSUME Wires
    PROVE  wire \in [Link -> Seq(Msg)]
<1>1. Line \subseteq Msg  BY DEF Line
<1>2. \A l \in Link : wire[l] \in Seq(Msg)  BY <1>1 DEF Wires
<1> QED  BY <1>2 DEF Wires

LEMMA InvMeans ==
    ASSUME Inv
    PROVE  TypeOK /\ MembersKnown /\ Occupied
<1>1. TypeOK  BY WireForm DEF Inv, Tables, TypeOK
<1>2. MembersKnown  BY DEF Inv, Copies, OneCopy, MembersKnown
<1>3. Occupied
  <2>1. ASSUME NEW s \in Server
        PROVE  members[s] # {} => Exists(s)
    <3>1. OneCopy(known[s], channel[s], members[s], chanops[s])  BY DEF Inv, Copies
    <3> QED  BY <3>1 DEF OneCopy, Exists
  <2> QED  BY <2>1 DEF Occupied
<1> QED  BY <1>1, <1>2, <1>3

(***************************************************************************)
(* What one server does.                                                   *)
(***************************************************************************)
\* What is sent to q, and what s has of those q hears about through s.
Fits(k, s, q, x, y, o) ==
    \/ o = << >> /\ y = x
    \/ \E m \in Msg : o = <<m>> /\ Claims(k, q, s, x, m) /\ y = Moved(k, q, x, m)

\* Only s changes, in what it sends, reads and gives up.
Local(k, s) ==
    /\ \A t \in Server : t # s => Have(k)'[t] = Have(k)[t]
    /\ \A t, r \in Server : (lc'[t][r] # "down" => lc[t][r] # "down") /\ (lc'[t][r] = "up" => lc[t][r] = "up")
    /\ \A l \in Link : l[1] # s /\ l[2] # s => wire'[l] = wire[l]
    /\ \A q \in Neighbours(s) : lc'[s][q] # "down" =>
           \/ wire'[<<q, s>>] = wire[<<q, s>>] /\ Have(k)'[s] \cap Beyond(s, q) = Have(k)[s] \cap Beyond(s, q)
           \/ /\ wire[<<q, s>>] # << >> /\ wire'[<<q, s>>] = Tail(wire[<<q, s>>])
              /\ Have(k)'[s] \cap Beyond(s, q) = Moved(k, s, Have(k)[s] \cap Beyond(s, q), Head(wire[<<q, s>>]))
    /\ \A q \in Neighbours(s) :
           IF CanSend(s, q)
           THEN \E o : /\ wire'[<<s, q>>] = wire[<<s, q>>] \o o
                       /\ Fits(k, s, q, Have(k)[s] \cap Beyond(q, s), Have(k)'[s] \cap Beyond(q, s), o)
           ELSE wire'[<<s, q>>] = wire[<<s, q>>]

LEMMA Written ==
    ASSUME NEW q \in Seq(Msg), NEW m \in Msg
    PROVE  q \o << >> = q /\ q \o <<m>> = Append(q, m)
  OBVIOUS

LEMMA FollowLocal ==
    ASSUME NEW k, Wires, Follow(k), NEW s \in Server, Local(k, s), Trusted(k)' => Trusted(k)
    PROVE  Follow(k)'
<1> SUFFICES ASSUME Trusted(k), NEW t \in Server, NEW r \in Neighbours(t), lc'[t][r] # "down"
             PROVE  Trail(k, t, r, Have(k)'[t] \cap Beyond(t, r), wire'[<<r, t>>],
                          Have(k)'[r] \cap Beyond(t, r), lc'[r][t] = "up")
  BY DEF Follow
<1>1. r \in Server /\ r # t /\ <<r, t>> \in Link /\ t \in Neighbours(r)  BY Edge
<1>2. lc[t][r] # "down" /\ (lc'[r][t] = "up" => lc[r][t] = "up")  BY <1>1 DEF Local
<1>3. wire[<<r, t>>] \in Seq(Msg)  BY <1>1, WireForm
<1> DEFINE x == Have(k)[t] \cap Beyond(t, r)
           y == Have(k)[r] \cap Beyond(t, r)
           w == wire[<<r, t>>]
<1>4. Trail(k, t, r, x, w, y, lc[r][t] = "up")  BY <1>2 DEF Follow
<1>5. CASE t = s
  <2>1. Have(k)'[r] = Have(k)[r]  BY <1>1, <1>5 DEF Local
  <2>2. Trail(k, t, r, Have(k)'[t] \cap Beyond(t, r), wire'[<<r, t>>], y, lc[r][t] = "up")
    <3>1. CASE wire'[<<r, t>>] = w /\ Have(k)'[t] \cap Beyond(t, r) = x  BY <1>4, <3>1
    <3>2. CASE /\ w # << >> /\ wire'[<<r, t>>] = Tail(w)
               /\ Have(k)'[t] \cap Beyond(t, r) = Moved(k, t, x, Head(w))
      <4>1. Trail(k, t, r, Moved(k, t, x, Head(w)), Tail(w), y, lc[r][t] = "up")
        <5> HIDE DEF x, y, w
        <5> QED  BY <1>3, <1>4, <3>2, TrailRead DEF w
      <4> QED  BY <3>2, <4>1
    <3> QED  BY <1>5, <3>1, <3>2 DEF Local
  <2> QED  BY <1>2, <2>1, <2>2 DEF Trail
<1>6. CASE r = s
  <2>1. Have(k)'[t] = Have(k)[t]  BY <1>1, <1>6 DEF Local
  <2>2. CASE ~CanSend(s, t)
    <3>1. wire'[<<r, t>>] = w  BY <1>1, <1>6, <2>2 DEF Local
    <3>2. lc[r][t] # "up"  BY <1>2, <1>6, <2>2 DEF CanSend
    <3> QED  BY <1>2, <1>4, <2>1, <3>1, <3>2 DEF Trail
  <2>3. CASE CanSend(s, t)
    <3>1. PICK o : wire'[<<r, t>>] = w \o o /\ Fits(k, r, t, y, Have(k)'[r] \cap Beyond(t, r), o)
      BY <1>1, <1>6, <2>3 DEF Local
    <3>2. lc[r][t] = "up"  BY <1>6, <2>3 DEF CanSend
    <3>3. Trail(k, t, r, x, w, y, TRUE)  BY <1>4, <3>2
    <3>4. Trail(k, t, r, x, w \o o, Have(k)'[r] \cap Beyond(t, r), TRUE)
      <4> HIDE DEF x, y, w
      <4>1. CASE o = << >> /\ Have(k)'[r] \cap Beyond(t, r) = y
        <5>1. w \o o = w  BY <1>3, <4>1 DEF w
        <5> QED  BY <3>3, <4>1, <5>1
      <4>2. ASSUME NEW m \in Msg, o = <<m>>, Claims(k, t, r, y, m), Have(k)'[r] \cap Beyond(t, r) = Moved(k, t, y, m)
            PROVE  Trail(k, t, r, x, w \o o, Have(k)'[r] \cap Beyond(t, r), TRUE)
        <5>1. w \in Seq(Msg) /\ w \o o = Append(w, m)  BY <1>3, <4>2 DEF w
        <5>2. Trail(k, t, r, x, Append(w, m), Moved(k, t, y, m), TRUE)  BY <3>3, <4>2, <5>1, TrailSaid
        <5> QED  BY <4>2, <5>1, <5>2
      <4> QED  BY <3>1, <4>1, <4>2 DEF Fits
    <3> QED  BY <2>1, <3>1, <3>4 DEF Trail
  <2> QED  BY <2>2, <2>3
<1>7. CASE t # s /\ r # s
  <2>1. Have(k)'[t] = Have(k)[t] /\ Have(k)'[r] = Have(k)[r] /\ wire'[<<r, t>>] = w  BY <1>1, <1>7 DEF Local
  <2> QED  BY <1>2, <1>4, <2>1 DEF Trail
<1> QED  BY <1>5, <1>6, <1>7

\* s has this now; X is what of it the lines are about.
At(s, K, c, M, O) ==
    /\ known' = [known EXCEPT ![s] = K] /\ channel' = [channel EXCEPT ![s] = c]
    /\ members' = [members EXCEPT ![s] = M] /\ chanops' = [chanops EXCEPT ![s] = O]
Of(k, K, M) == IF k = "known" THEN K ELSE M

LEMMA AtForm ==
    ASSUME Inv, NEW s \in Server, NEW K, NEW c, NEW M, NEW O, At(s, K, c, M, O), NEW k
    PROVE  /\ Have(k)'[s] = Of(k, K, M) /\ \A t \in Server : t # s => Have(k)'[t] = Have(k)[t]
           /\ Have(k)[s] \subseteq User
<1>1. known \in [Server -> SUBSET User] /\ members \in [Server -> SUBSET User]  BY DEF Inv, Tables
<1> QED  BY <1>1 DEF At, Have, Of

LEMMA StepAt ==
    ASSUME Inv, NEW s \in Server, NEW K, NEW c, NEW M, NEW O, At(s, K, c, M, O),
           play' = play, now' \in Time,
           spent' \in [moves : 0..play.moves, faults : 0..play.faults, refused : 0..play.refused],
           spent'.refused = 0 => spent.refused = 0,
           lc' \in [Server -> [Server -> {"down", "up", "closing"}]], \A t \in Server : t # s => lc'[t] = lc[t],
           wire' \in [Link -> Seq(Line)], OneCopy(K, c, M, O),
           Trusted("known")' => Local("known", s), Trusted("member")' => Local("member", s),
           spent'.refused = 0 => \A p \in Neighbours(s) : lc'[s][p] = "down" => K \cap Beyond(s, p) = {}
    PROVE  Inv'
<1>2. Tables  BY DEF Inv
<1>3. K \subseteq User /\ c \in Copy /\ M \subseteq User /\ O \subseteq User  BY DEF OneCopy
<1>4. Tables'
  <2>1. /\ known' \in [Server -> SUBSET User] /\ channel' \in [Server -> Copy]
        /\ members' \in [Server -> SUBSET User] /\ chanops' \in [Server -> SUBSET User]
    BY <1>2, <1>3 DEF Tables, At
  <2> QED  BY <1>2, <2>1 DEF Tables
<1>5. Copies'
  <2> SUFFICES ASSUME NEW t \in Server  PROVE OneCopy(known'[t], channel'[t], members'[t], chanops'[t])
    BY DEF Copies
  <2>1. CASE t = s
    <3>1. known'[t] = K /\ channel'[t] = c /\ members'[t] = M /\ chanops'[t] = O  BY <1>2, <2>1 DEF Tables, At
    <3> QED  BY <3>1
  <2>2. CASE t # s
    <3>1. known'[t] = known[t] /\ channel'[t] = channel[t] /\ members'[t] = members[t] /\ chanops'[t] = chanops[t]
      BY <1>2, <2>2 DEF Tables, At
    <3>2. OneCopy(known[t], channel[t], members[t], chanops[t])  BY DEF Inv, Copies
    <3> QED  BY <3>1, <3>2 DEF OneCopy
  <2> QED  BY <2>1, <2>2
<1>6. Line' = Line  BY DEF Line
<1>7. Wires'  BY <1>6 DEF Wires
<1>8. (Trusted("known")' => Trusted("known")) /\ (Trusted("member")' => Trusted("member"))  BY DEF Trusted
<1>9. Follow("known")'
  <2>1. CASE Trusted("known")'  BY <1>8, <2>1, FollowLocal DEF Inv
  <2>2. CASE ~Trusted("known")'  BY <2>2 DEF Follow
  <2> QED  BY <2>1, <2>2
<1>10. Follow("member")'
  <2>1. CASE Trusted("member")'  BY <1>8, <2>1, FollowLocal DEF Inv
  <2>2. CASE ~Trusted("member")'  BY <2>2 DEF Follow
  <2> QED  BY <2>1, <2>2
<1>11. Cut'
  <2> SUFFICES ASSUME spent'.refused = 0, NEW t \in Server, NEW p \in Neighbours(t), lc'[t][p] = "down"
               PROVE  known'[t] \cap Beyond(t, p) = {}
    BY DEF Cut
  <2>1. CASE t = s
    <3>1. known'[t] = K  BY <1>2, <2>1 DEF Tables, At
    <3> QED  BY <2>1, <3>1
  <2>2. CASE t # s
    <3>1. known'[t] = known[t] /\ lc'[t] = lc[t]  BY <1>2, <2>2 DEF Tables, At
    <3> QED  BY <3>1 DEF Inv, Cut
  <2> QED  BY <2>1, <2>2
<1> QED  BY <1>4, <1>5, <1>7, <1>9, <1>10, <1>11 DEF Inv

(***************************************************************************)
(* Lines sent.                                                             *)
(***************************************************************************)
LEMMA SentForm ==
    ASSUME Wires, NEW s \in Server, NEW out \in [Server -> Seq(Line)]
    PROVE  /\ Sent(s, out) \in [Link -> Seq(Line)]
           /\ \A l \in Link : l[1] # s => Sent(s, out)[l] = wire[l]
           /\ \A q \in Neighbours(s) : Sent(s, out)[<<s, q>>] = IF CanSend(s, q) THEN wire[<<s, q>>] \o out[q]
                                                               ELSE wire[<<s, q>>]
<1>1. ASSUME NEW l \in Link
      PROVE  (IF l[1] = s /\ CanSend(s, l[2]) THEN wire[l] \o out[l[2]] ELSE wire[l]) \in Seq(Line)
  <2>1. wire[l] \in Seq(Line)  BY DEF Wires
  <2>2. l[2] \in Server  BY DEF Link
  <2>3. out[l[2]] \in Seq(Line)  BY <2>2
  <2> QED  BY <2>1, <2>3
<1>2. Sent(s, out) \in [Link -> Seq(Line)]  BY <1>1 DEF Sent
<1>3. \A l \in Link : l[1] # s => Sent(s, out)[l] = wire[l]  BY DEF Sent
<1>4. \A q \in Neighbours(s) : <<s, q>> \in Link  BY Edge
<1>5. \A q \in Neighbours(s) : Sent(s, out)[<<s, q>>] = IF CanSend(s, q) THEN wire[<<s, q>>] \o out[q]
                                                       ELSE wire[<<s, q>>]
  BY <1>4 DEF Sent
<1> QED  BY <1>2, <1>3, <1>5

LEMMA SentOnReadForm ==
    ASSUME Wires, NEW s \in Server, NEW p \in Neighbours(s), wire[<<p, s>>] # << >>, NEW out \in [Server -> Seq(Line)]
    PROVE  /\ SentOnRead(s, p, out) \in [Link -> Seq(Line)]
           /\ SentOnRead(s, p, out)[<<p, s>>] = Tail(wire[<<p, s>>])
           /\ \A l \in Link : l[1] # s /\ l # <<p, s>> => SentOnRead(s, p, out)[l] = wire[l]
           /\ \A q \in Neighbours(s) :
                 SentOnRead(s, p, out)[<<s, q>>] = IF CanSend(s, q) THEN wire[<<s, q>>] \o out[q] ELSE wire[<<s, q>>]
<1>1. <<p, s>> \in Link /\ p # s /\ <<p, s>>[1] # s  BY Edge
<1>2. /\ Sent(s, out) \in [Link -> Seq(Line)]
      /\ \A l \in Link : l[1] # s => Sent(s, out)[l] = wire[l]
      /\ \A q \in Neighbours(s) : Sent(s, out)[<<s, q>>] = IF CanSend(s, q) THEN wire[<<s, q>>] \o out[q]
                                                          ELSE wire[<<s, q>>]
  BY SentForm
<1>3. Sent(s, out)[<<p, s>>] = wire[<<p, s>>] /\ wire[<<p, s>>] \in Seq(Line)  BY <1>1, <1>2 DEF Wires
<1>4. Tail(wire[<<p, s>>]) \in Seq(Line)  BY <1>3
<1>5. \A q \in Neighbours(s) : <<s, q>> \in Link /\ <<s, q>> # <<p, s>>  BY <1>1, Edge
<1> QED  BY <1>1, <1>2, <1>3, <1>4, <1>5 DEF SentOnRead

\* The lines of one command go to everybody or to everybody but the one it came from.
LEMMA OutForm ==
    ASSUME NEW o \in Seq(Line), NEW p \in Server
    PROVE  /\ FloodAll(o) \in [Server -> Seq(Line)] /\ \A q \in Server : FloodAll(o)[q] = o
           /\ Flood(p, o) \in [Server -> Seq(Line)] /\ Flood(p, o)[p] = << >>
           /\ \A q \in Server : q # p => Flood(p, o)[q] = o
           /\ Nothing \in [Server -> Seq(Line)] /\ \A q \in Server : Nothing[q] = << >>
<1>1. << >> \in Seq(Line)  OBVIOUS
<1> QED  BY <1>1 DEF FloodAll, Flood, Nothing

\* Something is said, and the rest of the world stands still.
LEMMA Says ==
    ASSUME Inv, NEW s \in Server, NEW K, NEW c, NEW M, NEW O, At(s, K, c, M, O), NEW k, lc' = lc,
           NEW out \in [Server -> Seq(Line)], wire' = Sent(s, out),
           \A q \in Neighbours(s) :
               /\ Of(k, K, M) \cap Beyond(s, q) = Have(k)[s] \cap Beyond(s, q)
               /\ Fits(k, s, q, Have(k)[s] \cap Beyond(q, s), Of(k, K, M) \cap Beyond(q, s), out[q])
    PROVE  Local(k, s) /\ wire' \in [Link -> Seq(Line)]
<1>1. Wires  BY DEF Inv
<1>2. Have(k)'[s] = Of(k, K, M) /\ \A t \in Server : t # s => Have(k)'[t] = Have(k)[t]  BY AtForm
<1>3. /\ wire' \in [Link -> Seq(Line)] /\ \A l \in Link : l[1] # s => wire'[l] = wire[l]
      /\ \A q \in Neighbours(s) : wire'[<<s, q>>] = IF CanSend(s, q) THEN wire[<<s, q>>] \o out[q] ELSE wire[<<s, q>>]
  BY <1>1, SentForm
<1>4. \A q \in Neighbours(s) : <<q, s>> \in Link /\ <<q, s>>[1] # s  BY Edge
<1>5. \A q \in Neighbours(s) : wire'[<<q, s>>] = wire[<<q, s>>]  BY <1>3, <1>4
<1> QED  BY <1>2, <1>3, <1>5 DEF Local

\* A line of p is read.
LEMMA Reads ==
    ASSUME Inv, NEW s \in Server, NEW K, NEW c, NEW M, NEW O, At(s, K, c, M, O), NEW k, lc' = lc,
           NEW p \in Neighbours(s), wire[<<p, s>>] # << >>,
           NEW out \in [Server -> Seq(Line)], wire' = SentOnRead(s, p, out),
           Of(k, K, M) \cap Beyond(s, p) = Moved(k, s, Have(k)[s] \cap Beyond(s, p), Head(wire[<<p, s>>])),
           \A q \in Neighbours(s) :
               /\ q # p => Of(k, K, M) \cap Beyond(s, q) = Have(k)[s] \cap Beyond(s, q)
               /\ Fits(k, s, q, Have(k)[s] \cap Beyond(q, s), Of(k, K, M) \cap Beyond(q, s), out[q])
    PROVE  Local(k, s)
<1>1. Wires  BY DEF Inv
<1>2. Have(k)'[s] = Of(k, K, M) /\ \A t \in Server : t # s => Have(k)'[t] = Have(k)[t]  BY AtForm
<1>3. /\ wire'[<<p, s>>] = Tail(wire[<<p, s>>])
      /\ \A l \in Link : l[1] # s /\ l # <<p, s>> => wire'[l] = wire[l]
      /\ \A q \in Neighbours(s) : wire'[<<s, q>>] = IF CanSend(s, q) THEN wire[<<s, q>>] \o out[q] ELSE wire[<<s, q>>]
  BY <1>1, SentOnReadForm
<1>4. \A q \in Neighbours(s) : <<q, s>> \in Link /\ <<q, s>>[1] # s /\ (q # p => <<q, s>> # <<p, s>>)  BY Edge
<1>5. \A l \in Link : l[1] # s /\ l[2] # s => wire'[l] = wire[l]
  <2>1. <<p, s>>[2] = s  OBVIOUS
  <2> QED  BY <1>3, <2>1
<1>6. \A q \in Neighbours(s) : q # p => wire'[<<q, s>>] = wire[<<q, s>>]  BY <1>3, <1>4
<1> QED  BY <1>2, <1>3, <1>5, <1>6 DEF Local

(***************************************************************************)
(* What local users do.                                                    *)
(***************************************************************************)
LEMMA CopyHere ==
    ASSUME Inv, NEW s \in Server
    PROVE  OneCopy(known[s], channel[s], members[s], chanops[s])
  BY DEF Inv, Copies

\* A copy stays sound when members leave it ...
LEMMA LeaveCopy ==
    ASSUME NEW K, NEW c, NEW M, NEW O, OneCopy(K, c, M, O), NEW gone,
           NEW L, L \subseteq User, M \ gone \subseteq L
    PROVE  OneCopy(L, IF M \ gone = M THEN c ELSE Dropped(c, M \ gone), M \ gone, O \ gone)
<1> DEFINE N == M \ gone
           d == IF N = M THEN c ELSE Dropped(c, N)
<1>1. NoChannel \in Copy /\ NoChannel.created = 0 /\ NoChannel.topic = 0  BY BoundType DEF NoChannel, Copy
<1>2. CASE N = M
  <2>1. d = c  BY <1>2
  <2> QED  BY <1>2, <2>1 DEF OneCopy
<1>3. CASE N # M /\ N = {} /\ "P" \notin c.flags
  <2>1. d = NoChannel  BY <1>3 DEF Dropped
  <2> QED  BY <1>1, <1>3, <2>1 DEF OneCopy
<1>4. CASE N # M /\ ~(N = {} /\ "P" \notin c.flags)
  <2>1. d = c  BY <1>4 DEF Dropped
  <2>2. M # {}  BY <1>4
  <2> QED  BY <1>4, <2>1, <2>2 DEF OneCopy
<1> QED  BY <1>2, <1>3, <1>4

LEMMA LeaveForm ==
    ASSUME Tables, NEW s \in Server, NEW gone, Leave(s, gone), NEW K, known' = [known EXCEPT ![s] = K]
    PROVE  At(s, K, IF members[s] \ gone = members[s] THEN channel[s] ELSE Dropped(channel[s], members[s] \ gone),
              members[s] \ gone, chanops[s] \ gone)
  BY DEF Tables, Leave, At

LEMMA Left ==
    ASSUME Inv, NEW s \in Server, NEW gone, Leave(s, gone), NEW K, K \subseteq User, members[s] \ gone \subseteq K,
           known' = [known EXCEPT ![s] = K]
    PROVE  \E c : /\ At(s, K, c, members[s] \ gone, chanops[s] \ gone)
                  /\ OneCopy(K, c, members[s] \ gone, chanops[s] \ gone)
<1> DEFINE c == IF members[s] \ gone = members[s] THEN channel[s] ELSE Dropped(channel[s], members[s] \ gone)
<1>1. At(s, K, c, members[s] \ gone, chanops[s] \ gone)  BY LeaveForm DEF Inv
<1>2. OneCopy(known[s], channel[s], members[s], chanops[s])  BY CopyHere
<1>3. OneCopy(K, c, members[s] \ gone, chanops[s] \ gone)  BY <1>2, LeaveCopy
<1> QED  BY <1>1, <1>3

\* ... and when a mode letter is applied.
LEMMA ModeForm ==
    ASSUME NEW c \in Copy, NEW x \in Change, x.mode = "k" => x.arg \in Key \cup {NoKey}, x.mode = "b" => x.arg \in User
    PROVE  /\ ModeApplied(c, x) \in Copy /\ ModeApplied(c, x).created = c.created
           /\ ModeApplied(c, x).topic = c.topic /\ ModeApplied(c, x).topicTime = c.topicTime
<1> DEFINE f == IF x.mode \in Flag THEN Toggled(c.flags, x, x.mode) ELSE c.flags
           y == IF x.mode = "k" THEN x.arg ELSE c.key
           b == IF x.mode = "b" THEN Toggled(c.bans, x, x.arg) ELSE c.bans
<1>1. ModeApplied(c, x) = [c EXCEPT !.flags = f, !.key = y, !.bans = b]  BY DEF ModeApplied
<1>2. c.flags \subseteq Flag /\ c.key \in Key \cup {NoKey} /\ c.bans \subseteq User  BY DEF Copy
<1>3. f \subseteq Flag  BY <1>2 DEF Toggled
<1>4. y \in Key \cup {NoKey}  BY <1>2
<1>5. b \subseteq User  BY <1>2 DEF Toggled
<1> HIDE DEF f, y, b
<1> QED  BY <1>1, <1>3, <1>4, <1>5 DEF Copy

LEMMA OpsForm ==
    ASSUME NEW M, NEW O, O \subseteq M, NEW x
    PROVE  OpsApplied(M, O, x) \subseteq M
  BY DEF OpsApplied, Toggled

\* The users of a server are heard of by all its neighbours, and by it from none.
LEMMA LocalUser ==
    ASSUME NEW s \in Server, NEW u \in User, Home[u] = s, NEW q \in Neighbours(s)
    PROVE  u \notin Beyond(s, q) /\ u \in Beyond(q, s)
  BY OursBeyond DEF Beyond

\* The line m says what a local user's deed makes of V.
Tells(k, s, V, X, m) ==
    \A q \in Neighbours(s) :
        /\ X \cap Beyond(s, q) = V \cap Beyond(s, q)
        /\ Claims(k, q, s, V \cap Beyond(q, s), m) /\ X \cap Beyond(q, s) = Moved(k, q, V \cap Beyond(q, s), m)

LEMMA Told ==
    ASSUME Inv, NEW s \in Server, NEW K, NEW c, NEW M, NEW O, At(s, K, c, M, O),
           UNCHANGED <<play, now, lc>>,
           spent' \in [moves : 0..play.moves, faults : 0..play.faults, refused : 0..play.refused],
           spent'.refused = spent.refused, OneCopy(K, c, M, O),
           NEW m \in Line, wire' = Sent(s, FloodAll(<<m>>)),
           Tells("known", s, known[s], K, m), Trusted("member") => Tells("member", s, members[s], M, m)
    PROVE  Inv'
<1> DEFINE out == FloodAll(<<m>>)
<1>1. out \in [Server -> Seq(Line)] /\ \A q \in Server : out[q] = <<m>>
  <2>1. <<m>> \in Seq(Line)  OBVIOUS
  <2> QED  BY <2>1, OutForm
<1>2. m \in Msg /\ \A q \in Neighbours(s) : q \in Server  BY Edge DEF Line
<1>3. Local("known", s) /\ wire' \in [Link -> Seq(Line)]
  <2>1. ASSUME NEW q \in Neighbours(s)
        PROVE  /\ Of("known", K, M) \cap Beyond(s, q) = Have("known")[s] \cap Beyond(s, q)
               /\ Fits("known", s, q, Have("known")[s] \cap Beyond(q, s), Of("known", K, M) \cap Beyond(q, s), out[q])
    <3>1. out[q] = <<m>>  BY <1>1, <1>2
    <3> HIDE DEF out
    <3> QED  BY <1>2, <3>1 DEF Of, Have, Fits, Tells
  <2> HIDE DEF out
  <2> QED  BY <1>1, <2>1, Says DEF out
<1>4. Trusted("member")' => Local("member", s)
  <2> SUFFICES ASSUME Trusted("member")  PROVE Local("member", s)  BY DEF Trusted
  <2>1. ASSUME NEW q \in Neighbours(s)
        PROVE  /\ Of("member", K, M) \cap Beyond(s, q) = Have("member")[s] \cap Beyond(s, q)
               /\ Fits("member", s, q, Have("member")[s] \cap Beyond(q, s), Of("member", K, M) \cap Beyond(q, s), out[q])
    <3>1. out[q] = <<m>>  BY <1>1, <1>2
    <3> HIDE DEF out
    <3> QED  BY <1>2, <3>1 DEF Of, Have, Fits, Tells
  <2> HIDE DEF out
  <2> QED  BY <1>1, <2>1, Says DEF out
<1>6. now' \in Time /\ lc' \in [Server -> [Server -> {"down", "up", "closing"}]] /\ \A t \in Server : t # s => lc'[t] = lc[t]
  BY DEF Inv, Tables
<1>7. spent'.refused = 0 => \A p \in Neighbours(s) : lc'[s][p] = "down" => K \cap Beyond(s, p) = {}
  BY DEF Inv, Cut, Tells
<1> QED  BY <1>3, <1>4, <1>6, <1>7, StepAt

LEMMA DoesForm ==
    ASSUME Inv, NEW s, NEW u \in play.users, NEW op, Does(s, u, op)
    PROVE  /\ op \in play.ops /\ u \in User /\ Home[u] = s /\ s \in Server /\ u \in known[s]
           /\ UNCHANGED <<lc, now>> /\ spent'.refused = spent.refused
           /\ spent' \in [moves : 0..play.moves, faults : 0..play.faults, refused : 0..play.refused]
<1>1. Tables  BY DEF Inv
<1>2. u \in User /\ Home[u] \in Server  BY <1>1, PlayForm, HomeType
<1>3. spent.moves \in Nat /\ play.moves \in Nat /\ spent.moves + 1 \in 0..play.moves  BY <1>1, PlayForm DEF Does
<1>4. /\ spent' \in [moves : 0..play.moves, faults : 0..play.faults, refused : 0..play.refused]
      /\ spent'.refused = spent.refused
  BY <1>1, <1>3 DEF Does, Tables
<1> QED  BY <1>2, <1>4 DEF Does

\* The lines of users are lines.
LEMMA UserLines ==
    ASSUME Inv, NEW u \in User
    PROVE  /\ QuitLine(u) \in Line /\ PartLine(u) \in Line
           /\ \A t \in Time : JoinLine(u, t) \in Line
           /\ \A v \in User : "kick" \in play.ops => KickLine(u, v) \in Line
           /\ \A t \in Topic : TopicLine(u, t) \in Line
           /\ \A x \in Change : /\ x.mode \in play.ops
                                /\ x.mode = "k" => x.arg \in Key \cup {NoKey}
                                /\ x.mode = "b" => x.arg \in User
                                => ModeLine(u, x) \in Line
  BY DEF Line, Msg, QuitLine, PartLine, JoinLine, KickLine, TopicLine, ModeLine

LEMMA SjoinForm ==
    ASSUME Inv, NEW c \in Copy, c.created # 0, NEW ms \in SUBSET User, NEW os \in SUBSET User
    PROVE  SjoinLine(c, ms, os) \in Line
<1>1. c.created \in Time  BY BoundType DEF Copy, Time
<1>2. c.flags \subseteq Flag /\ c.key \in Key \cup {NoKey}  BY DEF Copy
<1> QED  BY <1>1, <1>2 DEF Line, Msg, SjoinLine

LEMMA CreateInv ==
    ASSUME Inv, NEW s, NEW u \in play.users, Create(s, u), play' = play
    PROVE  Inv'
<1> DEFINE c == [NoChannel EXCEPT !.created = now, !.flags = DefaultModes]
           m == SjoinLine(c, {u}, {u})
<1>1. u \in User /\ Home[u] = s /\ s \in Server /\ u \in known[s]  BY DoesForm DEF Create
<1>2. c \in Copy /\ c.created = now /\ c.created # 0 /\ c.topic = 0
  <2>1. now \in Time  BY DEF Inv, Tables
  <2>2. now \in 0..MaxTS /\ now # 0 /\ 0 \in 0..MaxTS  BY <2>1, BoundType DEF Time
  <2>3. NoChannel \in Copy /\ NoChannel.topic = 0  BY <2>2 DEF NoChannel, Copy
  <2>4. c \in Copy  BY <2>2, <2>3, ModesType DEF Copy
  <2>5. c.created = now /\ c.topic = NoChannel.topic  BY <2>3 DEF Copy
  <2> QED  BY <2>2, <2>3, <2>4, <2>5
<1>3. members[s] = {}  BY <1>1, CopyHere DEF Create, Exists, OneCopy
<1>4. At(s, known[s], c, {u}, {u})  BY DEF Inv, Tables, Create, At
<1>5. OneCopy(known[s], c, {u}, {u})  BY <1>1, <1>2, CopyHere DEF OneCopy
<1>6. m \in Line  BY <1>1, <1>2, SjoinForm
<1>7. m.type = "SJOIN" /\ m.members = {u}  BY DEF SjoinLine
<1> HIDE DEF m, c
<1>8. Tells("known", s, known[s], known[s], m) /\ Tells("member", s, members[s], {u}, m)
  BY <1>1, <1>3, <1>7, LocalUser DEF Claims, Moved, Tells
<1>9. wire' = Sent(s, FloodAll(<<m>>))  BY DEF Create, m, c
<1>10. /\ UNCHANGED <<lc, now>> /\ spent'.refused = spent.refused
       /\ spent' \in [moves : 0..play.moves, faults : 0..play.faults, refused : 0..play.refused]
  BY DoesForm DEF Create
<1> QED  BY <1>1, <1>4, <1>5, <1>6, <1>8, <1>9, <1>10, Told

LEMMA JoinInv ==
    ASSUME Inv, NEW s, NEW u \in play.users, Join(s, u), play' = play
    PROVE  Inv'
<1> DEFINE m == JoinLine(u, channel[s].created)
           M == members[s] \cup {u}
<1>1. u \in User /\ Home[u] = s /\ s \in Server /\ u \in known[s]  BY DoesForm DEF Join
<1>2. channel[s] \in Copy /\ channel[s].created \in Time
  <2>1. channel[s] \in Copy /\ channel[s].created # 0  BY <1>1, CopyHere DEF Join, Exists, OneCopy
  <2> QED  BY <2>1, BoundType DEF Copy, Time
<1>3. At(s, known[s], channel[s], M, chanops[s])  BY DEF Inv, Tables, Join, At
<1>4. OneCopy(known[s], channel[s], M, chanops[s])  BY <1>1, CopyHere DEF Join, Exists, OneCopy
<1>5. m \in Line  BY <1>1, <1>2, UserLines
<1>6. m.type = "JOIN" /\ m.user = u  BY DEF JoinLine
<1> HIDE DEF m
<1>7. Tells("known", s, known[s], known[s], m) /\ Tells("member", s, members[s], M, m)
  BY <1>1, <1>6, LocalUser DEF Claims, Moved, Tells
<1>8. wire' = Sent(s, FloodAll(<<m>>))  BY DEF Join, m
<1>9. /\ UNCHANGED <<lc, now>> /\ spent'.refused = spent.refused
      /\ spent' \in [moves : 0..play.moves, faults : 0..play.faults, refused : 0..play.refused]
  BY DoesForm DEF Join
<1> HIDE DEF M
<1> QED  BY <1>1, <1>3, <1>4, <1>5, <1>7, <1>8, <1>9, Told

LEMMA PartInv ==
    ASSUME Inv, NEW s, NEW u \in play.users, Part(s, u), play' = play
    PROVE  Inv'
<1> DEFINE m == PartLine(u)
           M == members[s] \ {u}
<1>1. u \in User /\ Home[u] = s /\ s \in Server  BY DoesForm DEF Part
<1>2. known' = [known EXCEPT ![s] = known[s]] /\ known[s] \subseteq User  BY <1>1 DEF Inv, Tables, Part
<1>3. M \subseteq known[s]  BY <1>1, CopyHere DEF OneCopy
<1>4. PICK c : At(s, known[s], c, M, chanops[s] \ {u}) /\ OneCopy(known[s], c, M, chanops[s] \ {u})
  BY <1>1, <1>2, <1>3, Left DEF Part
<1>5. m \in Line /\ m.type = "PART" /\ m.user = u  BY <1>1, UserLines DEF PartLine
<1>6. wire' = Sent(s, FloodAll(<<m>>))  BY DEF Part
<1>7. /\ UNCHANGED <<lc, now>> /\ spent'.refused = spent.refused
      /\ spent' \in [moves : 0..play.moves, faults : 0..play.faults, refused : 0..play.refused]
  BY DoesForm DEF Part
<1> HIDE DEF m
<1>8. Tells("known", s, known[s], known[s], m) /\ Tells("member", s, members[s], M, m)
  BY <1>1, <1>5, LocalUser DEF Claims, Moved, Tells
<1> HIDE DEF M
<1> QED  BY <1>1, <1>4, <1>5, <1>6, <1>7, <1>8, Told

LEMMA QuitInv ==
    ASSUME Inv, NEW s, NEW u \in play.users, Quit(s, u), play' = play
    PROVE  Inv'
<1> DEFINE m == QuitLine(u)
           K == known[s] \ {u}
           M == members[s] \ {u}
<1>1. u \in User /\ Home[u] = s /\ s \in Server  BY DoesForm DEF Quit
<1>2. known' = [known EXCEPT ![s] = K] /\ Leave(s, {u})  BY DEF Quit, RemoveLocal
<1>3. K \subseteq User /\ M \subseteq K  BY <1>1, CopyHere DEF OneCopy
<1>4. PICK c : At(s, K, c, M, chanops[s] \ {u}) /\ OneCopy(K, c, M, chanops[s] \ {u})
  BY <1>1, <1>2, <1>3, Left
<1>5. m \in Line /\ m.type = "QUIT" /\ m.user = u  BY <1>1, UserLines DEF QuitLine
<1>6. wire' = Sent(s, FloodAll(<<m>>))  BY DEF Quit
<1>7. /\ UNCHANGED <<lc, now>> /\ spent'.refused = spent.refused
      /\ spent' \in [moves : 0..play.moves, faults : 0..play.faults, refused : 0..play.refused]
  BY DoesForm DEF Quit
<1> HIDE DEF m
<1>8. Tells("known", s, known[s], K, m) /\ Tells("member", s, members[s], M, m)
  BY <1>1, <1>5, LocalUser DEF Claims, Moved, Tells
<1> HIDE DEF K, M
<1> QED  BY <1>1, <1>4, <1>5, <1>6, <1>7, <1>8, Told

LEMMA KickInv ==
    ASSUME Inv, NEW s, NEW k \in play.users, NEW u \in User, Kick(s, k, u), play' = play
    PROVE  Inv'
<1> DEFINE m == KickLine(k, u)
           M == members[s] \ {u}
<1>1. k \in User /\ Home[k] = s /\ s \in Server /\ "kick" \in play.ops  BY DoesForm DEF Kick
<1>2. known' = [known EXCEPT ![s] = known[s]] /\ known[s] \subseteq User  BY <1>1 DEF Inv, Tables, Kick
<1>3. M \subseteq known[s]  BY <1>1, CopyHere DEF OneCopy
<1>4. PICK c : At(s, known[s], c, M, chanops[s] \ {u}) /\ OneCopy(known[s], c, M, chanops[s] \ {u})
  BY <1>1, <1>2, <1>3, Left DEF Kick
<1>5. m \in Line /\ m.type = "KICK"  BY <1>1, UserLines DEF KickLine
<1>6. wire' = Sent(s, FloodAll(<<m>>))  BY DEF Kick
<1>7. /\ UNCHANGED <<lc, now>> /\ spent'.refused = spent.refused
      /\ spent' \in [moves : 0..play.moves, faults : 0..play.faults, refused : 0..play.refused]
  BY DoesForm DEF Kick
<1> HIDE DEF m, M
<1>8. Tells("known", s, known[s], known[s], m)
  BY <1>5 DEF Claims, Moved, Tells
<1>9. ~Trusted("member")  BY <1>1 DEF Trusted
<1> QED  BY <1>1, <1>4, <1>5, <1>6, <1>7, <1>8, <1>9, Told

LEMMA SetModeInv ==
    ASSUME Inv, NEW s, NEW k \in play.users, NEW mode \in Flag \cup {"k", "b", "o"}, SetMode(s, k, mode), play' = play
    PROVE  Inv'
<1>1. k \in User /\ Home[k] = s /\ s \in Server /\ mode \in play.ops  BY DoesForm DEF SetMode
<1>2. PICK on \in BOOLEAN, arg \in Key \cup {NoKey} \cup play.users :
        LET x == [mode |-> mode, on |-> on, arg |-> arg]
        IN  HasEffect(s, x) /\ ApplyMode(s, x) /\ wire' = Sent(s, FloodAll(<<ModeLine(k, x)>>))
  BY DEF SetMode
<1> DEFINE x == [mode |-> mode, on |-> on, arg |-> arg]
           m == ModeLine(k, x)
           c == ModeApplied(channel[s], x)
           O == OpsApplied(members[s], chanops[s], x)
<1>3. HasEffect(s, x) /\ ApplyMode(s, x) /\ wire' = Sent(s, FloodAll(<<m>>))  BY <1>2
<1>4. x \in Change /\ x.mode = mode
  <2>1. play.users \subseteq User  BY PlayForm DEF Inv
  <2> QED  BY <2>1 DEF Change
<1> HIDE DEF x
<1>5. (x.mode = "k" => x.arg \in Key \cup {NoKey}) /\ (x.mode = "b" => x.arg \in User)  BY <1>3 DEF HasEffect
<1>6. m \in Line /\ m.type = "MODE" /\ m.user = k
  <2>1. m \in Line  BY <1>1, <1>4, <1>5, UserLines
  <2> QED  BY <2>1 DEF ModeLine
<1>7. OneCopy(known[s], channel[s], members[s], chanops[s])  BY <1>1, CopyHere
<1>9. At(s, known[s], c, members[s], O)  BY <1>3 DEF Inv, Tables, SetMode, ApplyMode, At
<1>10. OneCopy(known[s], c, members[s], O)
  <2>1. /\ c \in Copy /\ c.created = channel[s].created
        /\ c.topic = channel[s].topic /\ c.topicTime = channel[s].topicTime
    BY <1>4, <1>5, <1>7, ModeForm DEF OneCopy
  <2>2. O \subseteq members[s]  BY <1>7, OpsForm DEF OneCopy
  <2> HIDE DEF c, O
  <2> QED  BY <1>7, <2>1, <2>2 DEF OneCopy
<1>11. /\ UNCHANGED <<lc, now>> /\ spent'.refused = spent.refused
       /\ spent' \in [moves : 0..play.moves, faults : 0..play.faults, refused : 0..play.refused]
  BY DoesForm DEF SetMode
<1> HIDE DEF m, c, O
<1>12. Tells("known", s, known[s], known[s], m) /\ Tells("member", s, members[s], members[s], m)
  BY <1>6 DEF Claims, Moved, Tells
<1> QED  BY <1>1, <1>3, <1>6, <1>9, <1>10, <1>11, <1>12, Told

LEMMA SetTopicInv ==
    ASSUME Inv, NEW s, NEW u \in play.users, NEW t \in play.topics, SetTopic(s, u, t), play' = play
    PROVE  Inv'
<1> DEFINE m == TopicLine(u, t)
           c == [channel[s] EXCEPT !.topic = t, !.topicTime = now]
<1>1. u \in User /\ Home[u] = s /\ s \in Server  BY DoesForm DEF SetTopic
<1>2. t \in Topic /\ now \in Time  BY PlayForm DEF Inv, Tables
<1>3. At(s, known[s], c, members[s], chanops[s])  BY DEF Inv, Tables, SetTopic, At
<1>4. OneCopy(known[s], channel[s], members[s], chanops[s])  BY <1>1, CopyHere
<1>5. OneCopy(known[s], c, members[s], chanops[s])
  <2>1. now \in 0..MaxTS /\ now # 0  BY <1>2, BoundType DEF Time
  <2>2. channel[s] \in Copy  BY <1>4 DEF OneCopy
  <2>3. c \in Copy /\ c.created = channel[s].created /\ c.flags = channel[s].flags /\ c.topicTime = now
    BY <1>2, <2>1, <2>2 DEF Copy
  <2> HIDE DEF c
  <2> QED  BY <1>4, <2>1, <2>3 DEF OneCopy
<1>6. m \in Line /\ m.type = "TOPIC"
  <2>1. m \in Line  BY <1>1, <1>2, UserLines
  <2> QED  BY <2>1 DEF TopicLine
<1>7. wire' = Sent(s, FloodAll(<<m>>))  BY DEF SetTopic
<1>8. /\ UNCHANGED <<lc, now>> /\ spent'.refused = spent.refused
      /\ spent' \in [moves : 0..play.moves, faults : 0..play.faults, refused : 0..play.refused]
  BY DoesForm DEF SetTopic
<1> HIDE DEF m, c
<1>9. Tells("known", s, known[s], known[s], m) /\ Tells("member", s, members[s], members[s], m)
  BY <1>6 DEF Claims, Moved, Tells
<1> QED  BY <1>1, <1>3, <1>5, <1>6, <1>7, <1>8, <1>9, Told

LEMMA UserStepInv == ASSUME Inv, UserStep, play' = play  PROVE Inv'
<1>1. PICK u \in play.users :
        \/ Create(Home[u], u) \/ Join(Home[u], u) \/ Part(Home[u], u) \/ Quit(Home[u], u)
        \/ \E v \in members[Home[u]] : Kick(Home[u], u, v)
        \/ \E mode \in Flag \cup {"k", "b", "o"} : SetMode(Home[u], u, mode)
        \/ \E t \in play.topics : SetTopic(Home[u], u, t)
  BY DEF UserStep
<1>2. Home[u] \in Server /\ members[Home[u]] \subseteq User
  <2>1. u \in User  BY PlayForm DEF Inv
  <2> QED  BY <2>1, HomeType DEF Inv, Tables
<1> QED  BY <1>1, <1>2, CreateInv, JoinInv, PartInv, QuitInv, KickInv, SetModeInv, SetTopicInv

(***************************************************************************)
(* Links.                                                                  *)
(***************************************************************************)
LEMMA TickInv == ASSUME Inv, Tick, play' = play  PROVE Inv'
<1>1. UNCHANGED <<play, known, channel, members, chanops, lc, wire, spent>>  BY DEF Tick, chanVars
<1>2. Tables'
  <2>1. now \in Time  BY DEF Inv, Tables
  <2>2. now' \in Time  BY <2>1, BoundType DEF Tick, Time
  <2> QED  BY <1>1, <2>2 DEF Inv, Tables
<1>3. Copies'  BY <1>1 DEF Inv, Copies
<1>4. Wires'
  <2>1. Line' = Line  BY <1>1 DEF Line
  <2> QED  BY <1>1, <2>1 DEF Inv, Wires
<1>5. Follow("known")' /\ Follow("member")' /\ Cut'  BY <1>1 DEF Inv, Follow, Trusted, Have, Cut
<1> QED  BY <1>2, <1>3, <1>4, <1>5 DEF Inv

\* A link that is closed on one side: nothing else changes there.
LEMMA Closes ==
    ASSUME Inv, NEW s \in Server, NEW p \in Neighbours(s), lc[s][p] = "up", lc' = [lc EXCEPT ![s][p] = "closing"],
           UNCHANGED <<play, known, channel, members, chanops, wire, now>>, spent'.refused = spent.refused,
           spent' \in [moves : 0..play.moves, faults : 0..play.faults, refused : 0..play.refused]
    PROVE  Inv'
<1>1. Tables /\ Wires /\ p \in Server  BY Edge DEF Inv
<1>2. At(s, known[s], channel[s], members[s], chanops[s])  BY <1>1 DEF Tables, At
<1>3. OneCopy(known[s], channel[s], members[s], chanops[s])  BY CopyHere
<1>4. /\ lc' \in [Server -> [Server -> {"down", "up", "closing"}]] /\ \A t \in Server : t # s => lc'[t] = lc[t]
      /\ \A t, r \in Server : (lc'[t][r] # "down" <=> lc[t][r] # "down") /\ (lc'[t][r] = "up" => lc[t][r] = "up")
  BY <1>1 DEF Tables
<1>5. now' \in Time /\ wire' \in [Link -> Seq(Line)]  BY <1>1 DEF Tables, Wires
<1>6. ASSUME NEW k  PROVE Local(k, s)
  <2>1. Have(k)' = Have(k)  BY DEF Have
  <2>2. ASSUME NEW q \in Neighbours(s), CanSend(s, q)
        PROVE  \E o : /\ wire'[<<s, q>>] = wire[<<s, q>>] \o o
                      /\ Fits(k, s, q, Have(k)[s] \cap Beyond(q, s), Have(k)'[s] \cap Beyond(q, s), o)
    <3>1. wire[<<s, q>>] \in Seq(Msg)  BY <1>1, Edge, WireForm
    <3>2. wire[<<s, q>>] \o << >> = wire[<<s, q>>]  BY <3>1
    <3> QED  BY <2>1, <3>2 DEF Fits
  <2> QED  BY <1>4, <2>1, <2>2 DEF Local
<1>7. spent'.refused = 0 => \A q \in Neighbours(s) : lc'[s][q] = "down" => known[s] \cap Beyond(s, q) = {}
  <2>1. \A q \in Neighbours(s) : q \in Server  BY Edge
  <2> QED  BY <1>4, <2>1 DEF Inv, Cut
<1> QED  BY <1>2, <1>3, <1>4, <1>5, <1>6, <1>7, StepAt

LEMMA LinkNeighbour ==
    ASSUME NEW s \in Server, NEW p \in Server, <<s, p>> \in Link
    PROVE  p \in Neighbours(s)
  BY LinkSymmetric DEF Neighbours

LEMMA CloseLinkInv ==
    ASSUME Inv, NEW s \in Server, NEW p \in Server, CloseLink(s, p), play' = play
    PROVE  Inv'
<1>1. p \in Neighbours(s)  BY LinkNeighbour DEF CloseLink
<1>2. /\ spent' \in [moves : 0..play.moves, faults : 0..play.faults, refused : 0..play.refused]
      /\ spent'.refused = spent.refused
  <2>1. Tables /\ spent.faults \in Nat /\ play.faults \in Nat  BY PlayForm DEF Inv
  <2>2. spent.faults + 1 \in 0..play.faults  BY <2>1 DEF CloseLink
  <2> QED  BY <2>1, <2>2 DEF Tables, CloseLink
<1> QED  BY <1>1, <1>2, Closes DEF CloseLink, chanVars

LEMMA ReadEofInv ==
    ASSUME Inv, NEW s \in Server, NEW p \in Server, ReadEof(s, p), play' = play
    PROVE  Inv'
<1>1. p \in Neighbours(s)  BY LinkNeighbour DEF ReadEof
<1> QED  BY <1>1, Closes DEF ReadEof, chanVars, Inv, Tables

LEMMA SquitLines == ASSUME NEW t \in Server  PROVE SquitLine(t) \in Line /\ SquitLine(t).type = "SQUIT" /\ SquitLine(t).sid = t
  BY DEF Line, Msg, SquitLine

\* Those a server forgets with t are those beyond the neighbour that leads to it.
LEMMA ForgottenForm ==
    ASSUME Inv, NEW s \in Server, NEW t \in Server, t # s
    PROVE  /\ \A V \in SUBSET known[s] : V \ UsersBehind(s, t) = V \ Gone(s, t)
           /\ members[s] \subseteq known[s] /\ known[s] \subseteq User
<1>1. known[s] \subseteq User /\ members[s] \subseteq known[s]  BY CopyHere DEF OneCopy
<1>2. \A u \in Gone(s, t) : Home[u] # s  BY GoneForm
<1>3. \A u \in known[s] : u \in UsersBehind(s, t) <=> u \in Gone(s, t)  BY <1>1, <1>2 DEF UsersBehind, Gone, Remote
<1> QED  BY <1>1, <1>3

LEMMA ReapInv ==
    ASSUME Inv, NEW s \in Server, NEW p \in Server, Reap(s, p), play' = play
    PROVE  Inv'
<1> DEFINE gone == UsersBehind(s, p)
           K == known[s] \ gone
           M == members[s] \ gone
           m == SquitLine(p)
           out == Flood(p, <<m>>)
<1>1. p \in Neighbours(s) /\ p # s /\ Route[s][p] = p /\ Tables /\ Wires  BY LinkNeighbour, Edge DEF Reap, Inv
<1>2. K = known[s] \ Gone(s, p) /\ M = members[s] \ Gone(s, p) /\ K \subseteq User /\ M \subseteq K
  BY <1>1, ForgottenForm
<1>3. \A V \in SUBSET User : V \ Gone(s, p) = V \ Beyond(s, p)
  <2>1. \A u \in User : u \in Gone(s, p) <=> u \in Beyond(s, p)  BY <1>1, Behind, GoneForm DEF Gone
  <2> QED  BY <2>1
<1>4. K = known[s] \ Beyond(s, p) /\ M = members[s] \ Beyond(s, p)
  <2>1. known[s] \in SUBSET User /\ members[s] \in SUBSET User  BY <1>1 DEF Tables
  <2> QED  BY <1>2, <1>3, <2>1
<1>5. PICK c : At(s, K, c, M, chanops[s] \ gone) /\ OneCopy(K, c, M, chanops[s] \ gone)
  BY <1>2, Left DEF Reap, RemoveServerTree
<1>6. m \in Line /\ m \in Msg /\ m.type = "SQUIT" /\ m.sid = p  BY SquitLines DEF Line
<1>7. out \in [Server -> Seq(Line)] /\ out[p] = << >> /\ \A q \in Server : q # p => out[q] = <<m>>
  <2>1. <<m>> \in Seq(Line)  BY <1>6
  <2> QED  BY <2>1, OutForm
<1>8. /\ Sent(s, out) \in [Link -> Seq(Line)]
      /\ \A l \in Link : l[1] # s => Sent(s, out)[l] = wire[l]
      /\ \A q \in Neighbours(s) : Sent(s, out)[<<s, q>>] = IF CanSend(s, q) THEN wire[<<s, q>>] \o out[q]
                                                          ELSE wire[<<s, q>>]
  BY <1>1, <1>7, SentForm
<1>9. wire' = [Sent(s, out) EXCEPT ![<<p, s>>] = << >>]  BY DEF Reap
<1>10. <<p, s>> \in Link  BY <1>1, Edge
<1>11. wire' \in [Link -> Seq(Line)]
  <2>1. << >> \in Seq(Line)  OBVIOUS
  <2> HIDE DEF out
  <2> QED  BY <1>8, <1>9, <2>1
<1>12. \A l \in Link : l # <<p, s>> => wire'[l] = Sent(s, out)[l]  BY <1>8, <1>9
<1>13. /\ lc' \in [Server -> [Server -> {"down", "up", "closing"}]] /\ \A t \in Server : t # s => lc'[t] = lc[t]
       /\ \A t, r \in Server : (lc'[t][r] # "down" => lc[t][r] # "down") /\ (lc'[t][r] = "up" => lc[t][r] = "up")
       /\ lc'[s][p] = "down" /\ \A q \in Server : q # p => lc'[s][q] = lc[s][q]
  BY <1>1 DEF Tables, Reap
<1> HIDE DEF out
<1>14. \A q \in Neighbours(s) : q \in Server /\ <<q, s>> \in Link /\ <<s, q>> \in Link /\ <<q, s>>[1] # s /\ <<s, q>> # <<p, s>>
  BY <1>1, Edge
<1>15. ASSUME NEW k, NEW q \in Neighbours(s), CanSend(s, q)
       PROVE  \E o : /\ wire'[<<s, q>>] = wire[<<s, q>>] \o o
                     /\ Fits(k, s, q, Have(k)[s] \cap Beyond(q, s), Of(k, K, M) \cap Beyond(q, s), o)
  <2>1. wire'[<<s, q>>] = wire[<<s, q>>] \o out[q]  BY <1>8, <1>12, <1>14, <1>15
  <2>2. Have(k)[s] \subseteq User /\ Of(k, K, M) = Have(k)[s] \ Beyond(s, p)
    BY <1>1, <1>4 DEF Have, Of, Tables
  <2> DEFINE V == Have(k)[s] \cap Beyond(q, s)
             X == Of(k, K, M) \cap Beyond(q, s)
  <2>3. CASE q = p
    <3>1. X = V
      <4>1. \A u \in User : u \in Beyond(q, s) => u \notin Beyond(s, p)  BY <2>3, OursBeyond
      <4> QED  BY <2>2, <4>1
    <3>2. Fits(k, s, q, V, X, out[q])
      <4> HIDE DEF V, X
      <4> QED  BY <1>7, <2>3, <3>1 DEF Fits
    <3> QED  BY <2>1, <3>2
  <2>4. CASE q # p
    <3>1. out[q] = <<m>>  BY <1>7, <1>14, <2>4
    <3>2. p # q /\ Route[q][p] = s  BY <1>1, <2>4, Onward
    <3>3. Gone(q, p) = Gone(s, p)  BY <1>1, <2>4, GoneForm
    <3>4. X = V \ Gone(q, p)
      <4>1. V \in SUBSET User  BY <2>2
      <4>2. V \ Gone(s, p) = V \ Beyond(s, p)  BY <1>3, <4>1
      <4> QED  BY <2>2, <3>3, <4>2
    <3> HIDE DEF V, X
    <3>5. Moved(k, q, V, m) = X  BY <1>6, <3>4 DEF Moved
    <3>6. Claims(k, q, s, V, m)  BY <1>1, <1>6, <3>2 DEF Claims
    <3>7. Fits(k, s, q, V, X, out[q])  BY <1>6, <3>1, <3>5, <3>6 DEF Fits
    <3> QED  BY <2>1, <3>7 DEF V, X
  <2> QED  BY <2>3, <2>4
<1>16. ASSUME NEW k  PROVE Local(k, s)
  <2>1. Have(k)'[s] = Of(k, K, M) /\ \A t \in Server : t # s => Have(k)'[t] = Have(k)[t]
    <3> HIDE DEF K, M, gone
    <3> QED  BY <1>5, AtForm
  <2>2. Of(k, K, M) = Have(k)[s] \ Beyond(s, p)  BY <1>4 DEF Have, Of
  <2>3. \A l \in Link : l[1] # s /\ l[2] # s => wire'[l] = wire[l]
    <3>1. <<p, s>>[2] = s  OBVIOUS
    <3> QED  BY <1>8, <1>12, <3>1
  <2>4. ASSUME NEW q \in Neighbours(s), lc'[s][q] # "down"
        PROVE  wire'[<<q, s>>] = wire[<<q, s>>] /\ Have(k)'[s] \cap Beyond(s, q) = Have(k)[s] \cap Beyond(s, q)
    <3>1. q # p  BY <1>13, <2>4
    <3>2. <<q, s>> # <<p, s>>  BY <3>1
    <3>3. wire'[<<q, s>>] = wire[<<q, s>>]  BY <1>8, <1>12, <1>14, <3>2
    <3>4. Beyond(s, p) \cap Beyond(s, q) = {}  BY <3>1, Apart
    <3> QED  BY <2>1, <2>2, <3>3, <3>4
  <2>5. ASSUME NEW q \in Neighbours(s)
        PROVE  IF CanSend(s, q)
               THEN \E o : /\ wire'[<<s, q>>] = wire[<<s, q>>] \o o
                           /\ Fits(k, s, q, Have(k)[s] \cap Beyond(q, s), Have(k)'[s] \cap Beyond(q, s), o)
               ELSE wire'[<<s, q>>] = wire[<<s, q>>]
    <3>1. CASE CanSend(s, q)  BY <1>15, <2>1, <3>1
    <3>2. CASE ~CanSend(s, q)  BY <1>8, <1>12, <1>14, <3>2
    <3> QED  BY <3>1, <3>2
  <2> QED  BY <1>13, <2>1, <2>3, <2>4, <2>5 DEF Local
<1>17. now' \in Time /\ spent' = spent /\ spent \in [moves : 0..play.moves, faults : 0..play.faults, refused : 0..play.refused]
  BY <1>1 DEF Reap, Tables
<1>18. spent'.refused = 0 => \A q \in Neighbours(s) : lc'[s][q] = "down" => K \cap Beyond(s, q) = {}
  <2> SUFFICES ASSUME spent.refused = 0, NEW q \in Neighbours(s), lc'[s][q] = "down"  PROVE K \cap Beyond(s, q) = {}
    BY <1>17
  <2>1. CASE q = p  BY <1>4, <2>1
  <2>2. CASE q # p
    <3>1. known[s] \cap Beyond(s, q) = {}  BY <1>13, <1>14, <2>2 DEF Inv, Cut
    <3> QED  BY <3>1
  <2> QED  BY <2>1, <2>2
<1> HIDE DEF K, M, gone
<1> QED  BY <1>5, <1>11, <1>13, <1>16, <1>17, <1>18, StepAt

\* A burst leads to what its sender has of the users on its side.
LEMMA LeadsOptional ==
    ASSUME NEW k, NEW s, NEW p, NEW x, NEW q \in Seq(Msg), NEW r, Leads(k, s, p, x, q, r),
           NEW wanted, NEW m, wanted => m \in Line /\ Claims(k, s, p, r, m)
    PROVE  q \o Optional(wanted, m) \in Seq(Msg)
           /\ Leads(k, s, p, x, q \o Optional(wanted, m), IF wanted THEN Moved(k, s, r, m) ELSE r)
<1>1. CASE wanted
  <2>1. m \in Msg /\ Optional(wanted, m) = <<m>>  BY <1>1 DEF Line, Optional
  <2>2. q \o Optional(wanted, m) = Append(q, m) /\ Append(q, m) \in Seq(Msg)  BY <2>1
  <2>3. Leads(k, s, p, x, Append(q, m), Moved(k, s, r, m))  BY <1>1, <2>1, LeadsOn
  <2> QED  BY <1>1, <2>2, <2>3
<1>2. CASE ~wanted
  <2>1. Optional(wanted, m) = << >>  BY <1>2 DEF Optional
  <2>2. q \o Optional(wanted, m) = q  BY <2>1
  <2> QED  BY <1>2, <2>2
<1> QED  BY <1>1, <1>2

LEMMA BurstLines ==
    ASSUME Inv, NEW s \in Server, NEW us \in SUBSET User
    PROVE  /\ UidLine(us) \in Line /\ UidLine(us).type = "UID" /\ UidLine(us).users = us
           /\ members[s] # {} => BmaskLine(channel[s]) \in Line
           /\ BmaskLine(channel[s]).type = "BMASK"
           /\ channel[s].topic # 0 => TbLine(channel[s]) \in Line
           /\ TbLine(channel[s]).type = "TB"
<1>1. OneCopy(known[s], channel[s], members[s], chanops[s])  BY CopyHere
<1> DEFINE c == channel[s]
<1>2. c \in Copy /\ (members[s] # {} => c.created # 0) /\ (c.topic # 0 => c.topicTime # 0)  BY <1>1 DEF OneCopy
<1>3. /\ c.bans \subseteq User /\ (c.created # 0 => c.created \in Time)
      /\ c.topic # 0 => c.topic \in Topic /\ c.topicTime \in Time
  BY <1>2, BoundType DEF Copy, Time
<1>4. UidLine(us) \in Line /\ UidLine(us).type = "UID" /\ UidLine(us).users = us  BY DEF Line, Msg, UidLine
<1>5. members[s] # {} => BmaskLine(c) \in Line  BY <1>2, <1>3 DEF Line, Msg, BmaskLine
<1>6. c.topic # 0 => TbLine(c) \in Line  BY <1>3 DEF Line, Msg, TbLine
<1>7. BmaskLine(c).type = "BMASK" /\ TbLine(c).type = "TB"  BY DEF BmaskLine, TbLine
<1> QED  BY <1>4, <1>5, <1>6, <1>7

LEMMA ThreeInRow ==
    ASSUME NEW S, NEW a \in Seq(S), NEW b \in Seq(S), NEW c \in Seq(S)
    PROVE  (a \o b) \o c = a \o (b \o c)
  BY ConcatAssociative

LEMMA InRow ==
    ASSUME NEW S, NEW a \in Seq(S), NEW b \in Seq(S), NEW c \in Seq(S), NEW d \in Seq(S)
    PROVE  a \o ((b \o c) \o d) = ((a \o b) \o c) \o d /\ a \o ((b \o c) \o d) \in Seq(S)
<1> DEFINE bc == b \o c
<1>1. bc \in Seq(S) /\ bc \o d \in Seq(S) /\ a \o (bc \o d) \in Seq(S)  OBVIOUS
<1>2. (a \o b) \o c = a \o bc  BY ThreeInRow
<1> HIDE DEF bc
<1>3. (a \o bc) \o d = a \o (bc \o d)  BY <1>1, ThreeInRow
<1> QED  BY <1>1, <1>2, <1>3 DEF bc

LEMMA BurstForm ==
    ASSUME Inv, NEW s \in Server, NEW q \in Neighbours(s)
    PROVE  /\ Burst(s, q) \in Seq(Line)
           /\ Leads("known", q, s, {}, Burst(s, q), known[s] \cap Beyond(q, s))
           /\ Leads("member", q, s, {}, Burst(s, q), members[s] \cap Beyond(q, s))
<1> DEFINE us == known[s] \cap Beyond(q, s)
           ms == members[s] \cap Beyond(q, s)
           c == channel[s]
           m1 == UidLine(us)
           m2 == SjoinLine(c, ms, chanops[s] \cap ms)
           m3 == BmaskLine(c)
           m4 == TbLine(c)
           o1 == Optional(us # {}, m1)
           o2 == Optional(ms # {}, m2)
           o3 == Optional(ms # {} /\ c.bans # {}, m3)
           o4 == Optional(ms # {} /\ TopicSet(c), m4)
<1>1. OneCopy(known[s], c, members[s], chanops[s])  BY CopyHere
<1>2. us \in SUBSET User /\ ms \subseteq us /\ (ms # {} => members[s] # {} /\ c.created # 0)  BY <1>1 DEF OneCopy
<1>3. Ours(s, q, known[s]) = us /\ Ours(s, q, members[s]) = ms
  <2>1. \A V \in SUBSET User : Ours(s, q, V) = V \cap Beyond(q, s)  BY OursBeyond DEF Ours
  <2>2. known[s] \in SUBSET User /\ members[s] \in SUBSET User  BY <1>1 DEF OneCopy
  <2> QED  BY <2>1, <2>2
<1>4. m1 \in Line /\ m1.type = "UID" /\ m1.users = us  BY <1>2, BurstLines
<1>5. ms # {} => m2 \in Line
  <2>1. c \in Copy /\ ms \in SUBSET User /\ chanops[s] \cap ms \in SUBSET User  BY <1>1, <1>2 DEF OneCopy
  <2> QED  BY <1>2, <2>1, SjoinForm
<1>6. m2.type = "SJOIN" /\ m2.members = ms  BY DEF SjoinLine
<1>7. (ms # {} => m3 \in Line) /\ m3.type = "BMASK"  BY <1>2, BurstLines
<1>8. (TopicSet(c) => m4 \in Line) /\ m4.type = "TB"  BY BurstLines DEF TopicSet
<1>9. Burst(s, q) = o1 \o ((o2 \o o3) \o o4)  BY <1>3 DEF Burst, BurstUsers, BurstChannel
<1>10. us \subseteq Beyond(q, s)  OBVIOUS
<1> HIDE DEF m1, m2, m3, m4, us, ms, c
<1>11. o1 \in Seq(Line) /\ o2 \in Seq(Line) /\ o3 \in Seq(Line) /\ o4 \in Seq(Line)
  <2>1. \A m \in Line : <<m>> \in Seq(Line)  OBVIOUS
  <2>2. << >> \in Seq(Line)  OBVIOUS
  <2> QED  BY <1>4, <1>5, <1>7, <1>8, <2>1, <2>2 DEF Optional
<1> DEFINE w1 == << >> \o o1
           w2 == w1 \o o2
           w3 == w2 \o o3
           w4 == w3 \o o4
<1>12. Burst(s, q) = w4 /\ Burst(s, q) \in Seq(Line)
  <2> HIDE DEF o1, o2, o3, o4
  <2>1. w1 = o1  BY <1>11
  <2>2. o1 \o ((o2 \o o3) \o o4) = ((o1 \o o2) \o o3) \o o4 /\ o1 \o ((o2 \o o3) \o o4) \in Seq(Line)
    BY <1>11, InRow
  <2> QED  BY <1>9, <2>1, <2>2
<1>13. << >> \in Seq(Msg) /\ {} \in SUBSET User  OBVIOUS
<1>14. Leads("known", q, s, {}, w4, us)
  <2>1. Leads("known", q, s, {}, << >>, {})  BY <1>13, LeadsNowhere
  <2>2. w1 \in Seq(Msg) /\ Leads("known", q, s, {}, w1, us)
    <3>1. us # {} => m1 \in Line /\ Claims("known", q, s, {}, m1)  BY <1>4, <1>10 DEF Claims
    <3>2. us = IF us # {} THEN Moved("known", q, {}, m1) ELSE {}  BY <1>4 DEF Moved
    <3> QED  BY <1>13, <2>1, <3>1, <3>2, LeadsOptional
  <2>3. w2 \in Seq(Msg) /\ Leads("known", q, s, {}, w2, us)
    <3>1. ms # {} => m2 \in Line /\ Claims("known", q, s, us, m2)  BY <1>2, <1>5, <1>6 DEF Claims
    <3>2. us = IF ms # {} THEN Moved("known", q, us, m2) ELSE us  BY <1>6 DEF Moved
    <3> HIDE DEF w1
    <3> QED  BY <2>2, <3>1, <3>2, LeadsOptional
  <2>4. w3 \in Seq(Msg) /\ Leads("known", q, s, {}, w3, us)
    <3> DEFINE wanted == ms # {} /\ c.bans # {}
    <3>1. wanted => m3 \in Line /\ Claims("known", q, s, us, m3)  BY <1>7 DEF Claims
    <3>2. us = IF wanted THEN Moved("known", q, us, m3) ELSE us  BY <1>7 DEF Moved
    <3> HIDE DEF w2, wanted
    <3>3. w2 \o Optional(wanted, m3) \in Seq(Msg)
          /\ Leads("known", q, s, {}, w2 \o Optional(wanted, m3), IF wanted THEN Moved("known", q, us, m3) ELSE us)
      BY <2>3, <3>1, LeadsOptional
    <3> QED  BY <3>2, <3>3 DEF wanted
  <2>5. Leads("known", q, s, {}, w4, us)
    <3> DEFINE wanted == ms # {} /\ TopicSet(c)
    <3>1. wanted => m4 \in Line /\ Claims("known", q, s, us, m4)  BY <1>8 DEF Claims
    <3>2. us = IF wanted THEN Moved("known", q, us, m4) ELSE us  BY <1>8 DEF Moved
    <3> HIDE DEF w3, wanted
    <3>3. Leads("known", q, s, {}, w3 \o Optional(wanted, m4), IF wanted THEN Moved("known", q, us, m4) ELSE us)
      BY <2>4, <3>1, LeadsOptional
    <3> QED  BY <3>2, <3>3 DEF wanted
  <2> QED  BY <2>5
<1>15. Leads("member", q, s, {}, w4, ms)
  <2>1. Leads("member", q, s, {}, << >>, {})  BY <1>13, LeadsNowhere
  <2>2. w1 \in Seq(Msg) /\ Leads("member", q, s, {}, w1, {})
    <3>1. us # {} => m1 \in Line /\ Claims("member", q, s, {}, m1)  BY <1>4 DEF Claims
    <3>2. {} = IF us # {} THEN Moved("member", q, {}, m1) ELSE {}  BY <1>4 DEF Moved
    <3> QED  BY <1>13, <2>1, <3>1, <3>2, LeadsOptional
  <2>3. w2 \in Seq(Msg) /\ Leads("member", q, s, {}, w2, ms)
    <3>1. ms # {} => m2 \in Line /\ Claims("member", q, s, {}, m2)  BY <1>5, <1>6 DEF Claims
    <3>2. ms = IF ms # {} THEN Moved("member", q, {}, m2) ELSE {}  BY <1>6 DEF Moved
    <3> HIDE DEF w1
    <3> QED  BY <2>2, <3>1, <3>2, LeadsOptional
  <2>4. w3 \in Seq(Msg) /\ Leads("member", q, s, {}, w3, ms)
    <3> DEFINE wanted == ms # {} /\ c.bans # {}
    <3>1. wanted => m3 \in Line /\ Claims("member", q, s, ms, m3)  BY <1>7 DEF Claims
    <3>2. ms = IF wanted THEN Moved("member", q, ms, m3) ELSE ms  BY <1>7 DEF Moved
    <3> HIDE DEF w2, wanted
    <3>3. w2 \o Optional(wanted, m3) \in Seq(Msg)
          /\ Leads("member", q, s, {}, w2 \o Optional(wanted, m3), IF wanted THEN Moved("member", q, ms, m3) ELSE ms)
      BY <2>3, <3>1, LeadsOptional
    <3> QED  BY <3>2, <3>3 DEF wanted
  <2>5. Leads("member", q, s, {}, w4, ms)
    <3> DEFINE wanted == ms # {} /\ TopicSet(c)
    <3>1. wanted => m4 \in Line /\ Claims("member", q, s, ms, m4)  BY <1>8 DEF Claims
    <3>2. ms = IF wanted THEN Moved("member", q, ms, m4) ELSE ms  BY <1>8 DEF Moved
    <3> HIDE DEF w3, wanted
    <3>3. Leads("member", q, s, {}, w3 \o Optional(wanted, m4), IF wanted THEN Moved("member", q, ms, m4) ELSE ms)
      BY <2>4, <3>1, LeadsOptional
    <3> QED  BY <3>2, <3>3 DEF wanted
  <2> QED  BY <2>5
<1> QED
  <2> HIDE DEF w4
  <2> QED  BY <1>12, <1>14, <1>15 DEF us, ms

LEMMA LinkUpInv ==
    ASSUME Inv, NEW a \in Server, NEW b \in Server, LinkUp(a, b), play' = play
    PROVE  Inv'
<1>1. a # b /\ <<a, b>> \in Link /\ <<b, a>> \in Link /\ b \in Neighbours(a) /\ a \in Neighbours(b)
  BY LinkNeighbour, Edge DEF LinkUp
<1>2. UNCHANGED <<play, known, channel, members, chanops, now, spent>>  BY DEF LinkUp, chanVars
<1>3. Tables /\ Wires  BY DEF Inv
<1>4. /\ lc' \in [Server -> [Server -> {"down", "up", "closing"}]] /\ lc'[a][b] = "up" /\ lc'[b][a] = "up"
      /\ \A s, p \in Server : <<s, p>> # <<a, b>> /\ <<s, p>> # <<b, a>> => lc'[s][p] = lc[s][p]
  BY <1>1, <1>3 DEF Tables, LinkUp
<1>5. Burst(a, b) \in Seq(Line) /\ Burst(b, a) \in Seq(Line)  BY <1>1, BurstForm
<1>6. /\ wire' \in [Link -> Seq(Line)] /\ wire'[<<a, b>>] = Burst(a, b) /\ wire'[<<b, a>>] = Burst(b, a)
      /\ \A l \in Link : l # <<a, b>> /\ l # <<b, a>> => wire'[l] = wire[l]
  <2>1. <<a, b>> # <<b, a>>  BY <1>1
  <2>2. wire' = [wire EXCEPT ![<<a, b>>] = Burst(a, b), ![<<b, a>>] = Burst(b, a)]  BY DEF LinkUp
  <2> QED  BY <1>1, <1>3, <1>5, <2>1, <2>2 DEF Wires
<1>7. Tables'  BY <1>2, <1>3, <1>4 DEF Tables
<1>8. Copies'  BY <1>2 DEF Inv, Copies
<1>9. Wires'
  <2>1. Line' = Line  BY <1>2 DEF Line
  <2> QED  BY <1>6, <2>1 DEF Wires
<1>10. Cut'
  <2> SUFFICES ASSUME spent.refused = 0, NEW s \in Server, NEW p \in Neighbours(s), lc'[s][p] = "down"
               PROVE  known[s] \cap Beyond(s, p) = {}
    BY <1>2 DEF Cut
  <2>1. p \in Server  BY Edge
  <2>2. lc[s][p] = "down"  BY <1>4, <2>1
  <2> QED  BY <2>2 DEF Inv, Cut
<1>11. ASSUME NEW k \in {"known", "member"}  PROVE Follow(k)'
  <2>1. Have(k)' = Have(k) /\ Trusted(k)' = Trusted(k)  BY <1>2 DEF Have, Trusted
  <2> SUFFICES ASSUME Trusted(k), NEW s \in Server, NEW p \in Neighbours(s), lc'[s][p] # "down"
               PROVE  Trail(k, s, p, Have(k)[s] \cap Beyond(s, p), wire'[<<p, s>>],
                            Have(k)[p] \cap Beyond(s, p), lc'[p][s] = "up")
    BY <2>1 DEF Follow
  <2>2. p \in Server /\ p # s /\ <<p, s>> \in Link /\ s \in Neighbours(p)  BY Edge
  <2>3. CASE <<s, p>> = <<a, b>> \/ <<s, p>> = <<b, a>>
    <3>1. lc[s][p] = "down" /\ wire'[<<p, s>>] = Burst(p, s)  BY <1>6, <2>3 DEF LinkUp
    <3>2. known[s] \cap Beyond(s, p) = {}  BY <3>1 DEF Trusted, Inv, Cut
    <3>3. Have(k)[s] \cap Beyond(s, p) = {}  BY <3>2, CopyHere DEF Have, OneCopy
    <3>4. Leads(k, s, p, {}, Burst(p, s), Have(k)[p] \cap Beyond(s, p))  BY <2>2, BurstForm DEF Have
    <3> QED  BY <3>1, <3>3, <3>4 DEF Trail
  <2>4. CASE <<s, p>> # <<a, b>> /\ <<s, p>> # <<b, a>>
    <3>1. <<p, s>> # <<a, b>> /\ <<p, s>> # <<b, a>>  BY <2>4
    <3>2. lc'[s][p] = lc[s][p] /\ lc'[p][s] = lc[p][s] /\ wire'[<<p, s>>] = wire[<<p, s>>]
      BY <1>4, <1>6, <2>2, <2>4, <3>1
    <3> QED  BY <3>2 DEF Inv, Follow
  <2> QED  BY <2>3, <2>4
<1> QED  BY <1>7, <1>8, <1>9, <1>10, <1>11 DEF Inv

(***************************************************************************)
(* Lines read.                                                             *)
(***************************************************************************)
LEMMA ReadForm ==
    ASSUME Inv, NEW s \in Server, NEW p \in Server, NEW type, Reading(s, p, type)
    PROVE  /\ p \in Neighbours(s) /\ wire[<<p, s>>] # << >> /\ lc' = lc /\ now' = now /\ lc[s][p] # "down"
           /\ Head(wire[<<p, s>>]) \in Line /\ Head(wire[<<p, s>>]) \in Msg /\ Head(wire[<<p, s>>]).type = type
           /\ \A k \in {"known", "member"} :
                 Trusted(k) => Claims(k, s, p, Have(k)[s] \cap Beyond(s, p), Head(wire[<<p, s>>]))
<1>1. p \in Neighbours(s)  BY DEF Reading, Neighbours
<1>2. wire[<<p, s>>] # << >> /\ lc' = lc /\ now' = now /\ lc[s][p] # "down" /\ Head(wire[<<p, s>>]).type = type
  BY DEF Reading
<1>3. wire[<<p, s>>] \in Seq(Line)  BY <1>1, Edge DEF Inv, Wires
<1>4. Head(wire[<<p, s>>]) \in Line  BY <1>2, <1>3
<1>5. Head(wire[<<p, s>>]) \in Msg  BY <1>4 DEF Line
<1>6. ASSUME NEW k \in {"known", "member"}, Trusted(k)
      PROVE  Claims(k, s, p, Have(k)[s] \cap Beyond(s, p), Head(wire[<<p, s>>]))
  <2>1. Follow(k)  BY DEF Inv
  <2>2. Trail(k, s, p, Have(k)[s] \cap Beyond(s, p), wire[<<p, s>>], Have(k)[p] \cap Beyond(s, p), lc[p][s] = "up")
    BY <1>1, <1>2, <1>6, <2>1 DEF Follow
  <2>3. wire[<<p, s>>] \in Seq(Msg)  BY <1>1, Edge, WireForm DEF Inv
  <2> QED  BY <1>2, <2>2, <2>3, TrailRead
<1> QED  BY <1>1, <1>2, <1>4, <1>5, <1>6

\* The line m from p takes what s has from V to X, and is about users beyond p only.
Within(k, s, p, m) ==
    /\ m.type = "UID" /\ k = "known" => m.users \subseteq Beyond(s, p)
    /\ m.type = "QUIT" \/ (m.type = "PART" /\ k = "member") => m.user \in Beyond(s, p)
    /\ m.type = "SQUIT" => m.sid \in Server /\ m.sid # s /\ m.sid # p /\ Route[s][m.sid] = p
    /\ m.type = "SJOIN" /\ k = "member" => m.members \subseteq Beyond(s, p)
    /\ m.type = "JOIN" /\ k = "member" => m.user \in Beyond(s, p)
Relays(k, s, p, V, X, m) == X = Moved(k, s, V, m) /\ Within(k, s, p, m)

\* Whoever is beyond p is so for s, and for everyone else who hears of him through s.
MovesOnly(k, s, p, V, X, m) ==
    /\ X \cap Beyond(s, p) = Moved(k, s, V \cap Beyond(s, p), m)
    /\ X \cap Beyond(p, s) = V \cap Beyond(p, s)
    /\ \A q \in Neighbours(s) : q # p =>
          X \cap Beyond(s, q) = V \cap Beyond(s, q) /\ X \cap Beyond(q, s) = Moved(k, q, V \cap Beyond(q, s), m)

LEMMA MovedWithin ==
    ASSUME NEW k, NEW s \in Server, NEW p \in Neighbours(s), NEW m \in Msg,
           NEW V \in SUBSET User, NEW X, Relays(k, s, p, V, X, m)
    PROVE  MovesOnly(k, s, p, V, X, m)
<1>1. X = Moved(k, s, V, m) /\ Within(k, s, p, m)  BY DEF Relays
<1>2. p \in Server /\ p # s /\ s \in Neighbours(p)  BY Edge
<1>3. m.type = "SQUIT" => /\ \A u \in Gone(s, m.sid) : u \in Beyond(s, p)
                          /\ \A q \in Neighbours(s) : q # p => Gone(q, m.sid) = Gone(s, m.sid)
  <2> SUFFICES ASSUME m.type = "SQUIT"
               PROVE  /\ \A u \in Gone(s, m.sid) : u \in Beyond(s, p)
                      /\ \A q \in Neighbours(s) : q # p => Gone(q, m.sid) = Gone(s, m.sid)
    OBVIOUS
  <2>1. m.sid \in Server /\ m.sid # s /\ Route[s][m.sid] = p  BY <1>1 DEF Within
  <2>2. \A u \in Gone(s, m.sid) : u \in Beyond(s, p)  BY <2>1, GoneForm DEF Gone, Beyond
  <2>3. ASSUME NEW q \in Neighbours(s), q # p  PROVE Gone(q, m.sid) = Gone(s, m.sid)
    <3>1. m.sid # q  BY <2>1, <2>3, Onward
    <3> QED  BY <2>1, <3>1, GoneForm
  <2> QED  BY <2>2, <2>3
<1>4. \E A \in SUBSET Beyond(s, p) :
        \/ /\ X = V \cup A /\ Moved(k, s, V \cap Beyond(s, p), m) = (V \cap Beyond(s, p)) \cup A
           /\ \A q \in Neighbours(s) : q # p => Moved(k, q, V \cap Beyond(q, s), m) = (V \cap Beyond(q, s)) \cup A
        \/ /\ X = V \ A /\ Moved(k, s, V \cap Beyond(s, p), m) = (V \cap Beyond(s, p)) \ A
           /\ \A q \in Neighbours(s) : q # p => Moved(k, q, V \cap Beyond(q, s), m) = (V \cap Beyond(q, s)) \ A
  <2>1. CASE m.type = "UID" /\ k = "known"
    <3>1. m.users \in SUBSET Beyond(s, p)  BY <1>1, <2>1 DEF Within
    <3>2. \A r, Y : Moved(k, r, Y, m) = Y \cup m.users  BY <2>1 DEF Moved
    <3> QED  BY <1>1, <3>1, <3>2
  <2>2. CASE m.type = "QUIT" \/ (m.type = "PART" /\ k = "member")
    <3>1. {m.user} \in SUBSET Beyond(s, p)  BY <1>1, <2>2 DEF Within
    <3>2. \A r, Y : Moved(k, r, Y, m) = Y \ {m.user}  BY <2>2 DEF Moved
    <3> QED  BY <1>1, <3>1, <3>2
  <2>3. CASE m.type = "SQUIT"
    <3>1. Gone(s, m.sid) \in SUBSET Beyond(s, p)  BY <1>3, <2>3
    <3>2. \A r, Y : Moved(k, r, Y, m) = Y \ Gone(r, m.sid)  BY <2>3 DEF Moved
    <3> QED  BY <1>1, <1>3, <2>3, <3>1, <3>2
  <2>4. CASE m.type = "SJOIN" /\ k = "member"
    <3>1. m.members \in SUBSET Beyond(s, p)  BY <1>1, <2>4 DEF Within
    <3>2. \A r, Y : Moved(k, r, Y, m) = Y \cup m.members  BY <2>4 DEF Moved
    <3> QED  BY <1>1, <3>1, <3>2
  <2>5. CASE m.type = "JOIN" /\ k = "member"
    <3>1. {m.user} \in SUBSET Beyond(s, p)  BY <1>1, <2>5 DEF Within
    <3>2. \A r, Y : Moved(k, r, Y, m) = Y \cup {m.user}  BY <2>5 DEF Moved
    <3> QED  BY <1>1, <3>1, <3>2
  <2>6. CASE ~(\/ m.type = "UID" /\ k = "known"
               \/ m.type = "QUIT" \/ (m.type = "PART" /\ k = "member")
               \/ m.type = "SQUIT"
               \/ m.type = "SJOIN" /\ k = "member"
               \/ m.type = "JOIN" /\ k = "member")
    <3>1. \A r, Y : Moved(k, r, Y, m) = Y \cup {}  BY <2>6 DEF Moved
    <3>2. {} \in SUBSET Beyond(s, p)  OBVIOUS
    <3> QED  BY <1>1, <3>1, <3>2
  <2> QED  BY <2>1, <2>2, <2>3, <2>4, <2>5, <2>6
<1>5. Beyond(s, p) \cap Beyond(p, s) = {}
  <2>1. \A u \in User : u \in Beyond(p, s) <=> u \notin Beyond(s, p)  BY OursBeyond
  <2> QED  BY <2>1 DEF Beyond
<1>6. \A q \in Neighbours(s) : q # p => Beyond(s, p) \cap Beyond(s, q) = {}  BY Apart
<1>7. \A q \in Neighbours(s) : q # p => Beyond(s, p) \subseteq Beyond(q, s)
  <2> SUFFICES ASSUME NEW q \in Neighbours(s), q # p  PROVE Beyond(s, p) \subseteq Beyond(q, s)
    OBVIOUS
  <2>1. \A u \in User : u \in Beyond(q, s) <=> u \notin Beyond(s, q)  BY OursBeyond
  <2>2. Beyond(s, p) \subseteq User  BY DEF Beyond
  <2> QED  BY <1>6, <2>1, <2>2
<1>8. X \cap Beyond(s, p) = Moved(k, s, V \cap Beyond(s, p), m) /\ X \cap Beyond(p, s) = V \cap Beyond(p, s)
  BY <1>4, <1>5
<1>9. \A q \in Neighbours(s) : q # p =>
        X \cap Beyond(s, q) = V \cap Beyond(s, q) /\ X \cap Beyond(q, s) = Moved(k, q, V \cap Beyond(q, s), m)
  BY <1>4, <1>6, <1>7
<1> QED  BY <1>8, <1>9 DEF MovesOnly

LEMMA ClaimsOn ==
    ASSUME NEW k \in {"known", "member"}, NEW s \in Server, NEW p \in Neighbours(s), NEW m \in Msg, Within(k, s, p, m),
           NEW V \in SUBSET User, Claims(k, s, p, V \cap Beyond(s, p), m), NEW q \in Neighbours(s), q # p
    PROVE  Claims(k, q, s, V \cap Beyond(q, s), m)
<1>1. Beyond(s, p) \subseteq Beyond(q, s)
  <2>1. \A u \in User : u \in Beyond(q, s) <=> u \notin Beyond(s, q)  BY OursBeyond
  <2>2. Beyond(s, p) \subseteq User  BY DEF Beyond
  <2>3. Beyond(s, p) \cap Beyond(s, q) = {}  BY Apart
  <2> QED  BY <2>1, <2>2, <2>3
<1>2. m.type = "SQUIT" => m.sid # q /\ m.sid # s /\ Route[q][m.sid] = s  BY Onward DEF Within
<1>3. CASE k = "known"
  <2>1. /\ m.type # "KILL" /\ (m.type = "UID" => m.users \subseteq Beyond(s, p))
        /\ (m.type = "SJOIN" => m.members # {} /\ m.members \subseteq V \cap Beyond(s, p))
        /\ (m.type = "JOIN" => m.user \in V \cap Beyond(s, p))
    BY <1>3 DEF Claims
  <2> QED  BY <1>1, <1>2, <1>3, <2>1 DEF Claims
<1>4. CASE k = "member"
  <2>1. m.type # "KICK"  BY <1>4 DEF Claims
  <2> QED  BY <1>1, <1>4, <2>1 DEF Claims
<1> QED  BY <1>3, <1>4

LEMMA Forwarded ==
    ASSUME Inv, NEW s \in Server, NEW p \in Neighbours(s), NEW K, NEW c, NEW M, NEW O, At(s, K, c, M, O), lc' = lc,
           wire[<<p, s>>] # << >>, NEW m \in Line, m = Head(wire[<<p, s>>]), PassOn(s, p), NEW k \in {"known", "member"},
           Claims(k, s, p, Have(k)[s] \cap Beyond(s, p), m), Relays(k, s, p, Have(k)[s], Of(k, K, M), m)
    PROVE  Local(k, s)
<1> DEFINE out == Flood(p, <<m>>)
           V == Have(k)[s]
           X == Of(k, K, M)
<1>1. p \in Server /\ \A q \in Neighbours(s) : q \in Server  BY Edge
<1>2. out \in [Server -> Seq(Line)] /\ out[p] = << >> /\ \A q \in Server : q # p => out[q] = <<m>>
  <2>1. <<m>> \in Seq(Line) /\ p \in Server  BY <1>1
  <2> QED  BY <2>1, OutForm
<1>3. wire' = SentOnRead(s, p, out)  BY DEF PassOn
<1>4. m \in Msg /\ V \in SUBSET User /\ X = Moved(k, s, V, m) /\ Within(k, s, p, m)
  BY DEF Line, Relays, Inv, Tables, Have
<1> HIDE DEF out, V, X
<1>5. MovesOnly(k, s, p, V, X, m)
  <2>1. Relays(k, s, p, V, X, m)  BY DEF V, X
  <2> QED  BY <1>4, <2>1, MovedWithin
<1>6. ASSUME NEW q \in Neighbours(s)
      PROVE  /\ q # p => X \cap Beyond(s, q) = V \cap Beyond(s, q)
             /\ Fits(k, s, q, V \cap Beyond(q, s), X \cap Beyond(q, s), out[q])
  <2>1. CASE q = p  BY <1>2, <1>5, <2>1 DEF Fits, MovesOnly
  <2>2. CASE q # p
    <3>1. out[q] = <<m>>  BY <1>1, <1>2, <2>2
    <3>2. Claims(k, s, p, V \cap Beyond(s, p), m)  BY DEF V
    <3>3. Claims(k, q, s, V \cap Beyond(q, s), m)  BY <1>4, <2>2, <3>2, ClaimsOn
    <3> QED  BY <1>4, <1>5, <2>2, <3>1, <3>3 DEF Fits, MovesOnly
  <2> QED  BY <2>1, <2>2
<1>7. X \cap Beyond(s, p) = Moved(k, s, V \cap Beyond(s, p), m)  BY <1>5 DEF MovesOnly
<1> QED  BY <1>2, <1>3, <1>6, <1>7, Reads DEF V, X

LEMMA Ignored ==
    ASSUME Inv, NEW s \in Server, NEW p \in Neighbours(s), NEW K, NEW c, NEW M, NEW O, At(s, K, c, M, O), lc' = lc,
           wire[<<p, s>>] # << >>, NEW m \in Line, m = Head(wire[<<p, s>>]), Swallow(s, p), NEW k \in {"known", "member"},
           Of(k, K, M) = Have(k)[s], Moved(k, s, Have(k)[s] \cap Beyond(s, p), m) = Have(k)[s] \cap Beyond(s, p)
    PROVE  Local(k, s)
<1>1. Nothing \in [Server -> Seq(Line)] /\ \A q \in Server : Nothing[q] = << >>
  <2>1. << >> \in Seq(Line)  OBVIOUS
  <2> QED  BY <2>1, OutForm
<1>2. \A q \in Neighbours(s) : Nothing[q] = << >>  BY <1>1, Edge
<1>3. wire' = SentOnRead(s, p, Nothing)  BY DEF Swallow
<1>4. \A q \in Neighbours(s) :
        /\ q # p => Of(k, K, M) \cap Beyond(s, q) = Have(k)[s] \cap Beyond(s, q)
        /\ Fits(k, s, q, Have(k)[s] \cap Beyond(q, s), Of(k, K, M) \cap Beyond(q, s), Nothing[q])
  BY <1>2 DEF Fits
<1> QED  BY <1>1, <1>3, <1>4, Reads

\* What the handlers of lines from users behind p do, at s, with the line they pass on or drop.
LEMMA ReadPassed ==
    ASSUME Inv, NEW s \in Server, NEW p \in Server, NEW type, Reading(s, p, type),
           NEW K, NEW c, NEW M, NEW O, At(s, K, c, M, O), UNCHANGED <<play, spent>>, PassOn(s, p),
           OneCopy(K, c, M, O),
           NEW m, m = Head(wire[<<p, s>>]),
           Trusted("known") => Relays("known", s, p, known[s], K, m),
           Trusted("member") => Relays("member", s, p, members[s], M, m)
    PROVE  Inv'
<1>1. /\ p \in Neighbours(s) /\ wire[<<p, s>>] # << >> /\ lc' = lc /\ now' = now /\ lc[s][p] # "down"
      /\ m \in Line /\ m \in Msg /\ m.type = type
      /\ \A k \in {"known", "member"} : Trusted(k) => Claims(k, s, p, Have(k)[s] \cap Beyond(s, p), m)
  BY ReadForm
<1>2. ASSUME NEW k \in {"known", "member"}, Trusted(k)  PROVE Local(k, s)
  <2>1. Relays(k, s, p, Have(k)[s], Of(k, K, M), m)  BY <1>2 DEF Have, Of
  <2> QED  BY <1>1, <1>2, <2>1, Forwarded
<1>3. Trusted("known")' = Trusted("known") /\ Trusted("member")' = Trusted("member")  BY DEF Trusted
<1>4. Tables /\ Wires  BY DEF Inv
<1>5. wire' \in [Link -> Seq(Line)]
  <2>1. <<m>> \in Seq(Line)  BY <1>1
  <2>2. Flood(p, <<m>>) \in [Server -> Seq(Line)]  BY <2>1, OutForm
  <2> QED  BY <1>1, <1>4, <2>2, SentOnReadForm DEF PassOn
<1>6. spent'.refused = 0 => \A q \in Neighbours(s) : lc'[s][q] = "down" => K \cap Beyond(s, q) = {}
  <2> SUFFICES ASSUME spent.refused = 0, NEW q \in Neighbours(s), lc[s][q] = "down"  PROVE K \cap Beyond(s, q) = {}
    BY <1>1
  <2>1. known[s] \cap Beyond(s, q) = {} /\ q # p  BY <1>1 DEF Inv, Cut
  <2>2. Relays("known", s, p, known[s], K, m)  BY DEF Trusted
  <2>3. known[s] \in SUBSET User  BY <1>4 DEF Tables
  <2>4. MovesOnly("known", s, p, known[s], K, m)  BY <1>1, <2>2, <2>3, MovedWithin
  <2> QED  BY <2>1, <2>4 DEF MovesOnly
<1>7. /\ now' \in Time /\ lc' \in [Server -> [Server -> {"down", "up", "closing"}]] /\ \A t \in Server : t # s => lc'[t] = lc[t]
      /\ spent' \in [moves : 0..play.moves, faults : 0..play.faults, refused : 0..play.refused] /\ spent'.refused = spent.refused
  BY <1>1, <1>4 DEF Tables
<1> QED  BY <1>2, <1>3, <1>5, <1>6, <1>7, StepAt

LEMMA ReadIgnored ==
    ASSUME Inv, NEW s \in Server, NEW p \in Server, NEW type, Reading(s, p, type),
           UNCHANGED <<known, channel, members, chanops, play, spent>>, Swallow(s, p), NEW m, m = Head(wire[<<p, s>>]),
           Trusted("known") => Moved("known", s, known[s] \cap Beyond(s, p), m) = known[s] \cap Beyond(s, p),
           Trusted("member") => Moved("member", s, members[s] \cap Beyond(s, p), m) = members[s] \cap Beyond(s, p)
    PROVE  Inv'
<1>1. /\ p \in Neighbours(s) /\ wire[<<p, s>>] # << >> /\ lc' = lc /\ now' = now /\ m \in Line
  BY ReadForm
<1>2. Tables /\ Wires  BY DEF Inv
<1>3. At(s, known[s], channel[s], members[s], chanops[s])  BY <1>2 DEF Tables, At
<1>4. ASSUME NEW k \in {"known", "member"}, Trusted(k)  PROVE Local(k, s)
  <2>1. Of(k, known[s], members[s]) = Have(k)[s]  BY DEF Of, Have
  <2>2. Moved(k, s, Have(k)[s] \cap Beyond(s, p), m) = Have(k)[s] \cap Beyond(s, p)  BY <1>4 DEF Have
  <2> QED  BY <1>1, <1>3, <2>1, <2>2, Ignored
<1>5. Trusted("known")' = Trusted("known") /\ Trusted("member")' = Trusted("member")  BY DEF Trusted
<1>6. wire' \in [Link -> Seq(Line)]
  <2>1. << >> \in Seq(Line)  OBVIOUS
  <2>2. Nothing \in [Server -> Seq(Line)]  BY <2>1, OutForm
  <2> QED  BY <1>1, <1>2, <2>2, SentOnReadForm DEF Swallow
<1>7. spent'.refused = 0 => \A q \in Neighbours(s) : lc'[s][q] = "down" => known[s] \cap Beyond(s, q) = {}
  BY <1>1 DEF Inv, Cut
<1>8. /\ now' \in Time /\ lc' \in [Server -> [Server -> {"down", "up", "closing"}]] /\ \A t \in Server : t # s => lc'[t] = lc[t]
      /\ spent' \in [moves : 0..play.moves, faults : 0..play.faults, refused : 0..play.refused] /\ spent'.refused = spent.refused
  BY <1>1, <1>2 DEF Tables
<1>9. OneCopy(known[s], channel[s], members[s], chanops[s])  BY CopyHere
<1> QED  BY <1>3, <1>4, <1>5, <1>6, <1>7, <1>8, <1>9, StepAt

\* src_user finds just the users that are beyond the sender.
LEMMA SrcUserForm ==
    ASSUME Inv, NEW s \in Server, NEW p \in Neighbours(s), NEW u
    PROVE  SrcUser(s, p, u) <=> u \in known[s] \cap Beyond(s, p)
<1>1. known[s] \subseteq User  BY DEF Inv, Tables
<1>2. u \in known[s] => (u \in Beyond(s, p) <=> Home[u] # s /\ IsBehind(s, Home[u], p))  BY <1>1, Behind
<1> QED  BY <1>2 DEF SrcUser, Remote

LEMMA HandleQuitInv ==
    ASSUME Inv, NEW s \in Server, NEW p \in Server, HandleQuit(s, p), play' = play
    PROVE  Inv'
<1> DEFINE m == Head(wire[<<p, s>>])
           u == m.user
           K == known[s] \ {u}
           M == members[s] \ {u}
<1>1. Reading(s, p, "QUIT") /\ UNCHANGED <<play, spent>>  BY DEF HandleQuit
<1>2. p \in Neighbours(s) /\ m.type = "QUIT"  BY <1>1, ReadForm
<1>3. SrcUser(s, p, u) <=> u \in known[s] \cap Beyond(s, p)  BY <1>2, SrcUserForm
<1>4. OneCopy(known[s], channel[s], members[s], chanops[s])  BY CopyHere
<1>5. CASE SrcUser(s, p, u)
  <2>1. known' = [known EXCEPT ![s] = K] /\ Leave(s, {u}) /\ PassOn(s, p)  BY <1>5 DEF HandleQuit, RemoveLocal
  <2>2. K \subseteq User /\ M \subseteq K  BY <1>4 DEF OneCopy
  <2>3. PICK c : At(s, K, c, M, chanops[s] \ {u}) /\ OneCopy(K, c, M, chanops[s] \ {u})  BY <2>1, <2>2, Left
  <2> HIDE DEF m
  <2>4. Relays("known", s, p, known[s], K, m) /\ Relays("member", s, p, members[s], M, m)
    BY <1>2, <1>3, <1>5 DEF Relays, Moved, Within
  <2> HIDE DEF K, M
  <2> QED  BY <1>1, <2>1, <2>3, <2>4, ReadPassed DEF m
<1>6. CASE ~SrcUser(s, p, u)
  <2>1. UNCHANGED <<known, channel, members, chanops>> /\ Swallow(s, p)  BY <1>6 DEF HandleQuit, chanVars
  <2> HIDE DEF m
  <2>2. /\ Moved("known", s, known[s] \cap Beyond(s, p), m) = known[s] \cap Beyond(s, p)
        /\ Moved("member", s, members[s] \cap Beyond(s, p), m) = members[s] \cap Beyond(s, p)
    BY <1>2, <1>3, <1>4, <1>6 DEF Moved, OneCopy
  <2> QED  BY <1>1, <2>1, <2>2, ReadIgnored DEF m
<1> QED  BY <1>5, <1>6

LEMMA HandleSquitInv ==
    ASSUME Inv, NEW s \in Server, NEW p \in Server, HandleSquit(s, p), play' = play
    PROVE  Inv'
<1> DEFINE m == Head(wire[<<p, s>>])
           gone == UsersBehind(s, m.sid)
           K == known[s] \ gone
           M == members[s] \ gone
<1>1. Reading(s, p, "SQUIT") /\ UNCHANGED <<play, spent>> /\ PassOn(s, p)  BY DEF HandleSquit
<1>2. /\ p \in Neighbours(s) /\ m.type = "SQUIT" /\ m \in Msg
      /\ Trusted("known") => Claims("known", s, p, Have("known")[s] \cap Beyond(s, p), m)
  BY <1>1, ReadForm
<1>3. OneCopy(known[s], channel[s], members[s], chanops[s])  BY CopyHere
<1>4. K \subseteq User /\ M \subseteq K  BY <1>3 DEF OneCopy
<1>5. known' = [known EXCEPT ![s] = K] /\ Leave(s, gone)  BY DEF HandleSquit, RemoveServerTree
<1>6. PICK c : At(s, K, c, M, chanops[s] \ gone) /\ OneCopy(K, c, M, chanops[s] \ gone)
  BY <1>4, <1>5, Left
<1> HIDE DEF m
<1>7. Trusted("known") => Relays("known", s, p, known[s], K, m) /\ Relays("member", s, p, members[s], M, m)
  <2> SUFFICES ASSUME Trusted("known")
               PROVE  Relays("known", s, p, known[s], K, m) /\ Relays("member", s, p, members[s], M, m)
    OBVIOUS
  <2>1. m.sid \in Server /\ m.sid # s /\ m.sid # p /\ Route[s][m.sid] = p  BY <1>2, MsgForm DEF Claims
  <2>2. K = known[s] \ Gone(s, m.sid) /\ M = members[s] \ Gone(s, m.sid)  BY <2>1, ForgottenForm
  <2> HIDE DEF K, M, gone
  <2> QED  BY <1>2, <2>1, <2>2 DEF Relays, Moved, Within
<1>8. Trusted("member") => Trusted("known")  BY DEF Trusted
<1> HIDE DEF K, M, gone
<1> QED  BY <1>1, <1>6, <1>7, <1>8, ReadPassed DEF m

LEMMA SjoinCopy ==
    ASSUME NEW c \in Copy, NEW m \in Msg, m.type = "SJOIN"
    PROVE  /\ Replaced(c, m) \in Copy /\ Replaced(c, m).created # 0
           /\ Replaced(c, m).topic = c.topic /\ Replaced(c, m).topicTime = c.topicTime
           /\ Merged(c, m) \in Copy /\ Merged(c, m).created = c.created
           /\ Merged(c, m).topic = c.topic /\ Merged(c, m).topicTime = c.topicTime
<1>1. m.ts \in 0..MaxTS /\ m.ts # 0 /\ m.flags \subseteq Flag /\ m.key \in Key \cup {NoKey}
  <2>1. m.ts \in Time /\ m.flags \subseteq Flag /\ m.key \in Key \cup {NoKey}  BY MsgForm
  <2> QED  BY <2>1, BoundType DEF Time
<1>2. Replaced(c, m) \in Copy  BY <1>1 DEF Copy, Replaced
<1>3. Replaced(c, m).created # 0 /\ Replaced(c, m).topic = c.topic /\ Replaced(c, m).topicTime = c.topicTime
  BY <1>1 DEF Copy, Replaced
<1>4. Merged(c, m) \in Copy  BY <1>1 DEF Copy, Merged
<1>5. /\ Merged(c, m).created = c.created
      /\ Merged(c, m).topic = c.topic /\ Merged(c, m).topicTime = c.topicTime
  BY <1>1 DEF Copy, Merged
<1> QED  BY <1>2, <1>3, <1>4, <1>5

LEMMA HandleSjoinInv ==
    ASSUME Inv, NEW s \in Server, NEW p \in Server, HandleSjoin(s, p), play' = play
    PROVE  Inv'
<1> DEFINE m == Head(wire[<<p, s>>])
           c == IF Older(s, m) THEN Replaced(channel[s], m)
                ELSE IF SameAge(s, m) THEN Merged(channel[s], m) ELSE channel[s]
           M == members[s] \cup Newcomers(s, m)
           O == OldRanks(s, m) \cup NewRanks(s, m)
<1>1. Reading(s, p, "SJOIN") /\ UNCHANGED <<play, spent>> /\ PassOn(s, p)  BY DEF HandleSjoin
<1>2. /\ p \in Neighbours(s) /\ m.type = "SJOIN" /\ m \in Msg
      /\ Trusted("known") => Claims("known", s, p, Have("known")[s] \cap Beyond(s, p), m)
  BY <1>1, ReadForm
<1>3. OneCopy(known[s], channel[s], members[s], chanops[s])  BY CopyHere
<1>4. At(s, known[s], c, M, O)
  <2>1. known' = [known EXCEPT ![s] = known[s]]  BY DEF Inv, Tables, HandleSjoin
  <2>2. channel' = [channel EXCEPT ![s] = c] /\ members' = [members EXCEPT ![s] = M] /\ chanops' = [chanops EXCEPT ![s] = O]
    BY DEF HandleSjoin
  <2> QED  BY <2>1, <2>2 DEF At
<1> HIDE DEF m
<1>5. Trusted("known") => m.members # {} /\ m.members \subseteq known[s] \cap Beyond(s, p)
  BY <1>2 DEF Claims, Have
<1>6. Trusted("known") => M = members[s] \cup m.members
  <2> SUFFICES ASSUME Trusted("known"), NEW u \in m.members  PROVE u \in known[s] /\ Remote(s, u)
    BY DEF Newcomers
  <2>1. u \in known[s] \cap Beyond(s, p)  BY <1>5
  <2> QED  BY <2>1 DEF Beyond, Remote
<1>7. M \subseteq known[s] /\ O \subseteq M
  <2>1. Newcomers(s, m) \subseteq known[s] /\ NewRanks(s, m) \subseteq Newcomers(s, m) /\ OldRanks(s, m) \subseteq chanops[s]
    BY DEF Newcomers, NewRanks, OldRanks
  <2> QED  BY <1>3, <2>1 DEF OneCopy
<1>8. /\ c \in Copy /\ c.created # 0 /\ c.topic = channel[s].topic /\ c.topicTime = channel[s].topicTime
  <2>1. channel[s] \in Copy  BY <1>3 DEF OneCopy
  <2>2. ~Older(s, m) => channel[s].created # 0  BY DEF Older, Exists
  <2>3. /\ Replaced(channel[s], m) \in Copy /\ Replaced(channel[s], m).created # 0
        /\ Replaced(channel[s], m).topic = channel[s].topic /\ Replaced(channel[s], m).topicTime = channel[s].topicTime
        /\ Merged(channel[s], m) \in Copy /\ Merged(channel[s], m).created = channel[s].created
        /\ Merged(channel[s], m).topic = channel[s].topic /\ Merged(channel[s], m).topicTime = channel[s].topicTime
    BY <1>2, <2>1, SjoinCopy
  <2> QED  BY <2>1, <2>2, <2>3
<1> HIDE DEF c, M, O
<1>9. OneCopy(known[s], c, M, O)  BY <1>3, <1>7, <1>8 DEF OneCopy
<1>10. Trusted("known") => Relays("known", s, p, known[s], known[s], m) /\ Relays("member", s, p, members[s], M, m)
  BY <1>2, <1>5, <1>6 DEF Relays, Moved, Within
<1>11. Trusted("member") => Trusted("known")  BY DEF Trusted
<1> QED  BY <1>1, <1>4, <1>9, <1>10, <1>11, ReadPassed DEF m

\* A line that changes nothing but the modes, the list or the topic of a channel that is there.
LEMMA ReadOther ==
    ASSUME Inv, NEW s \in Server, NEW p \in Server, NEW type, Reading(s, p, type), PassOn(s, p),
           type \in {"BMASK", "TB", "TOPIC", "MODE"}, UNCHANGED <<known, members, play, spent>>,
           NEW c, NEW O, channel' = [channel EXCEPT ![s] = c], chanops' = [chanops EXCEPT ![s] = O],
           OneCopy(known[s], c, members[s], O)
    PROVE  Inv'
<1> DEFINE m == Head(wire[<<p, s>>])
<1>1. m.type = type  BY ReadForm
<1>2. At(s, known[s], c, members[s], O)  BY DEF Inv, Tables, At
<1> HIDE DEF m
<1>3. \A k, V : Relays(k, s, p, V, V, m)  BY <1>1 DEF Relays, Moved, Within
<1> QED  BY <1>2, <1>3, ReadPassed DEF m

LEMMA HandleBmaskInv ==
    ASSUME Inv, NEW s \in Server, NEW p \in Server, HandleBmask(s, p), play' = play
    PROVE  Inv'
<1> DEFINE m == Head(wire[<<p, s>>])
           c == IF ListsCount(s, m) THEN [channel[s] EXCEPT !.bans = channel[s].bans \cup m.masks] ELSE channel[s]
<1>1. Reading(s, p, "BMASK") /\ UNCHANGED <<known, members, play, spent>> /\ PassOn(s, p)  BY DEF HandleBmask
<1>2. m.type = "BMASK" /\ m \in Msg  BY <1>1, ReadForm
<1>3. OneCopy(known[s], channel[s], members[s], chanops[s])  BY CopyHere
<1>4. channel' = [channel EXCEPT ![s] = c] /\ chanops' = [chanops EXCEPT ![s] = chanops[s]]
  <2>1. chanops' = chanops /\ chanops \in [Server -> SUBSET User]  BY DEF HandleBmask, Inv, Tables
  <2>2. channel' = [channel EXCEPT ![s] = c]  BY DEF HandleBmask
  <2> HIDE DEF c
  <2> QED  BY <2>1, <2>2
<1> HIDE DEF m
<1>5. c \in Copy /\ c.created = channel[s].created /\ c.flags = channel[s].flags
      /\ c.topic = channel[s].topic /\ c.topicTime = channel[s].topicTime
  <2>1. m.masks \subseteq User  BY <1>2, MsgForm
  <2>2. channel[s] \in Copy  BY <1>3 DEF OneCopy
  <2> QED  BY <2>1, <2>2 DEF Copy
<1> HIDE DEF c
<1>6. OneCopy(known[s], c, members[s], chanops[s])  BY <1>3, <1>5 DEF OneCopy
<1> QED  BY <1>1, <1>4, <1>6, ReadOther

LEMMA HandleTbInv ==
    ASSUME Inv, NEW s \in Server, NEW p \in Server, HandleTb(s, p), play' = play
    PROVE  Inv'
<1> DEFINE m == Head(wire[<<p, s>>])
           c == IF TopicWins(channel[s], m) THEN [channel[s] EXCEPT !.topic = m.topic, !.topicTime = m.ts] ELSE channel[s]
<1>1. Reading(s, p, "TB") /\ UNCHANGED <<known, members, play, spent>> /\ PassOn(s, p)  BY DEF HandleTb
<1>2. m.type = "TB" /\ m \in Msg  BY <1>1, ReadForm
<1>3. OneCopy(known[s], channel[s], members[s], chanops[s])  BY CopyHere
<1>4. channel' = [channel EXCEPT ![s] = c] /\ chanops' = [chanops EXCEPT ![s] = chanops[s]]
  BY DEF HandleTb, Inv, Tables
<1> HIDE DEF m
<1>5. c \in Copy /\ c.created = channel[s].created /\ c.flags = channel[s].flags
      /\ (c = channel[s] \/ c.topicTime # 0)
  <2>1. m.topic \in Topic /\ m.ts \in 0..MaxTS /\ m.ts # 0
    <3>1. m.topic \in Topic /\ m.ts \in Time  BY <1>2, MsgForm
    <3> QED  BY <3>1, BoundType DEF Time
  <2>2. channel[s] \in Copy  BY <1>3 DEF OneCopy
  <2> QED  BY <2>1, <2>2 DEF Copy
<1> HIDE DEF c
<1>6. OneCopy(known[s], c, members[s], chanops[s])  BY <1>3, <1>5 DEF OneCopy
<1> QED  BY <1>1, <1>4, <1>6, ReadOther

\* A line whose source is not behind the sender is dropped; no JOIN is.
LEMMA FromUserForm ==
    ASSUME Inv, NEW s \in Server, NEW p \in Server, NEW type, FromUser(s, p, type), play' = play
    PROVE  /\ Reading(s, p, type) /\ UNCHANGED <<known, play, spent>>
           /\ Accepted(s, p) <=> Head(wire[<<p, s>>]).user \in known[s] \cap Beyond(s, p)
           /\ (Accepted(s, p) => PassOn(s, p)) /\ (~Accepted(s, p) => Swallow(s, p))
<1>1. p \in Neighbours(s)  BY ReadForm DEF FromUser
<1> QED  BY <1>1, SrcUserForm DEF FromUser, Accepted

LEMMA Dropping ==
    ASSUME Inv, NEW s \in Server, NEW p \in Server, NEW type \in {"JOIN", "PART", "KICK", "TOPIC", "MODE"},
           FromUser(s, p, type), ~Accepted(s, p), UNCHANGED <<channel, members, chanops, play>>
    PROVE  Inv'
<1> DEFINE m == Head(wire[<<p, s>>])
<1>1. /\ Reading(s, p, type) /\ UNCHANGED <<known, play, spent>> /\ Swallow(s, p)
      /\ m.user \notin known[s] \cap Beyond(s, p)
  BY FromUserForm
<1>2. m.type = type /\ (Trusted("known") => Claims("known", s, p, Have("known")[s] \cap Beyond(s, p), m))
  BY <1>1, ReadForm
<1>3. members[s] \subseteq known[s]  BY CopyHere DEF OneCopy
<1> HIDE DEF m
<1>4. Moved("known", s, known[s] \cap Beyond(s, p), m) = known[s] \cap Beyond(s, p)  BY <1>2 DEF Moved
<1>5. Trusted("member") => Moved("member", s, members[s] \cap Beyond(s, p), m) = members[s] \cap Beyond(s, p)
  <2>1. type = "JOIN" => ~Trusted("known")  BY <1>1, <1>2 DEF Claims, Have
  <2>2. Trusted("member") => Trusted("known")  BY DEF Trusted
  <2> QED  BY <1>1, <1>2, <1>3, <2>1, <2>2 DEF Moved
<1> QED  BY <1>1, <1>4, <1>5, ReadIgnored DEF m

LEMMA HandleJoinInv ==
    ASSUME Inv, NEW s \in Server, NEW p \in Server, HandleJoin(s, p), play' = play
    PROVE  Inv'
<1> DEFINE m == Head(wire[<<p, s>>])
           c == IF ~Exists(s) THEN [NoChannel EXCEPT !.created = m.ts] ELSE channel[s]
           M == members[s] \cup {m.user}
<1>1. FromUser(s, p, "JOIN")  BY DEF HandleJoin
<1>2. CASE ~Accepted(s, p)
  <2>1. UNCHANGED <<channel, members, chanops>>
    <3>1. channel' = [channel EXCEPT ![s] = channel[s]] /\ members' = [members EXCEPT ![s] = members[s] \cup {}] /\ chanops' = chanops
      BY <1>2 DEF HandleJoin
    <3> QED  BY <3>1 DEF Inv, Tables
  <2> QED  BY <1>1, <1>2, <2>1, Dropping
<1>3. CASE Accepted(s, p)
  <2>1. /\ Reading(s, p, "JOIN") /\ UNCHANGED <<known, play, spent>> /\ PassOn(s, p)
        /\ m.user \in known[s] \cap Beyond(s, p)
    BY <1>1, <1>3, FromUserForm
  <2>2. m.type = "JOIN" /\ m.ts \in 0..MaxTS /\ m.ts # 0
    <3>1. m.type = "JOIN" /\ m \in Msg  BY <2>1, ReadForm
    <3>2. m.ts \in Time  BY <3>1, MsgForm
    <3> QED  BY <3>1, <3>2, BoundType DEF Time
  <2>3. OneCopy(known[s], channel[s], members[s], chanops[s])  BY CopyHere
  <2>4. At(s, known[s], c, M, chanops[s])
    <3>1. known' = [known EXCEPT ![s] = known[s]] /\ chanops' = [chanops EXCEPT ![s] = chanops[s]]
      BY <2>1 DEF Inv, Tables, HandleJoin
    <3>2. channel' = [channel EXCEPT ![s] = c] /\ members' = [members EXCEPT ![s] = M]
      BY <1>3 DEF HandleJoin
    <3> HIDE DEF c, M, m
    <3> QED  BY <3>1, <3>2 DEF At
  <2> HIDE DEF m
  <2>5. c \in Copy /\ c.created # 0 /\ (c.topic # 0 => c.topicTime # 0)
    <3>1. CASE Exists(s)  BY <2>3, <3>1 DEF OneCopy, Exists
    <3>2. CASE ~Exists(s)
      <4>1. c = [NoChannel EXCEPT !.created = m.ts]  BY <3>2
      <4>2. NoChannel \in Copy /\ NoChannel.topic = 0
        <5>1. 0 \in 0..MaxTS  BY BoundType
        <5> QED  BY <5>1 DEF NoChannel, Copy
      <4>3. c \in Copy /\ c.created = m.ts /\ c.topic = 0  BY <2>2, <4>1, <4>2 DEF Copy
      <4> QED  BY <2>2, <4>3
    <3> QED  BY <3>1, <3>2
  <2> HIDE DEF c
  <2>6. OneCopy(known[s], c, M, chanops[s])  BY <2>1, <2>3, <2>5 DEF OneCopy
  <2>7. Relays("known", s, p, known[s], known[s], m) /\ Relays("member", s, p, members[s], M, m)
    BY <2>1, <2>2 DEF Relays, Moved, Within
  <2> HIDE DEF M
  <2> QED  BY <2>1, <2>4, <2>6, <2>7, ReadPassed DEF m
<1> QED  BY <1>2, <1>3

\* Nobody leaves.
LEMMA LeaveNone ==
    ASSUME Inv, NEW s \in Server, Leave(s, {})
    PROVE  UNCHANGED <<channel, members, chanops>>
<1>1. members[s] \ {} = members[s] /\ chanops[s] \ {} = chanops[s]  OBVIOUS
<1>2. members' = [members EXCEPT ![s] = members[s]] /\ chanops' = [chanops EXCEPT ![s] = chanops[s]]
      /\ channel' = [channel EXCEPT ![s] = channel[s]]
  BY <1>1 DEF Leave
<1> QED  BY <1>2 DEF Inv, Tables

LEMMA HandlePartInv ==
    ASSUME Inv, NEW s \in Server, NEW p \in Server, HandlePart(s, p), play' = play
    PROVE  Inv'
<1> DEFINE m == Head(wire[<<p, s>>])
           u == m.user
           M == members[s] \ {u}
<1>1. FromUser(s, p, "PART")  BY DEF HandlePart
<1>2. CASE ~Accepted(s, p)
  <2>1. UNCHANGED <<channel, members, chanops>>  BY <1>2, LeaveNone DEF HandlePart
  <2> QED  BY <1>1, <1>2, <2>1, Dropping
<1>3. CASE Accepted(s, p)
  <2>1. /\ Reading(s, p, "PART") /\ UNCHANGED <<known, play, spent>> /\ PassOn(s, p)
        /\ u \in known[s] \cap Beyond(s, p)
    BY <1>1, <1>3, FromUserForm
  <2>2. m.type = "PART"  BY <2>1, ReadForm
  <2>3. OneCopy(known[s], channel[s], members[s], chanops[s])  BY CopyHere
  <2>4. known' = [known EXCEPT ![s] = known[s]] /\ Leave(s, {u})  BY <1>3, <2>1 DEF HandlePart, Inv, Tables
  <2>5. known[s] \subseteq User /\ M \subseteq known[s]  BY <2>3 DEF OneCopy
  <2>6. PICK c : At(s, known[s], c, M, chanops[s] \ {u}) /\ OneCopy(known[s], c, M, chanops[s] \ {u})
    BY <2>4, <2>5, Left
  <2> HIDE DEF m
  <2>7. Relays("known", s, p, known[s], known[s], m) /\ Relays("member", s, p, members[s], M, m)
    BY <2>1, <2>2 DEF Relays, Moved, Within
  <2> HIDE DEF M, u
  <2> QED  BY <2>1, <2>6, <2>7, ReadPassed DEF m
<1> QED  BY <1>2, <1>3

LEMMA HandleKickInv ==
    ASSUME Inv, NEW s \in Server, NEW p \in Server, HandleKick(s, p), play' = play
    PROVE  Inv'
<1> DEFINE m == Head(wire[<<p, s>>])
           u == m.target
           M == members[s] \ {u}
<1>1. FromUser(s, p, "KICK")  BY DEF HandleKick
<1>2. CASE ~Accepted(s, p)
  <2>1. UNCHANGED <<channel, members, chanops>>  BY <1>2, LeaveNone DEF HandleKick
  <2> QED  BY <1>1, <1>2, <2>1, Dropping
<1>3. CASE Accepted(s, p)
  <2>1. /\ Reading(s, p, "KICK") /\ UNCHANGED <<known, play, spent>> /\ PassOn(s, p)
    BY <1>1, <1>3, FromUserForm
  <2>2. m.type = "KICK" /\ m \in Line  BY <2>1, ReadForm
  <2>3. OneCopy(known[s], channel[s], members[s], chanops[s])  BY CopyHere
  <2>4. known' = [known EXCEPT ![s] = known[s]] /\ Leave(s, {u})  BY <1>3, <2>1 DEF HandleKick, Inv, Tables
  <2>5. known[s] \subseteq User /\ M \subseteq known[s]  BY <2>3 DEF OneCopy
  <2>6. PICK c : At(s, known[s], c, M, chanops[s] \ {u}) /\ OneCopy(known[s], c, M, chanops[s] \ {u})
    BY <2>4, <2>5, Left
  <2> HIDE DEF m
  <2>7. Relays("known", s, p, known[s], known[s], m)  BY <2>2 DEF Relays, Moved, Within
  <2>8. ~Trusted("member")  BY <2>2 DEF Line, Trusted
  <2> HIDE DEF M, u
  <2> QED  BY <2>1, <2>6, <2>7, <2>8, ReadPassed DEF m
<1> QED  BY <1>2, <1>3

LEMMA HandleTopicInv ==
    ASSUME Inv, NEW s \in Server, NEW p \in Server, HandleTopic(s, p), play' = play
    PROVE  Inv'
<1> DEFINE m == Head(wire[<<p, s>>])
           c == IF Exists(s) THEN [channel[s] EXCEPT !.topic = m.topic, !.topicTime = now] ELSE channel[s]
<1>1. FromUser(s, p, "TOPIC")  BY DEF HandleTopic
<1>2. members' = members /\ chanops' = chanops /\ chanops' = [chanops EXCEPT ![s] = chanops[s]]
  BY DEF HandleTopic, Inv, Tables
<1>3. CASE ~Accepted(s, p)
  <2>1. channel' = channel  BY <1>3 DEF HandleTopic, Inv, Tables
  <2> QED  BY <1>1, <1>2, <1>3, <2>1, Dropping
<1>4. CASE Accepted(s, p)
  <2>1. Reading(s, p, "TOPIC") /\ UNCHANGED <<known, play, spent>> /\ PassOn(s, p)
    BY <1>1, <1>4, FromUserForm
  <2>2. m.type = "TOPIC" /\ m \in Msg  BY <2>1, ReadForm
  <2>3. OneCopy(known[s], channel[s], members[s], chanops[s])  BY CopyHere
  <2>4. channel' = [channel EXCEPT ![s] = c]  BY <1>4 DEF HandleTopic
  <2> HIDE DEF m
  <2>5. c \in Copy /\ c.created = channel[s].created /\ c.flags = channel[s].flags
        /\ (c = channel[s] \/ c.topicTime # 0)
    <3>1. m.topic \in Topic /\ now \in 0..MaxTS /\ now # 0
      <4>1. m.topic \in Topic /\ now \in Time  BY <2>2, MsgForm DEF Inv, Tables
      <4> QED  BY <4>1, BoundType DEF Time
    <3>2. channel[s] \in Copy  BY <2>3 DEF OneCopy
    <3> QED  BY <3>1, <3>2 DEF Copy
  <2> HIDE DEF c
  <2>6. OneCopy(known[s], c, members[s], chanops[s])  BY <2>3, <2>5 DEF OneCopy
  <2> QED  BY <1>2, <2>1, <2>4, <2>6, ReadOther
<1> QED  BY <1>3, <1>4

LEMMA HandleModeInv ==
    ASSUME Inv, NEW s \in Server, NEW p \in Server, HandleMode(s, p), play' = play
    PROVE  Inv'
<1> DEFINE m == Head(wire[<<p, s>>])
           x == m.change
           c == ModeApplied(channel[s], x)
           O == OpsApplied(members[s], chanops[s], x)
<1>1. FromUser(s, p, "MODE")  BY DEF HandleMode
<1>2. OneCopy(known[s], channel[s], members[s], chanops[s])  BY CopyHere
<1>3. CASE ~Accepted(s, p)
  <2>1. UNCHANGED <<channel, members, chanops>>  BY <1>3 DEF HandleMode, chanVars
  <2> QED  BY <1>1, <1>3, <2>1, Dropping
<1>4. CASE Accepted(s, p)
  <2>1. /\ Reading(s, p, "MODE") /\ UNCHANGED <<known, play, spent>> /\ PassOn(s, p)
        /\ m.user \in known[s] \cap Beyond(s, p)
    BY <1>1, <1>4, FromUserForm
  <2>2. m.type = "MODE" /\ m \in Msg /\ m \in Line  BY <2>1, ReadForm
  <2>3. CASE ~Exists(s)
    <3>1. UNCHANGED <<channel, members, chanops>>  BY <2>3 DEF HandleMode, chanVars
    <3>2. channel' = [channel EXCEPT ![s] = channel[s]] /\ chanops' = [chanops EXCEPT ![s] = chanops[s]] /\ members' = members
      BY <3>1 DEF Inv, Tables
    <3> QED  BY <1>2, <2>1, <3>2, ReadOther
  <2>4. CASE Exists(s)
    <3>1. channel' = [channel EXCEPT ![s] = c] /\ chanops' = [chanops EXCEPT ![s] = O] /\ members' = members
      BY <1>4, <2>4 DEF HandleMode, ApplyMode
    <3> HIDE DEF m
    <3>2. x \in Change  BY <2>2, MsgForm
    <3>3. x.mode \in play.ops /\ (x.mode = "k" => x.arg \in Key \cup {NoKey}) /\ (x.mode = "b" => x.arg \in User)
      BY <2>2 DEF Line
    <3> HIDE DEF x
    <3>4. c \in Copy /\ c.created = channel[s].created /\ c.topic = channel[s].topic /\ c.topicTime = channel[s].topicTime
      BY <1>2, <3>2, <3>3, ModeForm DEF OneCopy
    <3>5. O \subseteq members[s]  BY <1>2, OpsForm DEF OneCopy
    <3> HIDE DEF c, O
    <3>6. OneCopy(known[s], c, members[s], O)  BY <1>2, <3>4, <3>5 DEF OneCopy
    <3> QED  BY <2>1, <3>1, <3>6, ReadOther
  <2> QED  BY <2>3, <2>4
<1> QED  BY <1>3, <1>4

\* Once a UID has been refused, only the copy itself is kept sound.
LEMMA ReadUntrusted ==
    ASSUME Inv, NEW s \in Server, NEW p \in Server, NEW type, Reading(s, p, type),
           NEW K, NEW c, NEW M, NEW O, At(s, K, c, M, O), play' = play, OneCopy(K, c, M, O),
           spent' \in [moves : 0..play.moves, faults : 0..play.faults, refused : 0..play.refused], spent'.refused # 0,
           NEW out \in [Server -> Seq(Line)], wire' = SentOnRead(s, p, out)
    PROVE  Inv'
<1>1. p \in Neighbours(s) /\ wire[<<p, s>>] # << >> /\ lc' = lc /\ now' = now  BY ReadForm
<1>2. Tables /\ Wires  BY DEF Inv
<1>3. wire' \in [Link -> Seq(Line)]  BY <1>1, <1>2, SentOnReadForm
<1>4. ~Trusted("known")' /\ ~Trusted("member")'  BY DEF Trusted
<1>6. /\ now' \in Time /\ lc' \in [Server -> [Server -> {"down", "up", "closing"}]]
      /\ \A t \in Server : t # s => lc'[t] = lc[t]
  BY <1>1, <1>2 DEF Tables
<1> QED  BY <1>3, <1>4, <1>6, StepAt

LEMMA RouteForm ==
    ASSUME NEW p \in Server, NEW o \in Seq(Line)
    PROVE  RouteTo(p, o) \in [Server -> Seq(Line)] /\ RouteTo(p, o)[p] = o
           /\ \A q \in Server : q # p => RouteTo(p, o)[q] = << >>
<1>1. << >> \in Seq(Line)  OBVIOUS
<1>2. Nothing \in [Server -> Seq(Line)] /\ \A q \in Server : Nothing[q] = << >>  BY <1>1 DEF Nothing
<1> HIDE DEF Nothing
<1> QED  BY <1>2 DEF RouteTo

LEMMA ThenForm ==
    ASSUME NEW o \in [Server -> Seq(Line)], NEW w \in [Server -> Seq(Line)]
    PROVE  Then(o, w) \in [Server -> Seq(Line)] /\ \A q \in Server : Then(o, w)[q] = o[q] \o w[q]
  BY DEF Then

LEMMA KillLines == ASSUME NEW u \in User  PROVE KillLine(u) \in Line
  BY DEF Line, Msg, KillLine

LEMMA UidLines == ASSUME NEW us \in SUBSET User
  PROVE UidLine(us) \in Line /\ UidLine(us) \in Msg /\ UidLine(us).type = "UID" /\ UidLine(us).users = us
  BY DEF Line, Msg, UidLine

LEMMA HandleKillInv ==
    ASSUME Inv, NEW s \in Server, NEW p \in Server, HandleKill(s, p), play' = play
    PROVE  Inv'
<1> DEFINE m == Head(wire[<<p, s>>])
           u == m.user
           K == known[s] \ {u}
           M == members[s] \ {u}
<1>1. Reading(s, p, "KILL") /\ spent' = spent  BY DEF HandleKill
<1>2. /\ m.type = "KILL" /\ m \in Msg
      /\ Trusted("known") => Claims("known", s, p, Have("known")[s] \cap Beyond(s, p), m)
  BY <1>1, ReadForm
<1>3. u \in User  BY <1>2, MsgForm
<1>4. spent'.refused # 0 /\ spent' \in [moves : 0..play.moves, faults : 0..play.faults, refused : 0..play.refused]
  BY <1>1, <1>2 DEF Claims, Trusted, Inv, Tables
<1>5. OneCopy(known[s], channel[s], members[s], chanops[s])  BY CopyHere
<1>6. CASE u \in known[s] /\ ~Remote(s, u)
  <2>1. known' = [known EXCEPT ![s] = K] /\ Leave(s, {u}) /\ wire' = SentOnRead(s, p, FloodAll(<<QuitLine(u)>>))
    BY <1>6 DEF HandleKill, RemoveLocal
  <2>2. K \subseteq User /\ M \subseteq K  BY <1>5 DEF OneCopy
  <2>3. PICK c : At(s, K, c, M, chanops[s] \ {u}) /\ OneCopy(K, c, M, chanops[s] \ {u})  BY <2>1, <2>2, Left
  <2>4. FloodAll(<<QuitLine(u)>>) \in [Server -> Seq(Line)]
    <3>1. QuitLine(u) \in Line  BY <1>3, UserLines
    <3>2. <<QuitLine(u)>> \in Seq(Line)  BY <3>1
    <3> QED  BY <3>2, OutForm
  <2> HIDE DEF K, M, u, m
  <2> QED  BY <1>1, <1>4, <2>1, <2>3, <2>4, ReadUntrusted
<1>7. CASE ~(u \in known[s] /\ ~Remote(s, u))
  <2> DEFINE towards == RouteTo(Route[s][Home[u]], <<KillLine(u)>>)
             out == IF u \in known[s] THEN towards ELSE Nothing
  <2>1. UNCHANGED <<known, channel, members, chanops>> /\ wire' = SentOnRead(s, p, out)
    BY <1>7 DEF HandleKill, chanVars
  <2>2. out \in [Server -> Seq(Line)]
    <3>1. <<KillLine(u)>> \in Seq(Line) /\ Route[s][Home[u]] \in Server  BY <1>3, KillLines, HomeType, RouteType
    <3>2. towards \in [Server -> Seq(Line)]  BY <3>1, RouteForm
    <3>3. Nothing \in [Server -> Seq(Line)]
      <4>1. << >> \in Seq(Line)  OBVIOUS
      <4> QED  BY <4>1, OutForm
    <3> HIDE DEF towards
    <3> QED  BY <3>2, <3>3
  <2>3. At(s, known[s], channel[s], members[s], chanops[s])  BY <2>1 DEF Inv, Tables, At
  <2> HIDE DEF out, u, m
  <2> QED  BY <1>1, <1>4, <1>5, <2>1, <2>2, <2>3, ReadUntrusted
<1> QED  BY <1>6, <1>7

\* The users that are new to s, all of them taken, are passed on.
NewTo(s, p) == Head(wire[<<p, s>>]).users \ known[s]
Newly(s, p, out) ==
    /\ out \in [Server -> Seq(Line)] /\ wire' = SentOnRead(s, p, out) /\ out[p] = << >>
    /\ \A q \in Server : q # p => out[q] = Optional(NewTo(s, p) # {}, UidLine(NewTo(s, p)))

LEMMA NewUsers ==
    ASSUME Inv, NEW s \in Server, NEW p \in Server, Reading(s, p, "UID"), Trusted("known"), play' = play, spent' = spent,
           At(s, known[s] \cup NewTo(s, p), channel[s], members[s], chanops[s]), NEW out, Newly(s, p, out)
    PROVE  Inv'
<1> DEFINE m == Head(wire[<<p, s>>])
           new == m.users \ known[s]
<1>1. new = NewTo(s, p)  BY DEF NewTo
<1>2. /\ out \in [Server -> Seq(Line)] /\ wire' = SentOnRead(s, p, out) /\ out[p] = << >>
      /\ \A q \in Server : q # p => out[q] = Optional(new # {}, UidLine(new))
  BY <1>1 DEF Newly
<1>3. At(s, known[s] \cup new, channel[s], members[s], chanops[s])  BY <1>1
<1>4. /\ p \in Neighbours(s) /\ wire[<<p, s>>] # << >> /\ lc' = lc /\ now' = now /\ lc[s][p] # "down"
      /\ m \in Msg /\ m.type = "UID" /\ Claims("known", s, p, Have("known")[s] \cap Beyond(s, p), m)
  BY ReadForm
<1>5. p \in Neighbours(s) /\ wire[<<p, s>>] # << >> /\ lc' = lc  BY <1>4
<1>6. new = m.users \ known[s]  OBVIOUS
<1> HIDE DEF m, new
<1>7. Tables /\ Wires  BY DEF Inv
<1>8. m.users \subseteq Beyond(s, p) /\ m.users \subseteq User  BY <1>4, MsgForm DEF Claims
<1> DEFINE K == known[s] \cup new
           M == members[s]
           l == UidLine(new)
<1>9. At(s, K, channel[s], M, chanops[s])  BY <1>3
<1>10. K \subseteq User /\ new \in SUBSET User /\ M \subseteq known[s]  BY <1>6, <1>7, <1>8, CopyHere DEF OneCopy, Tables
<1>11. Relays("known", s, p, known[s], K, m) /\ Relays("member", s, p, M, M, m)
  BY <1>6, <1>4, <1>8 DEF Relays, Moved, Within
<1>12. MovesOnly("known", s, p, known[s], K, m) /\ MovesOnly("member", s, p, M, M, m)
  <2>1. known[s] \in SUBSET User /\ M \in SUBSET User  BY <1>7 DEF Tables
  <2> HIDE DEF K, M
  <2> QED  BY <1>4, <1>11, <2>1, MovedWithin
<1>13. l \in Msg /\ l.type = "UID" /\ l.users = new  BY <1>10, UidLines
<1>14. \A q \in Neighbours(s) : q \in Server  BY Edge
<1> HIDE DEF l
<1>15. ASSUME NEW k \in {"known", "member"}, NEW q \in Neighbours(s)
      PROVE  /\ q # p => Of(k, K, M) \cap Beyond(s, q) = Have(k)[s] \cap Beyond(s, q)
             /\ Fits(k, s, q, Have(k)[s] \cap Beyond(q, s), Of(k, K, M) \cap Beyond(q, s), out[q])
  <2> DEFINE V == Have(k)[s]
             X == Of(k, K, M)
  <2>1. (k = "known" => V = known[s] /\ X = V \cup new) /\ (k = "member" => V = M /\ X = V)
    BY DEF Have, Of
  <2>2. MovesOnly(k, s, p, V, X, m)  BY <1>12 DEF Have, Of
  <2> HIDE DEF V, X
  <2>3. CASE q = p
    <3>1. X \cap Beyond(q, s) = V \cap Beyond(q, s)  BY <2>2, <2>3 DEF MovesOnly
    <3> QED  BY <1>2, <2>3, <3>1 DEF Fits, V, X
  <2>4. CASE q # p
    <3>1. /\ X \cap Beyond(s, q) = V \cap Beyond(s, q)
          /\ X \cap Beyond(q, s) = Moved(k, q, V \cap Beyond(q, s), m)
      BY <2>2, <2>4 DEF MovesOnly
    <3>2. out[q] = Optional(new # {}, l)  BY <1>2, <1>14, <2>4 DEF l
    <3>3. new \subseteq Beyond(q, s)
      <4>1. \A u \in User : u \in Beyond(q, s) <=> u \notin Beyond(s, q)  BY OursBeyond
      <4>2. Beyond(s, p) \cap Beyond(s, q) = {}  BY <2>4, Apart
      <4> QED  BY <1>6, <1>8, <1>10, <4>1, <4>2
    <3>4. CASE new = {}
      <4>1. X = V /\ out[q] = << >>  BY <2>1, <3>2, <3>4 DEF Optional
      <4> QED  BY <4>1 DEF Fits, V, X
    <3>5. CASE new # {}
      <4>1. out[q] = <<l>>  BY <3>2, <3>5 DEF Optional
      <4>2. Claims(k, q, s, V \cap Beyond(q, s), l)  BY <1>13, <3>3 DEF Claims
      <4>3. X \cap Beyond(q, s) = Moved(k, q, V \cap Beyond(q, s), l)  BY <1>13, <2>1, <3>3 DEF Moved
      <4> QED  BY <1>13, <3>1, <4>1, <4>2, <4>3 DEF Fits, V, X
    <3> QED  BY <3>1, <3>4, <3>5 DEF V, X
  <2> QED  BY <2>3, <2>4
<1>16. ASSUME NEW k \in {"known", "member"}  PROVE Local(k, s)
  <2>1. Of(k, K, M) \cap Beyond(s, p) = Moved(k, s, Have(k)[s] \cap Beyond(s, p), m)
    BY <1>12 DEF MovesOnly, Have, Of
  <2> HIDE DEF K, M
  <2>2. \A q \in Neighbours(s) :
          /\ q # p => Of(k, K, M) \cap Beyond(s, q) = Have(k)[s] \cap Beyond(s, q)
          /\ Fits(k, s, q, Have(k)[s] \cap Beyond(q, s), Of(k, K, M) \cap Beyond(q, s), out[q])
    BY <1>15
  <2> QED  BY <1>2, <1>9, <1>5, <2>1, <2>2, Reads DEF m
<1>17. wire' \in [Link -> Seq(Line)]  BY <1>2, <1>4, <1>7, SentOnReadForm
<1>18. OneCopy(K, channel[s], M, chanops[s])
  <2>1. OneCopy(known[s], channel[s], M, chanops[s])  BY CopyHere
  <2> QED  BY <1>10, <2>1 DEF OneCopy
<1>19. \A q \in Neighbours(s) : lc'[s][q] = "down" => K \cap Beyond(s, q) = {}
  <2> SUFFICES ASSUME NEW q \in Neighbours(s), lc[s][q] = "down"  PROVE K \cap Beyond(s, q) = {}
    BY <1>4
  <2>1. known[s] \cap Beyond(s, q) = {} /\ q # p  BY <1>4 DEF Inv, Cut, Trusted
  <2> HIDE DEF K
  <2> QED  BY <1>12, <2>1 DEF MovesOnly
<1>20. /\ now' \in Time /\ lc' \in [Server -> [Server -> {"down", "up", "closing"}]] /\ \A t \in Server : t # s => lc'[t] = lc[t]
       /\ spent' \in [moves : 0..play.moves, faults : 0..play.faults, refused : 0..play.refused] /\ spent'.refused = spent.refused
  BY <1>4, <1>7 DEF Tables
<1> HIDE DEF M, K
<1> QED  BY <1>9, <1>16, <1>17, <1>18, <1>19, <1>20, StepAt

LEMMA HandleUidInv ==
    ASSUME Inv, NEW s \in Server, NEW p \in Server, HandleUid(s, p), play' = play
    PROVE  Inv'
<1> DEFINE m == Head(wire[<<p, s>>])
           new == m.users \ known[s]
<1>1. Reading(s, p, "UID")  BY DEF HandleUid
<1>2. PICK lost \in SUBSET new :
        /\ spent.refused + Cardinality(lost) <= play.refused
        /\ spent' = [spent EXCEPT !.refused = @ + Cardinality(lost)]
        /\ known' = [known EXCEPT ![s] = @ \cup (new \ lost)]
        /\ \E q \in [1..Cardinality(lost) -> lost] :
            /\ \A u \in lost : \E i \in DOMAIN q : q[i] = u
            /\ wire' = SentOnRead(s, p, Then(RouteTo(p, [i \in DOMAIN q |-> KillLine(q[i])]),
                                             Flood(p, Optional(new # lost, UidLine(new \ lost)))))
  BY DEF HandleUid
<1>3. PICK q \in [1..Cardinality(lost) -> lost] :
        wire' = SentOnRead(s, p, Then(RouteTo(p, [i \in DOMAIN q |-> KillLine(q[i])]),
                                      Flood(p, Optional(new # lost, UidLine(new \ lost)))))
  BY <1>2
<1>4. UNCHANGED <<channel, members, chanops>>  BY DEF HandleUid, chanVars
<1>5. m.type = "UID" /\ m \in Msg /\ Tables  BY <1>1, ReadForm DEF Inv
<1>6. m.users \subseteq User  BY <1>5, MsgForm
<1> HIDE DEF m
<1>7. new \in SUBSET User /\ lost \in SUBSET User /\ new \ lost \in SUBSET User  BY <1>6
<1>8. IsFiniteSet(lost) /\ Cardinality(lost) \in Nat  BY <1>7, UserFinite, FS_Subset, FS_CardinalityType
<1>9. spent \in [moves : 0..play.moves, faults : 0..play.faults, refused : 0..play.refused] /\ play.refused \in Nat
  BY <1>5, PlayForm DEF Tables
<1>10. /\ spent' \in [moves : 0..play.moves, faults : 0..play.faults, refused : 0..play.refused]
       /\ spent'.refused = spent.refused + Cardinality(lost)
  <2> DEFINE n == Cardinality(lost)
  <2>1. spent.refused \in Nat /\ spent.refused + n <= play.refused /\ spent' = [spent EXCEPT !.refused = @ + n]
    BY <1>2, <1>9
  <2> HIDE DEF n
  <2>2. n \in Nat  BY <1>8 DEF n
  <2>3. spent.refused + n \in 0..play.refused  BY <1>9, <2>1, <2>2
  <2>4. /\ spent' \in [moves : 0..play.moves, faults : 0..play.faults, refused : 0..play.refused]
        /\ spent'.refused = spent.refused + n
    BY <1>9, <2>1, <2>3
  <2> QED  BY <2>4 DEF n
<1> DEFINE kills == [i \in DOMAIN q |-> KillLine(q[i])]
           line == UidLine(new \ lost)
           onward == Optional(new # lost, line)
           out == Then(RouteTo(p, kills), Flood(p, onward))
           K == known[s] \cup (new \ lost)
<1>11. kills \in Seq(Line) /\ Len(kills) = Cardinality(lost)
  <2>1. DOMAIN q = 1..Cardinality(lost) /\ \A i \in 1..Cardinality(lost) : KillLine(q[i]) \in Line  BY <1>7, KillLines
  <2>2. kills \in [1..Cardinality(lost) -> Line]  BY <2>1
  <2> HIDE DEF kills
  <2> QED  BY <1>8, <2>2
<1>12. onward \in Seq(Line)
  <2>1. line \in Line  BY <1>7, UidLines
  <2> HIDE DEF line
  <2>2. <<line>> \in Seq(Line) /\ << >> \in Seq(Line)  BY <2>1
  <2> QED  BY <2>2 DEF Optional
<1> HIDE DEF kills, onward
<1>13. /\ out \in [Server -> Seq(Line)] /\ out[p] = kills \o << >>
       /\ \A r \in Server : r # p => out[r] = << >> \o onward
  <2>1. RouteTo(p, kills) \in [Server -> Seq(Line)] /\ RouteTo(p, kills)[p] = kills
        /\ \A r \in Server : r # p => RouteTo(p, kills)[r] = << >>
    BY <1>11, RouteForm
  <2>2. Flood(p, onward) \in [Server -> Seq(Line)] /\ Flood(p, onward)[p] = << >>
        /\ \A r \in Server : r # p => Flood(p, onward)[r] = onward
    BY <1>12, OutForm
  <2>3. out \in [Server -> Seq(Line)] /\ \A r \in Server : out[r] = RouteTo(p, kills)[r] \o Flood(p, onward)[r]
    BY <2>1, <2>2, ThenForm
  <2> HIDE DEF out
  <2> QED  BY <2>1, <2>2, <2>3
<1>14. wire' = SentOnRead(s, p, out)  BY <1>3 DEF kills, onward
<1>15. At(s, K, channel[s], members[s], chanops[s])
  <2>1. known' = [known EXCEPT ![s] = K]  BY <1>2
  <2> HIDE DEF K
  <2> QED  BY <1>4, <1>5, <2>1 DEF Tables, At
<1> HIDE DEF out
<1>16. CASE spent'.refused # 0
  <2>1. OneCopy(K, channel[s], members[s], chanops[s])
    <3>1. OneCopy(known[s], channel[s], members[s], chanops[s])  BY CopyHere
    <3> QED  BY <1>7, <3>1 DEF OneCopy
  <2> HIDE DEF K, new
  <2> QED  BY <1>1, <1>10, <1>13, <1>14, <1>15, <1>16, <2>1, ReadUntrusted
<1>17. CASE spent'.refused = 0
  <2>1. spent.refused = 0 /\ Cardinality(lost) = 0
    <3>1. spent.refused \in Nat  BY <1>9
    <3> QED  BY <1>8, <1>10, <1>17, <3>1
  <2>2. lost = {}  BY <1>8, <2>1, FS_EmptySet
  <2>3. K = known[s] \cup new /\ onward = Optional(new # {}, UidLine(new))  BY <2>2 DEF onward
  <2>4. kills = << >>  BY <1>11, <2>1
  <2>5. new = NewTo(s, p)  BY DEF NewTo, m
  <2>6. Newly(s, p, out)
    <3>1. \A r \in Server : r # p => out[r] = onward  BY <1>12, <1>13
    <3>2. out[p] = << >>  BY <1>13, <2>4
    <3> QED  BY <1>13, <1>14, <2>3, <2>5, <3>1, <3>2 DEF Newly
  <2>7. Trusted("known") /\ spent' = spent  BY <1>2, <1>9, <2>1 DEF Trusted
  <2>8. At(s, known[s] \cup NewTo(s, p), channel[s], members[s], chanops[s])  BY <1>15, <2>3, <2>5
  <2> QED  BY <1>1, <2>6, <2>7, <2>8, NewUsers
<1> QED  BY <1>16, <1>17

(***************************************************************************)
(* Each server's copy is sound.                                            *)
(***************************************************************************)
LEMMA Initially == Init => Inv
<1> SUFFICES ASSUME Init  PROVE Inv
  OBVIOUS
<1>1. play \in Plays /\ play.moves \in Nat /\ play.faults \in Nat /\ play.refused \in Nat  BY PlaysType DEF Init
<1>2. 0 \in 0..MaxTS /\ 1 \in Time  BY BoundType DEF Time
<1>3. NoChannel \in Copy /\ NoChannel.created = 0 /\ NoChannel.topic = 0  BY <1>2 DEF NoChannel, Copy
<1>4. \A s \in Server : /\ known[s] = {u \in play.users : Home[u] = s} /\ channel[s] = NoChannel
                        /\ members[s] = {} /\ chanops[s] = {} /\ \A t \in Server : lc[s][t] = "down"
  BY DEF Init
<1>5. play.users \subseteq User  BY <1>1, PlaysType
<1>6. Tables
  <2>1. now \in Time /\ spent \in [moves : 0..play.moves, faults : 0..play.faults, refused : 0..play.refused]
    BY <1>1, <1>2 DEF Init
  <2>2. known \in [Server -> SUBSET User]  BY <1>5 DEF Init
  <2>3. channel \in [Server -> Copy] /\ members \in [Server -> SUBSET User] /\ chanops \in [Server -> SUBSET User]
    BY <1>3 DEF Init
  <2>4. lc \in [Server -> [Server -> {"down", "up", "closing"}]]  BY DEF Init
  <2> QED  BY <1>1, <2>1, <2>2, <2>3, <2>4 DEF Tables
<1>7. Copies
  <2>1. ASSUME NEW s \in Server  PROVE OneCopy(known[s], channel[s], members[s], chanops[s])
    <3>1. known[s] \subseteq User  BY <1>4, <1>5
    <3> QED  BY <1>3, <1>4, <3>1 DEF OneCopy
  <2> QED  BY <2>1 DEF Copies
<1>8. Wires
  <2>1. << >> \in Seq(Line)  OBVIOUS
  <2> QED  BY <2>1 DEF Init, Wires
<1>9. \A s \in Server : \A p \in Neighbours(s) : p \in Server  BY Edge
<1>10. Follow("known") /\ Follow("member")  BY <1>4, <1>9 DEF Follow
<1>11. Cut
  <2> SUFFICES ASSUME NEW s \in Server, NEW p \in Neighbours(s)  PROVE known[s] \cap Beyond(s, p) = {}
    BY DEF Cut
  <2> QED  BY <1>4 DEF Beyond
<1> QED  BY <1>6, <1>7, <1>8, <1>10, <1>11 DEF Inv

LEMMA NextInv == Inv /\ [Next]_vars => Inv'
<1> SUFFICES ASSUME Inv, [Next]_vars  PROVE Inv'
  OBVIOUS
<1>1. CASE UserStep /\ play' = play  BY <1>1, UserStepInv
<1>2. CASE Tick /\ play' = play  BY <1>2, TickInv
<1>3. ASSUME NEW s \in play.servers, NEW p \in play.servers, play' = play,
             LinkUp(s, p) \/ CloseLink(s, p) \/ ReadEof(s, p) \/ Reap(s, p) \/ Receive(s, p)
      PROVE  Inv'
  <2>1. s \in Server /\ p \in Server  BY PlayForm DEF Inv
  <2>2. CASE LinkUp(s, p) \/ CloseLink(s, p) \/ ReadEof(s, p) \/ Reap(s, p)
    BY <1>3, <2>1, <2>2, LinkUpInv, CloseLinkInv, ReadEofInv, ReapInv
  <2>3. CASE Receive(s, p)
    BY <1>3, <2>1, <2>3, HandleUidInv, HandleQuitInv, HandleKillInv, HandleSquitInv, HandleSjoinInv, HandleBmaskInv,
       HandleTbInv, HandleJoinInv, HandlePartInv, HandleKickInv, HandleTopicInv, HandleModeInv DEF Receive
  <2> QED  BY <1>3, <2>2, <2>3
<1>4. CASE UNCHANGED vars
  <2>1. UNCHANGED <<play, known, channel, members, chanops, lc, wire, now, spent>>  BY <1>4 DEF vars
  <2>2. Line' = Line  BY <2>1 DEF Line
  <2>3. Tables' /\ Copies' /\ Wires'  BY <2>1, <2>2 DEF Inv, Tables, Copies, Wires
  <2>4. Follow("known")' /\ Follow("member")' /\ Cut'  BY <2>1 DEF Inv, Follow, Trusted, Have, Cut
  <2> QED  BY <2>3, <2>4 DEF Inv
<1> QED  BY <1>1, <1>2, <1>3, <1>4 DEF Next, Step

LEMMA Always == Spec => []Inv
  BY Initially, NextInv, PTL DEF Spec

\* Whatever crosses on the links, each server's copy of the channel is sound by itself: its members
\* are clients it has (server_remove_client, handle_sjoin and handle_join), its ops are members, and it
\* is there while somebody is in it.
THEOREM CopiesSoundHolds == Spec => []CopiesSound
<1>1. Inv => CopiesSound  BY InvMeans DEF CopiesSound
<1> QED  BY <1>1, Always, PTL

(***************************************************************************)
(* What leaves an empty channel behind.                                    *)
(***************************************************************************)
\* Nobody leaves one: the last member to go takes the channel along.
LEMMA NobodyStrands ==
    ASSUME Tables, NEW s \in Server, NEW gone, Leave(s, gone), NEW t \in Server, ~Stranded(t)
    PROVE  ~Stranded(t)'
<1> DEFINE rest == members[s] \ gone
<1>1. /\ members' = [members EXCEPT ![s] = rest]
      /\ channel' = [channel EXCEPT ![s] = IF rest = members[s] THEN @ ELSE Dropped(@, rest)]
  BY DEF Leave
<1>2. members \in [Server -> SUBSET User] /\ channel \in [Server -> Copy]  BY DEF Tables
<1>3. CASE t # s \/ rest = members[s]
  <2>1. members'[t] = members[t] /\ channel'[t] = channel[t]  BY <1>1, <1>2, <1>3
  <2> QED  BY <2>1 DEF Stranded, Exists
<1>4. CASE t = s /\ rest # members[s]
  <2>1. members'[t] = rest /\ channel'[t] = Dropped(channel[t], rest)  BY <1>1, <1>2, <1>4
  <2>2. NoChannel.created = 0  BY DEF NoChannel
  <2> HIDE DEF rest
  <2> QED  BY <2>1, <2>2 DEF Stranded, Exists, Dropped
<1> QED  BY <1>3, <1>4

\* An SJOIN brings somebody into the channel it makes, if nobody it lists has lost a collision.
LEMMA SjoinFills ==
    ASSUME Inv, NEW s \in Server, NEW p \in Server, HandleSjoin(s, p), spent.refused = 0
    PROVE  members'[s] # {}
<1> DEFINE m == Head(wire[<<p, s>>])
<1>1. /\ m.type = "SJOIN"
      /\ Trusted("known") => Claims("known", s, p, Have("known")[s] \cap Beyond(s, p), m)
  BY ReadForm DEF HandleSjoin
<1>2. members' = [members EXCEPT ![s] = @ \cup Newcomers(s, m)]  BY DEF HandleSjoin
<1>3. members'[s] = members[s] \cup Newcomers(s, m)  BY <1>2 DEF Inv, Tables
<1> HIDE DEF m
<1>4. PICK u \in m.members : u \in known[s] \cap Beyond(s, p)  BY <1>1 DEF Claims, Have, Trusted
<1>5. u \in members[s] \/ u \in Newcomers(s, m)  BY <1>4 DEF Beyond, Remote, Newcomers
<1> QED  BY <1>3, <1>5

LEMMA UserStrands ==
    ASSUME Inv, UserStep, NEW t \in Server, ~Stranded(t), Stranded(t)'
    PROVE  members[t] = {} /\ Exists(t)
<1>1. PICK u \in play.users :
        \/ Create(Home[u], u) \/ Join(Home[u], u) \/ Part(Home[u], u) \/ Quit(Home[u], u)
        \/ \E v \in members[Home[u]] : Kick(Home[u], u, v)
        \/ \E mode \in Flag \cup {"k", "b", "o"} : SetMode(Home[u], u, mode)
        \/ \E d \in play.topics : SetTopic(Home[u], u, d)
  BY DEF UserStep
<1> DEFINE s == Home[u]
<1>2. s \in Server  BY PlayForm, HomeType DEF Inv
<1>3. members \in [Server -> SUBSET User] /\ channel \in [Server -> Copy]  BY DEF Inv, Tables
<1>4. Exists(t)' /\ members'[t] = {}  BY DEF Stranded
<1> HIDE DEF s
<1>5. ASSUME members'[t] = members[t], channel'[t] = channel[t]  PROVE FALSE
  BY <1>5 DEF Stranded, Exists
<1>6. CASE Create(s, u)
  <2>1. members'[s] = {u} /\ \A r \in Server \ {s} : members'[r] = members[r] /\ channel'[r] = channel[r]
    BY <1>2, <1>3, <1>6 DEF Create
  <2> QED  BY <1>4, <1>5, <2>1
<1>7. CASE Join(s, u)
  <2>1. u \in members'[s] /\ channel' = channel /\ \A r \in Server \ {s} : members'[r] = members[r]
    BY <1>2, <1>3, <1>7 DEF Join
  <2> QED  BY <1>4, <1>5, <2>1
<1>8. ~Part(s, u)  BY <1>2, NobodyStrands DEF Part, Inv
<1>9. ~Quit(s, u)  BY <1>2, NobodyStrands DEF Quit, RemoveLocal, Inv
<1>10. ~(\E v \in members[s] : Kick(s, u, v))  BY <1>2, NobodyStrands DEF Kick, Inv
<1>11. CASE \E mode \in Flag \cup {"k", "b", "o"} : SetMode(s, u, mode)
  <2>1. /\ Exists(s) /\ members'[t] = members[t]
        /\ \A r \in Server \ {s} : channel'[r] = channel[r]
    BY <1>2, <1>3, <1>11 DEF SetMode, ApplyMode
  <2> QED  BY <1>4, <1>5, <2>1
<1>12. CASE \E d \in play.topics : SetTopic(s, u, d)
  <2>1. /\ u \in members[s] /\ members' = members
        /\ \A r \in Server \ {s} : channel'[r] = channel[r]
    BY <1>2, <1>3, <1>12 DEF SetTopic
  <2> QED  BY <1>4, <1>5, <2>1
<1> QED  BY <1>1, <1>6, <1>7, <1>8, <1>9, <1>10, <1>11, <1>12 DEF s

LEMMA LineStrands ==
    ASSUME Inv, NEW s \in Server, NEW p \in Server, Receive(s, p), NEW t \in Server, ~Stranded(t), Stranded(t)'
    PROVE  members[t] = {} /\ (Exists(t) \/ spent.refused # 0)
<1>1. members \in [Server -> SUBSET User] /\ channel \in [Server -> Copy]  BY DEF Inv, Tables
<1>2. Exists(t)' /\ members'[t] = {}  BY DEF Stranded
<1>3. ASSUME members'[t] = members[t], channel'[t].created = channel[t].created, channel'[t].flags = channel[t].flags
      PROVE  FALSE
  BY <1>3 DEF Stranded, Exists
<1>4. ~HandleUid(s, p)  BY <1>3 DEF HandleUid, chanVars
<1>5. ~HandleQuit(s, p) /\ ~HandleKill(s, p)
  BY <1>3, NobodyStrands DEF HandleQuit, HandleKill, RemoveLocal, chanVars, Inv
<1>6. ~HandleSquit(s, p) /\ ~HandlePart(s, p) /\ ~HandleKick(s, p)
  BY NobodyStrands DEF HandleSquit, RemoveServerTree, HandlePart, HandleKick, Inv
<1>7. CASE HandleSjoin(s, p)
  <2>1. members[s] \subseteq members'[s] /\ \A r \in Server \ {s} : members'[r] = members[r] /\ channel'[r] = channel[r]
    BY <1>1, <1>7 DEF HandleSjoin
  <2>2. spent.refused = 0 => members'[s] # {}  BY <1>7, SjoinFills
  <2> QED  BY <1>2, <1>3, <2>1, <2>2
<1>8. ~HandleBmask(s, p)
  <2> SUFFICES ASSUME HandleBmask(s, p)  PROVE FALSE
    OBVIOUS
  <2> DEFINE m == Head(wire[<<p, s>>])
  <2>1. /\ members' = members
        /\ channel' = [channel EXCEPT ![s] = IF ListsCount(s, m) THEN [@ EXCEPT !.bans = channel[s].bans \cup m.masks] ELSE @]
    BY DEF HandleBmask
  <2> HIDE DEF m
  <2>2. channel'[t].created = channel[t].created /\ channel'[t].flags = channel[t].flags  BY <1>1, <2>1 DEF Copy
  <2> QED  BY <1>3, <2>1, <2>2
<1>9. ~HandleTb(s, p)
  <2> SUFFICES ASSUME HandleTb(s, p)  PROVE FALSE
    OBVIOUS
  <2> DEFINE m == Head(wire[<<p, s>>])
  <2>1. /\ members' = members
        /\ channel' = [channel EXCEPT ![s] = IF TopicWins(@, m) THEN [@ EXCEPT !.topic = m.topic, !.topicTime = m.ts] ELSE @]
    BY DEF HandleTb
  <2> HIDE DEF m
  <2>2. channel'[t].created = channel[t].created /\ channel'[t].flags = channel[t].flags  BY <1>1, <2>1 DEF Copy
  <2> QED  BY <1>3, <2>1, <2>2
<1>10. ~HandleJoin(s, p)
  <2> SUFFICES ASSUME HandleJoin(s, p)  PROVE FALSE
    OBVIOUS
  <2>1. CASE Accepted(s, p)
    <3>1. members'[s] # {} /\ \A r \in Server \ {s} : members'[r] = members[r] /\ channel'[r] = channel[r]
      BY <1>1, <2>1 DEF HandleJoin
    <3> QED  BY <1>2, <1>3, <3>1
  <2>2. CASE ~Accepted(s, p)
    <3>1. members'[t] = members[t] /\ channel'[t] = channel[t]  BY <1>1, <2>2 DEF HandleJoin
    <3> QED  BY <1>3, <3>1
  <2> QED  BY <2>1, <2>2
<1>11. ~HandleTopic(s, p)
  <2> SUFFICES ASSUME HandleTopic(s, p)  PROVE FALSE
    OBVIOUS
  <2> DEFINE m == Head(wire[<<p, s>>])
  <2>1. /\ members' = members
        /\ channel' = [channel EXCEPT ![s] = IF Accepted(s, p) /\ Exists(s)
                                            THEN [@ EXCEPT !.topic = m.topic, !.topicTime = now] ELSE @]
    BY DEF HandleTopic
  <2> HIDE DEF m
  <2>2. channel'[t].created = channel[t].created /\ channel'[t].flags = channel[t].flags  BY <1>1, <2>1 DEF Copy
  <2> QED  BY <1>3, <2>1, <2>2
<1>12. CASE HandleMode(s, p)
  <2>1. CASE Exists(s)
    <3>1. members'[t] = members[t] /\ \A r \in Server \ {s} : channel'[r] = channel[r]
      BY <1>1, <1>12 DEF HandleMode, ApplyMode, chanVars
    <3> QED  BY <1>2, <1>3, <2>1, <3>1
  <2>2. CASE ~Exists(s)  BY <1>3, <1>12, <2>2 DEF HandleMode, chanVars
  <2> QED  BY <2>1, <2>2
<1> QED  BY <1>4, <1>5, <1>6, <1>7, <1>8, <1>9, <1>10, <1>11, <1>12 DEF Receive

LEMMA StepStrands ==
    ASSUME Inv, [Next]_vars, NEW t \in Server, ~Stranded(t), Stranded(t)'
    PROVE  members[t] = {} /\ (Exists(t) \/ spent.refused # 0)
<1>1. ASSUME UNCHANGED chanVars  PROVE FALSE  BY <1>1 DEF chanVars, Stranded, Exists
<1>2. ~UNCHANGED vars  BY <1>1 DEF vars, chanVars
<1>3. CASE UserStep  BY <1>3, UserStrands
<1>4. ~Tick  BY <1>1 DEF Tick
<1>5. ASSUME NEW s \in play.servers, NEW p \in play.servers,
             LinkUp(s, p) \/ CloseLink(s, p) \/ ReadEof(s, p) \/ Reap(s, p) \/ Receive(s, p)
      PROVE  members[t] = {} /\ (Exists(t) \/ spent.refused # 0)
  <2>1. s \in Server /\ p \in Server  BY PlayForm DEF Inv
  <2>2. ~LinkUp(s, p) /\ ~CloseLink(s, p) /\ ~ReadEof(s, p)  BY <1>1 DEF LinkUp, CloseLink, ReadEof
  <2>3. ~Reap(s, p)  BY <2>1, NobodyStrands DEF Reap, RemoveServerTree, Inv
  <2> QED  BY <1>5, <2>1, <2>2, <2>3, LineStrands
<1> QED  BY <1>2, <1>3, <1>4, <1>5 DEF Next, Step

\* Whoever leaves a channel last (PART, KICK, QUIT, KILL, a split) takes it along, and whatever makes
\* one puts somebody in: a channel without +P is left empty only by a MODE that finds it empty, or by
\* an SJOIN after a nick collision (server_maybe_drop_channel, cmd_mode_channel, handle_sjoin).
THEOREM StrandedByModeHolds == Spec => StrandedByMode
<1> DEFINE Only == \A s \in Server : ~Stranded(s) /\ Stranded(s)' => members[s] = {} /\ (Exists(s) \/ spent.refused # 0)
<1>1. Inv /\ [Next]_vars => [Only]_vars  BY StepStrands
<1> QED  BY <1>1, Always, PTL DEF Spec, StrandedByMode

(***************************************************************************)
(* Servers that have heard everything list the same members.               *)
(***************************************************************************)
\* Only servers of the network link.
Linked == \A s, t \in Server : lc[s][t] # "down" => s \in play.servers /\ t \in play.servers

LEMMA LinkedHolds == Spec => []Linked
<1>1. Init => Linked  BY DEF Init, Linked
<1>2. Inv /\ Linked /\ [Next]_vars => Linked'
  <2> SUFFICES ASSUME Inv, Linked, [Next]_vars, NEW s \in Server, NEW t \in Server, lc'[s][t] # "down", lc[s][t] = "down"
               PROVE  s \in play.servers /\ t \in play.servers
    <3>1. ([Next]_vars => play' = play)  BY DEF Next, vars
    <3> QED  BY <3>1 DEF Linked
  <2>1. lc \in [Server -> [Server -> {"down", "up", "closing"}]]  BY DEF Inv, Tables
  <2>2. lc' # lc  OBVIOUS
  <2>3. ~UserStep
    <3>1. ASSUME NEW x, NEW u, NEW op, Does(x, u, op)  PROVE lc' = lc  BY <3>1 DEF Does
    <3> QED  BY <2>2, <3>1 DEF UserStep, Create, Join, Part, Quit, Kick, SetMode, SetTopic
  <2>4. ~Tick  BY <2>2 DEF Tick
  <2>5. ASSUME NEW x \in play.servers, NEW y \in play.servers, Receive(x, y)  PROVE FALSE
    BY <2>2, <2>5 DEF Receive, Reading, FromUser, HandleUid, HandleQuit, HandleKill, HandleSquit, HandleSjoin, HandleBmask,
       HandleTb, HandleJoin, HandlePart, HandleKick, HandleTopic, HandleMode
  <2>6. PICK x \in play.servers, y \in play.servers : LinkUp(x, y) \/ CloseLink(x, y) \/ ReadEof(x, y) \/ Reap(x, y)
    BY <2>2, <2>3, <2>4, <2>5 DEF Next, Step, vars
  <2>7. x \in Server /\ y \in Server  BY PlayForm DEF Inv
  <2>8. CASE LinkUp(x, y)
    <3>1. lc' = [lc EXCEPT ![x][y] = "up", ![y][x] = "up"]  BY <2>8 DEF LinkUp
    <3>2. (s = x /\ t = y) \/ (s = y /\ t = x)  BY <2>1, <2>7, <3>1
    <3> QED  BY <3>2
  <2>9. CASE CloseLink(x, y) \/ ReadEof(x, y)
    <3>1. lc' = [lc EXCEPT ![x][y] = "closing"]  BY <2>9 DEF CloseLink, ReadEof
    <3>2. s = x /\ t = y  BY <2>1, <2>7, <3>1
    <3> QED  BY <3>2
  <2>10. CASE Reap(x, y)
    <3>1. lc' = [lc EXCEPT ![x][y] = "down"]  BY <2>10 DEF Reap
    <3> QED  BY <2>1, <2>7, <3>1
  <2> QED  BY <2>6, <2>8, <2>9, <2>10
<1> QED  BY <1>1, <1>2, Always, PTL DEF Spec

\* Two ends that have heard everything have the same of the users on either side.
LEMMA HeardAll ==
    ASSUME Inv, Trusted("member"), Quiet, NEW s \in play.servers, NEW p \in play.servers, p \in Neighbours(s)
    PROVE  members[s] \cap Beyond(s, p) = members[p] \cap Beyond(s, p)
<1>1. s \in Server /\ p \in Server  BY PlayForm DEF Inv
<1>2. <<s, p>> \in Link /\ <<p, s>> \in Link  BY <1>1, Edge
<1>3. lc[s][p] = "up" /\ lc[p][s] = "up" /\ wire[<<p, s>>] = << >>  BY <1>2 DEF Quiet, Calm
<1>4. Trail("member", s, p, members[s] \cap Beyond(s, p), wire[<<p, s>>], members[p] \cap Beyond(s, p), lc[p][s] = "up")
  BY <1>1, <1>3 DEF Inv, Follow, Have
<1> DEFINE q == wire[<<p, s>>]
           x == members[s] \cap Beyond(s, p)
           y == members[p] \cap Beyond(s, p)
<1>5. q \in Seq(Msg) /\ q = << >>  BY <1>2, <1>3, WireForm DEF Inv
<1>6. Leads("member", s, p, x, q, y)  BY <1>3, <1>4 DEF Trail
<1> HIDE DEF q, x, y
<1>7. x = y  BY <1>5, <1>6, LeadsEnds
<1> QED  BY <1>7 DEF x, y

\* The servers that link are in one piece.
Connected == \A s, t \in play.servers : s # t => Route[s][t] \in play.servers
\* No UID was refused, and nobody kicks.
Plain == spent.refused = 0 /\ "kick" \notin play.ops

LEMMA AllAlike == ASSUME Inv, Linked, Connected, Plain, Quiet  PROVE \A s, t \in play.servers : members[s] = members[t]
<1>1. Trusted("member") /\ Trusted("known")  BY DEF Plain, Trusted
<1>2. play.servers \subseteq Server  BY PlayForm DEF Inv
<1>3. \A s \in Server : members[s] \subseteq known[s] /\ known[s] \subseteq User  BY CopyHere DEF OneCopy
<1>4. ASSUME NEW u \in User, Home[u] \in play.servers, NEW x \in play.servers
      PROVE  u \in members[x] <=> u \in members[Home[u]]
  <2> DEFINE h == Home[u]
             C == {y \in play.servers : ~(u \in members[y] <=> u \in members[h])}
  <2> SUFFICES ASSUME C # {}  PROVE FALSE
    OBVIOUS
  <2>1. C \in SUBSET Server /\ h \notin C /\ h \in Server  BY <1>2, <1>4
  <2>2. PICK y \in C : Route[y][h] \notin C
    <3> HIDE DEF C
    <3> QED  BY <2>1, NoLoop
  <2> DEFINE z == Route[y][h]
  <2>3. y \in play.servers /\ y \in Server /\ y # h  BY <1>2, <2>1
  <2>4. z \in play.servers /\ z \in Neighbours(y)  BY <1>4, <2>1, <2>3, Hop DEF Connected
  <2>5. u \in Beyond(y, z)  BY <2>3 DEF Beyond
  <2>6. members[y] \cap Beyond(y, z) = members[z] \cap Beyond(y, z)  BY <1>1, <2>3, <2>4, HeardAll
  <2>7. u \in members[y] <=> u \in members[z]  BY <2>5, <2>6
  <2> QED  BY <2>2, <2>3, <2>4, <2>7
<1>5. ASSUME NEW u \in User, Home[u] \notin play.servers, NEW x \in play.servers
      PROVE  u \notin members[x]
  <2> DEFINE h == Home[u]
             C == {y \in play.servers : u \in members[y]}
  <2> SUFFICES ASSUME C # {}  PROVE FALSE
    OBVIOUS
  <2>1. C \in SUBSET Server /\ h \notin C /\ h \in Server  BY <1>2, <1>5, HomeType
  <2>2. PICK y \in C : Route[y][h] \notin C
    <3> HIDE DEF C
    <3> QED  BY <2>1, NoLoop
  <2> DEFINE z == Route[y][h]
  <2>3. y \in play.servers /\ y \in Server /\ y # h /\ u \in members[y]  BY <1>2, <2>1
  <2>4. z \in Neighbours(y) /\ z \in Server  BY <2>1, <2>3, Hop, Edge
  <2>5. u \in Beyond(y, z)  BY <2>3 DEF Beyond
  <2>6. z \in play.servers
    <3> SUFFICES ASSUME z \notin play.servers  PROVE FALSE
      OBVIOUS
    <3>1. lc[y][z] = "down"  BY <2>3, <2>4 DEF Linked
    <3>2. known[y] \cap Beyond(y, z) = {}  BY <1>1, <2>3, <2>4, <3>1 DEF Inv, Cut, Trusted
    <3> QED  BY <1>3, <2>3, <2>5, <3>2
  <2>7. members[y] \cap Beyond(y, z) = members[z] \cap Beyond(y, z)  BY <1>1, <2>3, <2>4, <2>6, HeardAll
  <2>8. u \in members[z]  BY <2>3, <2>5, <2>7
  <2> QED  BY <2>2, <2>6, <2>8
<1> QED
  <2> SUFFICES ASSUME NEW s \in play.servers, NEW t \in play.servers, NEW u \in User
               PROVE  u \in members[s] <=> u \in members[t]
    <3>1. \A s \in play.servers : members[s] \subseteq User  BY <1>2, <1>3
    <3> QED  BY <3>1
  <2> QED  BY <1>4, <1>5

\* Once all links are up and every line is handled, every server lists the same members, whatever
\* JOINs, PARTs, QUITs, splits and bursts crossed (netsync_chan_join, handle_squit, send_burst), on
\* every tree of servers; that is, as long as no UID has lost a nick collision, and nobody kicks.
THEOREM MembersAgreeHolds == Spec => [](Connected /\ Plain => MembersAgree)
<1>1. Inv /\ Linked => (Connected /\ Plain => MembersAgree)  BY AllAlike DEF MembersAgree
<1> QED  BY <1>1, Always, LinkedHolds, PTL
==============================================================================
