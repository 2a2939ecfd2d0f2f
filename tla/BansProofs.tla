----------------------------- MODULE BansProofs ------------------------------
(***************************************************************************)
(* Proofs about Bans, for any users, operators, masks, durations and       *)
(* limits: a line is never shortened by a refresh, nobody is on under a    *)
(* ban that was not excused, the cached SHUN verdict is current, and the   *)
(* two servers have the same network-wide lines once all is quiet.         *)
(***************************************************************************)
EXTENDS Bans, FiniteSetTheorems, SequenceTheorems, TLAPS

(***************************************************************************)
(* Lists of lines and their expiries.                                      *)
(***************************************************************************)
Lists == UNION {[S -> Nat] : S \in SUBSET Line}
\* An expiry that is as late as another.
Covers(a, b) == a = 0 \/ (b # 0 /\ a >= b)
Lasts(e) == e = 0 \/ e > now

\* Of two expiries server_kline_add keeps one, and it covers both.
LEMMA LongerCovers ==
    ASSUME NEW a \in Nat, NEW b \in Nat
    PROVE  Longer(a, b) \in {a, b} /\ Covers(Longer(a, b), a) /\ Covers(Longer(a, b), b)
  BY DEF Longer, Covers

LEMMA CoversOrder ==
    ASSUME NEW a \in Nat, NEW b \in Nat, NEW c \in Nat
    PROVE  /\ Covers(a, a)
           /\ Covers(a, b) /\ Covers(b, c) => Covers(a, c)
           /\ Covers(a, b) /\ Covers(b, a) => a = b
           /\ now \in Nat /\ Covers(a, b) /\ Lasts(b) => Lasts(a)
  BY DEF Covers, Lasts

LEMMA ListForm ==
    ASSUME NEW ls \in Lists
    PROVE  DOMAIN ls \subseteq Line /\ (\A l \in DOMAIN ls : ls[l] \in Nat)
  BY DEF Lists

LEMMA AddedList ==
    ASSUME NEW ls \in Lists, NEW l \in Line, NEW e \in Nat
    PROVE  /\ Added(ls, l, e) \in Lists
           /\ DOMAIN Added(ls, l, e) = DOMAIN ls \cup {l}
           /\ \A k \in DOMAIN ls \ {l} : Added(ls, l, e)[k] = ls[k]
           /\ Added(ls, l, e)[l] = IF l \in DOMAIN ls THEN Longer(ls[l], e) ELSE e
<1>1. DOMAIN ls \subseteq Line /\ \A k \in DOMAIN ls : ls[k] \in Nat  BY ListForm
<1>2. l \in DOMAIN ls => Longer(ls[l], e) \in Nat  BY <1>1 DEF Longer
<1> DEFINE v == IF l \in DOMAIN ls THEN Longer(ls[l], e) ELSE e
<1>3. v \in Nat  BY <1>2
<1>4. Added(ls, l, e) = [y \in DOMAIN ls \cup {l} |-> IF y = l THEN v ELSE ls[y]]
  BY DEF Added, At
<1> HIDE DEF v
<1>5. Added(ls, l, e) \in [DOMAIN ls \cup {l} -> Nat]  BY <1>1, <1>3, <1>4
<1>6. DOMAIN ls \cup {l} \in SUBSET Line  BY <1>1
<1>7. Added(ls, l, e) \in Lists  BY <1>5, <1>6 DEF Lists
<1>8. /\ DOMAIN Added(ls, l, e) = DOMAIN ls \cup {l}
      /\ \A k \in DOMAIN ls \ {l} : Added(ls, l, e)[k] = ls[k]
      /\ Added(ls, l, e)[l] = v
  BY <1>4
<1> QED  BY <1>7, <1>8 DEF v

LEMMA AddedDomain ==
    ASSUME NEW ls, NEW l, NEW e
    PROVE  DOMAIN Added(ls, l, e) = DOMAIN ls \cup {l}
<1> DEFINE v == IF l \in DOMAIN ls THEN Longer(ls[l], e) ELSE e
<1>1. Added(ls, l, e) = [y \in DOMAIN ls \cup {l} |-> IF y = l THEN v ELSE ls[y]]
  BY DEF Added, At
<1> HIDE DEF v
<1> QED  BY <1>1

LEMMA LessList ==
    ASSUME NEW ls \in Lists, NEW S
    PROVE  /\ Less(ls, S) \in Lists
           /\ DOMAIN Less(ls, S) = DOMAIN ls \ S
           /\ \A k \in DOMAIN ls \ S : Less(ls, S)[k] = ls[k]
<1>1. DOMAIN ls \subseteq Line /\ \A k \in DOMAIN ls : ls[k] \in Nat  BY ListForm
<1>2. Less(ls, S) \in [DOMAIN ls \ S -> Nat]  BY <1>1 DEF Less
<1>3. DOMAIN ls \ S \in SUBSET Line  BY <1>1
<1> QED  BY <1>2, <1>3 DEF Lists, Less

\* A line that is added, to the list or to what has not expired of it, shortens no line that lasts.
LEMMA AddedCovers ==
    ASSUME NEW ls \in Lists, NEW l \in Line, NEW e \in Nat, now \in Nat,
           NEW k \in DOMAIN ls, k \notin Expired(ls)
    PROVE  /\ k \in DOMAIN Added(ls, l, e) /\ Covers(Added(ls, l, e)[k], ls[k])
           /\ k \in DOMAIN Pruned(ls) /\ Pruned(ls)[k] = ls[k]
           /\ k \in DOMAIN Added(Pruned(ls), l, e) /\ Covers(Added(Pruned(ls), l, e)[k], ls[k])
<1>1. ls[k] \in Nat  BY ListForm
<1>2. /\ Pruned(ls) \in Lists
      /\ k \in DOMAIN Pruned(ls) /\ Pruned(ls)[k] = ls[k]
  BY LessList DEF Pruned
<1>3. ASSUME NEW xs \in Lists, k \in DOMAIN xs, xs[k] = ls[k]
      PROVE  k \in DOMAIN Added(xs, l, e) /\ Covers(Added(xs, l, e)[k], ls[k])
  <2>0. /\ DOMAIN Added(xs, l, e) = DOMAIN xs \cup {l}
        /\ \A j \in DOMAIN xs \ {l} : Added(xs, l, e)[j] = xs[j]
        /\ Added(xs, l, e)[l] = IF l \in DOMAIN xs THEN Longer(xs[l], e) ELSE e
    BY AddedList
  <2>1. CASE k = l
    <3>1. Added(xs, l, e)[k] = Longer(ls[k], e)  BY <1>3, <2>0, <2>1
    <3> QED  BY <1>1, <1>3, <2>0, <3>1, LongerCovers
  <2>2. CASE k # l
    <3>1. Added(xs, l, e)[k] = ls[k] /\ k \in DOMAIN Added(xs, l, e)
      BY <1>3, <2>0, <2>2
    <3> QED  BY <1>1, <3>1, CoversOrder
  <2> QED  BY <2>1, <2>2
<1> QED  BY <1>2, <1>3

(***************************************************************************)
(* Types.                                                                  *)
(***************************************************************************)
Message == [kind : {"add", "un"}, line : Wide \X Masks, exp : Nat]
Typed ==
    /\ TypeOK
    /\ lines \in [Servers -> Lists] /\ \A s \in Servers : IsFiniteSet(DOMAIN lines[s])
    /\ wire \in [Servers -> Seq(Message)]
    /\ now \in Nat /\ nlines \in Nat /\ events \in Nat

LEMMA Pair ==
    /\ \A s \in Servers : Other(s) \in Servers /\ Other(s) # s /\ Other(Other(s)) = s
    /\ \A s, t \in Servers : t = s \/ t = Other(s)
<1>1. IsFiniteSet(Servers) /\ Cardinality(Servers) = 2  BY BanTypes
<1>2. PICK a \in Servers : TRUE  BY <1>1, FS_EmptySet
<1>3. IsFiniteSet(Servers \ {a}) /\ Cardinality(Servers \ {a}) = 1  BY <1>1, <1>2, FS_RemoveElement
<1>4. PICK b : Servers \ {a} = {b}  BY <1>3, FS_Singleton
<1>5. Servers = {a, b} /\ a # b  BY <1>2, <1>4
<1> QED  BY <1>5 DEF Other

LEMMA MadeMessage ==
    ASSUME NEW k \in {"add", "un"}, NEW l \in Wide \X Masks, NEW e \in Nat
    PROVE  [kind |-> k, line |-> l, exp |-> e] \in Message
  BY DEF Message

\* Each element of a finite set has its place in Sequenced of it, and there is nothing else there.
LEMMA SequencedAll ==
    ASSUME NEW S, IsFiniteSet(S)
    PROVE  /\ Sequenced(S) \in Seq(S)
           /\ \A x \in S : \E k \in 1..Len(Sequenced(S)) : Sequenced(S)[k] = x
<1> DEFINE n == Cardinality(S)
           Ordered(q) == q \in [1..n -> S] /\ \A a, b \in DOMAIN q : a # b => q[a] # q[b]
<1>1. n \in Nat /\ ExistsBijection(1..n, S)  BY FS_CardinalityType
<1>2. PICK f : f \in Bijection(1..n, S)  BY <1>1 DEF ExistsBijection
<1>3. Ordered(f)  BY <1>2 DEF Bijection, Injection, IsInjective
<1>4. Sequenced(S) = CHOOSE q : Ordered(q)  BY DEF Sequenced
<1>5. Ordered(Sequenced(S))  BY <1>3, <1>4
<1> DEFINE q == Sequenced(S)
<1> HIDE DEF q, n
<1>6. q \in [1..n -> S] /\ \A a, b \in 1..n : a # b => q[a] # q[b]  BY <1>5 DEF q, n
<1>7. q \in Injection(1..n, S)  BY <1>6 DEF Injection, IsInjective
<1>8. Cardinality(1..n) = n  BY <1>1, FS_Interval
<1>9. q \in Surjection(1..n, S)  BY <1>7, <1>8, FS_Injection DEF n
<1>10. q \in Seq(S) /\ Len(q) = n  BY <1>1, <1>6
<1> QED  BY <1>9, <1>10 DEF Surjection, q

\* netsync_burst: every network-wide line once, and nothing else.
LEMMA BurstAll ==
    ASSUME Typed, NEW s \in Servers
    PROVE  /\ Burst(s) \in Seq(Message)
           /\ \A k \in 1..Len(Burst(s)) :
                /\ Burst(s)[k].kind = "add" /\ Burst(s)[k].line \in DOMAIN lines[s]
                /\ Burst(s)[k].exp = lines[s][Burst(s)[k].line]
           /\ \A l \in DOMAIN lines[s] : l[1] \in Wide =>
                \E k \in 1..Len(Burst(s)) : Burst(s)[k] = [kind |-> "add", line |-> l, exp |-> lines[s][l]]
<1> DEFINE W == {k \in DOMAIN lines[s] : k[1] \in Wide}
           F(l) == [kind |-> "add", line |-> l, exp |-> lines[s][l]]
           S == {F(l) : l \in W}
           f == [l \in W |-> F(l)]
<1>1. lines[s] \in Lists /\ IsFiniteSet(DOMAIN lines[s])  BY DEF Typed
<1>2. DOMAIN lines[s] \subseteq Line /\ \A l \in DOMAIN lines[s] : lines[s][l] \in Nat  BY <1>1, ListForm
<1>3. W \in SUBSET DOMAIN lines[s]  OBVIOUS
<1>4. IsFiniteSet(W)  BY <1>1, <1>3, FS_Subset
<1>5. f \in Surjection(W, S)  BY DEF Surjection
<1>6. IsFiniteSet(S)  BY <1>4, <1>5, FS_Surjection
<1>7. \A l \in W : l \in Wide \X Masks  BY <1>2 DEF Line
<1>8. S \subseteq Message  BY <1>2, <1>7, MadeMessage
<1>9. Burst(s) = Sequenced(S)  BY DEF Burst
<1>10. /\ Burst(s) \in Seq(S)
       /\ \A x \in S : \E k \in 1..Len(Burst(s)) : Burst(s)[k] = x
  BY <1>6, <1>9, SequencedAll
<1>11. \A k \in 1..Len(Burst(s)) : Burst(s)[k] \in S  BY <1>10
<1>12. Burst(s) \in Seq(Message)  BY <1>8, <1>10, <1>11
<1>13. ASSUME NEW x \in S
       PROVE  x.kind = "add" /\ x.line \in DOMAIN lines[s] /\ x.exp = lines[s][x.line]
  OBVIOUS
<1>14. \A k \in 1..Len(Burst(s)) :
         /\ Burst(s)[k].kind = "add" /\ Burst(s)[k].line \in DOMAIN lines[s]
         /\ Burst(s)[k].exp = lines[s][Burst(s)[k].line]
  BY <1>11, <1>13
<1>15. \A l \in DOMAIN lines[s] : l[1] \in Wide => F(l) \in S  OBVIOUS
<1> QED  BY <1>10, <1>12, <1>14, <1>15

ListTypes ==
    /\ lines \in [Servers -> Lists] /\ \A s \in Servers : IsFiniteSet(DOMAIN lines[s])
    /\ wire \in [Servers -> Seq(Message)] /\ up \in BOOLEAN /\ torn \subseteq Line
    /\ ~up => \A s \in Servers : wire[s] = << >>
    /\ now \in Nat /\ nlines \in Nat /\ events \in Nat
UserTypes ==
    /\ st \in [Users -> {"off", "conn", "on", "quit"}] /\ named \in [Users -> BOOLEAN]
    /\ ident \in [Users -> Idents] /\ shun \in [Users -> BOOLEAN \cup {None}]
    /\ spared \subseteq Users \X {"K", "G", "Z", "S", "E"} \X Masks

LEMMA TypedParts == Typed <=> ListTypes /\ UserTypes
<1>1. Typed => ListTypes /\ UserTypes  BY DEF Typed, TypeOK, ListTypes, UserTypes
<1>2. ListTypes => \A s \in Servers : DOMAIN lines[s] \subseteq Line /\ \A l \in DOMAIN lines[s] : lines[s][l] \in Nat
  BY ListForm DEF ListTypes
<1>3. ListTypes /\ UserTypes => TypeOK
  BY <1>2 DEF TypeOK, ListTypes, UserTypes
<1> QED  BY <1>1, <1>3 DEF Typed, ListTypes

LEMMA Consts ==
    /\ \A u \in Users : Home[u] \in Servers /\ Own[u] \in Masks /\ u \in Addr[Own[u]] /\ Name[Own[u]] = {} /\ Ident[Own[u]] = None
    /\ Opers \subseteq Users /\ Comers \subseteq Users /\ Plain \in Idents
    /\ \A o \in Opers : Home[o] \in Servers /\ \A t \in Types[o] : t \in {"K", "G", "Z", "S", "E"}
    /\ \A d \in Durations : d \in Nat
    /\ AutoFor \in Nat
  BY BanTypes

LEMMA ExpiryType == ASSUME now \in Nat, NEW d \in Nat PROVE Expiry(d) \in Nat
  BY DEF Expiry

\* One list changes.
LEMMA OneList ==
    ASSUME ListTypes, NEW s \in Servers, NEW ls \in Lists, IsFiniteSet(DOMAIN ls),
           lines' = [lines EXCEPT ![s] = ls]
    PROVE  /\ lines' \in [Servers -> Lists] /\ \A t \in Servers : IsFiniteSet(DOMAIN lines'[t])
           /\ lines'[s] = ls /\ \A t \in Servers \ {s} : lines'[t] = lines[t]
<1>1. lines \in [Servers -> Lists] /\ \A t \in Servers : IsFiniteSet(DOMAIN lines[t])  BY DEF ListTypes
<1>2. lines'[s] = ls /\ \A t \in Servers \ {s} : lines'[t] = lines[t]  BY <1>1
<1>3. lines' \in [Servers -> Lists]  BY <1>1
<1>4. \A t \in Servers : IsFiniteSet(DOMAIN lines'[t])
  <2> TAKE t \in Servers
  <2>1. CASE t = s  BY <1>2, <2>1
  <2>2. CASE t # s  BY <1>1, <1>2, <2>2
  <2> QED  BY <2>1, <2>2
<1> QED  BY <1>2, <1>3, <1>4

\* A line is added by server_kline_add, perhaps after server_kline_prune_expired.
AddStep(s, l, e) ==
    \E L \in {lines[s], Pruned(lines[s])} : lines' = [lines EXCEPT ![s] = Added(L, l, e)]

LEMMA AddStepType ==
    ASSUME ListTypes, NEW s \in Servers, NEW l \in Line, NEW e \in Nat, AddStep(s, l, e)
    PROVE  /\ lines' \in [Servers -> Lists] /\ \A t \in Servers : IsFiniteSet(DOMAIN lines'[t])
           /\ \A t \in Servers \ {s} : lines'[t] = lines[t]
           /\ l \in DOMAIN lines'[s] /\ DOMAIN lines'[s] \subseteq DOMAIN lines[s] \cup {l}
           /\ \A k \in DOMAIN lines[s] : k \notin Expired(lines[s]) =>
                k \in DOMAIN lines'[s] /\ Covers(lines'[s][k], lines[s][k])
           /\ \A k \in DOMAIN lines'[s] \ {l} : lines'[s][k] = lines[s][k]
           /\ Covers(lines'[s][l], e)
           /\ lines'[s][l] # e => l \in DOMAIN lines[s] /\ lines'[s][l] = lines[s][l]
<1>1. lines[s] \in Lists /\ IsFiniteSet(DOMAIN lines[s]) /\ now \in Nat  BY DEF ListTypes
<1>2. PICK L \in {lines[s], Pruned(lines[s])} : lines' = [lines EXCEPT ![s] = Added(L, l, e)]
  BY DEF AddStep
<1>3. /\ Pruned(lines[s]) \in Lists
      /\ DOMAIN Pruned(lines[s]) = DOMAIN lines[s] \ Expired(lines[s])
      /\ \A k \in DOMAIN lines[s] \ Expired(lines[s]) : Pruned(lines[s])[k] = lines[s][k]
  BY <1>1, LessList DEF Pruned
<1>4. L \in Lists /\ DOMAIN L \subseteq DOMAIN lines[s] /\ \A k \in DOMAIN L : L[k] = lines[s][k]
  BY <1>1, <1>2, <1>3
<1>5. IsFiniteSet(DOMAIN L)  BY <1>1, <1>4, FS_Subset
<1>A. ASSUME NEW K \in Lists
      PROVE  /\ Added(K, l, e) \in Lists
             /\ DOMAIN Added(K, l, e) = DOMAIN K \cup {l}
             /\ \A k \in DOMAIN K \ {l} : Added(K, l, e)[k] = K[k]
             /\ Added(K, l, e)[l] = IF l \in DOMAIN K THEN Longer(K[l], e) ELSE e
  BY AddedList
<1>6. /\ Added(L, l, e) \in Lists
      /\ DOMAIN Added(L, l, e) = DOMAIN L \cup {l}
      /\ \A k \in DOMAIN L \ {l} : Added(L, l, e)[k] = L[k]
      /\ Added(L, l, e)[l] = IF l \in DOMAIN L THEN Longer(L[l], e) ELSE e
  BY <1>4, <1>A
<1>7. IsFiniteSet(DOMAIN Added(L, l, e))  BY <1>5, <1>6, FS_AddElement
<1>8. /\ lines' \in [Servers -> Lists] /\ \A t \in Servers : IsFiniteSet(DOMAIN lines'[t])
      /\ lines'[s] = Added(L, l, e) /\ \A t \in Servers \ {s} : lines'[t] = lines[t]
  BY <1>2, <1>6, <1>7, OneList
<1>9. \A k \in DOMAIN lines[s] : k \notin Expired(lines[s]) =>
        k \in DOMAIN lines'[s] /\ Covers(lines'[s][k], lines[s][k])
  BY <1>1, <1>2, <1>8, AddedCovers
<1>10. l \in DOMAIN L => L[l] \in Nat  BY <1>4, ListForm
<1>11. Covers(lines'[s][l], e) /\ (lines'[s][l] # e => l \in DOMAIN L /\ lines'[s][l] = L[l])
  BY <1>6, <1>8, <1>10, LongerCovers, CoversOrder
<1> QED  BY <1>4, <1>6, <1>8, <1>9, <1>11

LEMMA RemovedType ==
    ASSUME ListTypes, NEW s \in Servers, NEW l, Removed(s, l)
    PROVE  /\ lines' \in [Servers -> Lists] /\ \A t \in Servers : IsFiniteSet(DOMAIN lines'[t])
           /\ \A t \in Servers \ {s} : lines'[t] = lines[t]
           /\ DOMAIN lines'[s] = DOMAIN lines[s] \ {l}
           /\ \A k \in DOMAIN lines'[s] : lines'[s][k] = lines[s][k]
<1>1. lines[s] \in Lists /\ IsFiniteSet(DOMAIN lines[s])  BY DEF ListTypes
<1>2. CASE l \notin DOMAIN lines[s]  BY <1>2 DEF Removed, ListTypes
<1>3. CASE l \in DOMAIN lines[s]
  <2>1. lines' = [lines EXCEPT ![s] = Less(lines[s], {l})]  BY <1>3 DEF Removed
  <2>2. /\ Less(lines[s], {l}) \in Lists
        /\ DOMAIN Less(lines[s], {l}) = DOMAIN lines[s] \ {l}
        /\ \A k \in DOMAIN lines[s] \ {l} : Less(lines[s], {l})[k] = lines[s][k]
    BY <1>1, LessList
  <2>3. IsFiniteSet(DOMAIN Less(lines[s], {l}))  BY <1>1, <2>2, FS_RemoveElement
  <2> QED  BY <2>1, <2>2, <2>3, OneList
<1> QED  BY <1>2, <1>3

LEMMA PruneType ==
    ASSUME ListTypes, NEW s \in Servers, Prune(s)
    PROVE  /\ lines' \in [Servers -> Lists] /\ \A t \in Servers : IsFiniteSet(DOMAIN lines'[t])
           /\ \A t \in Servers \ {s} : lines'[t] = lines[t]
           /\ DOMAIN lines'[s] = DOMAIN lines[s] \ Expired(lines[s])
           /\ \A k \in DOMAIN lines'[s] : lines'[s][k] = lines[s][k]
<1>1. lines[s] \in Lists /\ IsFiniteSet(DOMAIN lines[s])  BY DEF ListTypes
<1>2. lines' = [lines EXCEPT ![s] = Pruned(lines[s])]  BY DEF Prune
<1>3. /\ Pruned(lines[s]) \in Lists
      /\ DOMAIN Pruned(lines[s]) = DOMAIN lines[s] \ Expired(lines[s])
      /\ \A k \in DOMAIN lines[s] \ Expired(lines[s]) : Pruned(lines[s])[k] = lines[s][k]
  BY <1>1, LessList DEF Pruned
<1>4. IsFiniteSet(DOMAIN Pruned(lines[s]))  BY <1>1, <1>3, FS_Subset
<1> QED  BY <1>2, <1>3, <1>4, OneList

\* A line is sent to the other server if there is a link, or nowhere.
LEMMA SendType ==
    ASSUME ListTypes, NEW s \in Servers, NEW x \in Message, Send(s, x)
    PROVE  /\ wire' \in [Servers -> Seq(Message)]
           /\ ~up => wire' = wire
           /\ up => /\ wire'[Other(s)] = Append(wire[Other(s)], x)
                    /\ wire'[s] = wire[s]
<1>1. wire \in [Servers -> Seq(Message)] /\ Other(s) \in Servers /\ Other(s) # s
  BY Pair DEF ListTypes
<1>2. CASE up
  <2>1. wire' = [wire EXCEPT ![Other(s)] = Append(@, x)]  BY <1>2 DEF Send
  <2>2. Append(wire[Other(s)], x) \in Seq(Message)  BY <1>1
  <2> QED  BY <1>1, <1>2, <2>1, <2>2
<1>3. CASE ~up  BY <1>1, <1>3 DEF Send
<1> QED  BY <1>2, <1>3

\* The verdicts of the users of one server are dropped.
LEMMA BumpedType ==
    ASSUME UserTypes, NEW s
    PROVE  /\ Bumped(s) \in [Users -> BOOLEAN \cup {None}]
           /\ \A u \in Users : Bumped(s)[u] = IF Home[u] = s THEN None ELSE shun[u]
<1>1. \A u \in Users : (IF Home[u] = s THEN None ELSE shun[u]) \in BOOLEAN \cup {None}
  BY DEF UserTypes
<1> QED  BY <1>1 DEF Bumped

\* server_kline_enforce marks users of its server that are hit, and changes nobody else.
LEMMA EnforcedType ==
    ASSUME UserTypes, NEW s, NEW ls, NEW t, NEW m, NEW x
    PROVE  /\ Enforced(s, ls, t, m, x) \in [Users -> {"off", "conn", "on", "quit"}]
           /\ \A u \in Users : Enforced(s, ls, t, m, x)[u] \in {st[u], "quit"}
           /\ \A u \in Users : st[u] = "off" => Enforced(s, ls, t, m, x)[u] = "off"
           /\ \A u \in Users : Home[u] = s /\ st[u] = "on" /\ u # x /\ HitsNow(t, m, u)
                /\ (t = "Z" \/ ~Exempt(ls, u, ident[u], named[u])) => Enforced(s, ls, t, m, x)[u] = "quit"
<1> DEFINE Hit(u) == /\ Home[u] = s /\ st[u] \in {"conn", "on"} /\ u # x
                     /\ HitsNow(t, m, u) /\ (t = "Z" \/ ~Exempt(ls, u, ident[u], named[u]))
<1>1. Enforced(s, ls, t, m, x) = [u \in Users |-> IF Hit(u) THEN "quit" ELSE st[u]]
  BY DEF Enforced
<1>2. \A u \in Users : st[u] = "on" /\ Home[u] = s /\ u # x /\ HitsNow(t, m, u)
        /\ (t = "Z" \/ ~Exempt(ls, u, ident[u], named[u])) => Hit(u)
  OBVIOUS
<1>3. \A u \in Users : st[u] = "off" => ~Hit(u)  OBVIOUS
<1> HIDE DEF Hit
<1>4. st \in [Users -> {"off", "conn", "on", "quit"}]  BY DEF UserTypes
<1>5. Enforced(s, ls, t, m, x) \in [Users -> {"off", "conn", "on", "quit"}]  BY <1>1, <1>4
<1>6. \A u \in Users : Enforced(s, ls, t, m, x)[u] = IF Hit(u) THEN "quit" ELSE st[u]  BY <1>1
<1> QED  BY <1>2, <1>3, <1>5, <1>6

\* Who is excused is a user, under a ban of its server.
LEMMA UnexemptedType ==
    ASSUME ListTypes, NEW s \in Servers
    PROVE  /\ Unexempted(s) \subseteq Users \X {"K", "G", "Z", "S", "E"} \X Masks
           /\ \A u \in Users : \A l \in DOMAIN lines[s] :
                /\ Home[u] = s /\ st[u] = "on" /\ l[1] \in Bans /\ HitsNow(l[1], l[2], u)
                /\ Exempt(lines[s], u, ident[u], named[u])
                => <<u, l[1], l[2]>> \in Unexempted(s)
<1>1. DOMAIN lines[s] \subseteq Line  BY ListForm DEF ListTypes
<1>2. \A u \in Users : Under(s, u) \subseteq Users \X {"K", "G", "Z", "S", "E"} \X Masks
  BY <1>1 DEF Under, Line
<1>3. \A u \in Users : \A l \in DOMAIN lines[s] :
        st[u] = "on" /\ l[1] \in Bans /\ HitsNow(l[1], l[2], u) => <<u, l[1], l[2]>> \in Under(s, u)
  BY DEF Under
<1>4. Local(s) \subseteq Users /\ \A u \in Users : Home[u] = s => u \in Local(s)  BY DEF Local
<1> DEFINE E(u) == Exempt(lines[s], u, ident[u], named[u])
           U(u) == Under(s, u)
<1>5. Unexempted(s) = UNION {U(u) : u \in {v \in Local(s) : E(v)}}  BY DEF Unexempted
<1> HIDE DEF E, U
<1>6. Unexempted(s) \subseteq UNION {U(u) : u \in Users} /\ \A u \in Local(s) : E(u) => U(u) \subseteq Unexempted(s)
  BY <1>4, <1>5
<1> USE DEF E, U
<1>7. \A u \in Users : Home[u] = s /\ Exempt(lines[s], u, ident[u], named[u]) => Under(s, u) \subseteq Unexempted(s)
  BY <1>4, <1>6
<1> QED  BY <1>2, <1>3, <1>6, <1>7

LEMMA InitTyped == Init => Typed
<1> SUFFICES ASSUME Init PROVE ListTypes /\ UserTypes  BY TypedParts
<1>1. << >> \in Lists /\ DOMAIN << >> = {}
  <2>1. << >> \in [{} -> Nat] /\ {} \in SUBSET Line  OBVIOUS
  <2> QED  BY <2>1 DEF Lists
<1>2. IsFiniteSet({})  BY FS_EmptySet
<1>3. ListTypes  BY <1>1, <1>2 DEF Init, ListTypes
<1>4. UserTypes  BY Consts DEF Init, UserTypes
<1> QED  BY <1>3, <1>4

(***************************************************************************)
(* Steps keep the types.                                                   *)
(***************************************************************************)
LEMMA SetLineAdds ==
    ASSUME Typed, NEW o \in Opers, NEW t \in Types[o], NEW m \in Masks, NEW d \in Durations, SetLine(o, t, m, d)
    PROVE  /\ <<t, m>> \in Line /\ Expiry(d) \in Nat /\ Home[o] \in Servers
           /\ AddStep(Home[o], <<t, m>>, Expiry(d))
<1>1. t \in {"K", "G", "Z", "S", "E"} /\ d \in Nat /\ Home[o] \in Servers  BY Consts
<1>2. Expiry(d) \in Nat  BY <1>1, ExpiryType DEF Typed
<1>3. lines' = [lines EXCEPT ![Home[o]] = Added(Pruned(lines[Home[o]]), <<t, m>>, Expiry(d))]
  BY DEF SetLine
<1> QED  BY <1>1, <1>2, <1>3 DEF AddStep, Line

LEMMA SetLineTyped ==
    ASSUME Typed, NEW o \in Opers, NEW t \in Types[o], NEW m \in Masks, NEW d \in Durations, SetLine(o, t, m, d)
    PROVE  Typed'
<1> DEFINE s == Home[o]
           l == <<t, m>>
           e == Expiry(d)
           ls == Added(Pruned(lines[s]), l, e)
           x == [kind |-> "add", line |-> l, exp |-> e]
<1>1. ListTypes /\ UserTypes  BY TypedParts
<1>2. t \in {"K", "G", "Z", "S", "E"} /\ o \in Users  BY Consts
<1>3. l \in Line /\ e \in Nat /\ s \in Servers /\ AddStep(s, l, e)  BY SetLineAdds
<1>4. /\ nlines' = nlines + 1 /\ shun' = Bumped(s)
      /\ IF t \in Wide THEN Send(s, x) /\ torn' = torn \cup TornByAdd(s, l) ELSE UNCHANGED <<wire, torn>>
      /\ st' = IF t \in Bans THEN Enforced(s, ls, t, m, o) ELSE st
      /\ spared' = spared \cup (IF t \in Bans /\ HitsNow(t, m, o) THEN {<<o, t, m>>} ELSE {})
            \cup (IF \E k \in Expired(lines[s]) : k[1] = "E" THEN Unexempted(s) ELSE {})
      /\ UNCHANGED <<named, ident, up, now, events>>
  BY DEF SetLine
<1> HIDE DEF s, l, e, ls, x
<1>5. lines' \in [Servers -> Lists] /\ \A k \in Servers : IsFiniteSet(DOMAIN lines'[k])
  BY <1>1, <1>3, AddStepType
<1>6. t \in Wide => x \in Message  BY <1>3, MadeMessage DEF x, l
<1>7. wire' \in [Servers -> Seq(Message)] /\ (~up => wire' = wire)
  BY <1>1, <1>3, <1>4, <1>6, SendType DEF ListTypes
<1>8. torn' \subseteq Line  BY <1>1, <1>3, <1>4 DEF TornByAdd, ListTypes
<1>9. ListTypes'  BY <1>1, <1>4, <1>5, <1>7, <1>8 DEF ListTypes
<1>10. st' \in [Users -> {"off", "conn", "on", "quit"}] /\ shun' \in [Users -> BOOLEAN \cup {None}]
  BY <1>1, <1>4, EnforcedType, BumpedType DEF UserTypes
<1>11. spared' \subseteq Users \X {"K", "G", "Z", "S", "E"} \X Masks
  BY <1>1, <1>2, <1>3, <1>4, UnexemptedType DEF UserTypes
<1>12. UserTypes'  BY <1>1, <1>4, <1>10, <1>11 DEF UserTypes
<1> QED  BY <1>9, <1>12, TypedParts, PTL

LEMMA RemovalTyped ==
    ASSUME Typed, NEW o \in Opers, NEW m \in Masks,
           (\E t \in Wide : Unwide(o, t, m)) \/ Uneline(o, m) \/ Unkline(o, m)
    PROVE  Typed'
<1> DEFINE s == Home[o]
<1>1. ListTypes /\ UserTypes /\ o \in Users /\ s \in Servers  BY TypedParts, Consts
<1>2. ASSUME NEW l, Removed(s, l)
      PROVE  /\ lines' \in [Servers -> Lists] /\ \A k \in Servers : IsFiniteSet(DOMAIN lines'[k])
             /\ shun' \in [Users -> BOOLEAN \cup {None}]
  BY <1>1, <1>2, RemovedType, BumpedType DEF Removed, UserTypes
<1>3. ASSUME NEW t \in Wide, Unwide(o, t, m)  PROVE Typed'
  <2> DEFINE x == [kind |-> "un", line |-> <<t, m>>, exp |-> 0]
  <2>1. x \in Message /\ <<t, m>> \in Line  BY MadeMessage DEF Line, Wide
  <2>2. /\ Removed(s, <<t, m>>) /\ Send(s, x) /\ torn' = torn \cup TornByRemoval(s, <<t, m>>)
        /\ events' = events + 1 /\ UNCHANGED <<conns, up, now, spared, nlines>>
    BY <1>3 DEF Unwide, Unset, Event
  <2> HIDE DEF x, s
  <2>3. wire' \in [Servers -> Seq(Message)] /\ (~up => wire' = wire)  BY <1>1, <2>1, <2>2, SendType
  <2>4. torn' \subseteq Line  BY <1>1, <2>1, <2>2 DEF TornByRemoval, ListTypes
  <2>5. ~up' => \A k \in Servers : wire'[k] = << >>  BY <1>1, <2>2, <2>3 DEF ListTypes
  <2>5a. now' \in Nat /\ nlines' \in Nat /\ events' \in Nat /\ up' \in BOOLEAN
    BY <1>1, <2>2 DEF ListTypes
  <2>5b. ListTypes'  BY <1>2, <2>2, <2>3, <2>4, <2>5, <2>5a DEF ListTypes
  <2>6. UserTypes'  BY <1>1, <1>2, <2>2 DEF UserTypes, conns
  <2> QED  BY <2>5b, <2>6, TypedParts, PTL
<1>4. ASSUME Uneline(o, m)  PROVE Typed'
  <2>1. /\ Removed(s, <<"E", m>>) /\ spared' = spared \cup Unexempted(s)
        /\ events' = events + 1 /\ UNCHANGED <<conns, net, now, torn, nlines>>
    BY <1>4 DEF Uneline, Unset, Event
  <2> HIDE DEF s
  <2>2. ListTypes'  BY <1>1, <1>2, <2>1 DEF ListTypes, net
  <2>3. UserTypes'  BY <1>1, <1>2, <2>1, UnexemptedType DEF UserTypes, conns
  <2> QED  BY <2>2, <2>3, TypedParts, PTL
<1>5. ASSUME Unkline(o, m)  PROVE Typed'
  <2>1. PICK t \in Bans :
          /\ Removed(s, <<t, m>>) /\ torn' = IF t = "G" THEN torn \cup {<<t, m>>} ELSE torn
          /\ events' = events + 1 /\ UNCHANGED <<conns, net, now, spared, nlines>>
    BY <1>5 DEF Unkline, Unset, Event
  <2> HIDE DEF s
  <2>2. torn' \subseteq Line  BY <1>1, <2>1 DEF Line, Bans, ListTypes
  <2>3. ListTypes'  BY <1>1, <1>2, <2>1, <2>2 DEF ListTypes, net
  <2>4. UserTypes'  BY <1>1, <1>2, <2>1 DEF UserTypes, conns
  <2> QED  BY <2>3, <2>4, TypedParts, PTL
<1> QED  BY <1>3, <1>4, <1>5

\* Steps of a connection that set no line.
ConnStep(u) ==
    \/ Leave(u) \/ Speak(u)
    \/ u \in Comers /\ (\/ Accept(u) \/ RdnsResult(u) \/ Welcome(u)
                        \/ \E i \in Idents : IdentResult(u, i) \/ ChgIdent(u, i))

LEMMA ConnStepTyped ==
    ASSUME Typed, NEW u \in Users, ConnStep(u)
    PROVE  Typed'
<1>1. ListTypes /\ UserTypes /\ Plain \in Idents /\ Home[u] \in Servers  BY TypedParts, Consts
<1>2. UNCHANGED <<lines, net, now, torn, nlines>> /\ events' \in {events, events + 1}
  BY DEF ConnStep, Leave, Speak, Accept, RdnsResult, Welcome, IdentResult, ChgIdent, Event, counts
<1>3. ListTypes'
  BY <1>1, <1>2 DEF ListTypes, net
<1>4. ASSUME Leave(u) PROVE UserTypes'  BY <1>1, <1>4 DEF Leave, UserTypes
<1>5. ASSUME Speak(u) PROVE UserTypes'
  <2> DEFINE b == \E l \in DOMAIN lines[Home[u]] : l[1] = "S" /\ HitsNow("K", l[2], u)
  <2>1. b \in BOOLEAN /\ shun' = [shun EXCEPT ![u] = b] /\ UNCHANGED <<conns, spared>>  BY <1>5 DEF Speak
  <2> HIDE DEF b
  <2> QED  BY <1>1, <2>1 DEF UserTypes, conns
<1>6. ASSUME Accept(u) PROVE UserTypes'  BY <1>1, <1>6 DEF Accept, UserTypes
<1>7. ASSUME RdnsResult(u) PROVE UserTypes'  BY <1>1, <1>7 DEF RdnsResult, UserTypes
<1>8. ASSUME Welcome(u) PROVE UserTypes'  BY <1>1, <1>8 DEF Welcome, UserTypes
<1>9. ASSUME NEW i \in Idents, IdentResult(u, i)  PROVE UserTypes'
  BY <1>1, <1>9 DEF IdentResult, UserTypes
<1>10. ASSUME NEW i \in Idents, ChgIdent(u, i)  PROVE UserTypes'
  <2> DEFINE L == {k \in DOMAIN lines[Home[u]] : k[1] \in Bans}
  <2>1. spared' = spared \cup {<<u, l[1], l[2]>> : l \in L}  BY <1>10 DEF ChgIdent
  <2>2. L \subseteq Line  BY <1>1, ListForm DEF ListTypes
  <2>3. spared' \subseteq Users \X {"K", "G", "Z", "S", "E"} \X Masks
    BY <1>1, <2>1, <2>2 DEF UserTypes, Line
  <2> QED  BY <1>1, <1>10, <2>3 DEF ChgIdent, UserTypes
<1>11. UserTypes'  BY <1>4, <1>5, <1>6, <1>7, <1>8, <1>9, <1>10 DEF ConnStep
<1> QED  BY <1>3, <1>11, TypedParts, PTL

\* Lines the server sets itself.
OwnLine(u) ==
    \/ ConnectFlood(u) \/ SpamZline(u) \/ SpamShun(u) \/ \E t \in {"K", "Z"} : Listed(u, t)

LEMMA OwnLineAdds ==
    ASSUME Typed, NEW u \in Comers, NEW t \in {"K", "Z", "S"}, NEW after, AutoLine(u, t, after)
    PROVE  /\ <<t, Own[u]>> \in Line /\ Expiry(AutoFor) \in Nat /\ Home[u] \in Servers
           /\ AddStep(Home[u], <<t, Own[u]>>, Expiry(AutoFor))
           /\ lines' \in [Servers -> Lists] /\ \A k \in Servers : IsFiniteSet(DOMAIN lines'[k])
           /\ nlines' \in Nat /\ shun' = Bumped(Home[u]) /\ st' = after
           /\ shun' \in [Users -> BOOLEAN \cup {None}]
<1>1. u \in Users /\ Home[u] \in Servers /\ Own[u] \in Masks /\ AutoFor \in Nat  BY Consts
<1>2. ListTypes /\ UserTypes  BY TypedParts
<1>3. Expiry(AutoFor) \in Nat /\ <<t, Own[u]>> \in Line  BY <1>1, <1>2, ExpiryType DEF ListTypes, Line
<1>4. /\ lines' = [lines EXCEPT ![Home[u]] = Added(lines[Home[u]], <<t, Own[u]>>, Expiry(AutoFor))]
      /\ nlines' = nlines + 1 /\ shun' = Bumped(Home[u]) /\ st' = after
  BY DEF AutoLine
<1>5. AddStep(Home[u], <<t, Own[u]>>, Expiry(AutoFor))  BY <1>4 DEF AddStep
<1>6. nlines' \in Nat  BY <1>2, <1>4 DEF ListTypes
<1> QED  BY <1>1, <1>2, <1>3, <1>4, <1>5, <1>6, AddStepType, BumpedType

LEMMA OwnLineTyped ==
    ASSUME Typed, NEW u \in Comers, OwnLine(u)
    PROVE  Typed'
<1> DEFINE s == Home[u]
           m == Own[u]
<1>1. ListTypes /\ UserTypes /\ u \in Users /\ s \in Servers /\ m \in Masks  BY TypedParts, Consts
<1>2. \A v \in Local(s) : v \in Users  BY DEF Local
<1>3. ASSUME ConnectFlood(u)  PROVE Typed'
  <2>1. /\ AutoLine(u, "Z", st) /\ UNCHANGED <<named, ident, net, now, torn, events>>
        /\ spared' = spared \cup {<<v, "Z", m>> : v \in {w \in Local(s) : st[w] = "on"}}
    BY <1>3 DEF ConnectFlood
  <2>2. spared' \subseteq Users \X {"K", "G", "Z", "S", "E"} \X Masks  BY <1>1, <1>2, <2>1 DEF UserTypes
  <2>3. ListTypes'  BY <1>1, <2>1, OwnLineAdds DEF ListTypes, net
  <2>4. UserTypes'  BY <1>1, <2>1, <2>2, OwnLineAdds DEF UserTypes
  <2> QED  BY <2>3, <2>4, TypedParts, PTL
<1>4. ASSUME NEW t \in {"K", "Z"}, Listed(u, t)  PROVE Typed'
  <2> DEFINE after == [Enforced(s, lines[s], "Z", m, u) EXCEPT ![u] = "quit"]
  <2>1. AutoLine(u, t, after) /\ UNCHANGED <<named, ident, net, now, spared, torn, events>>
    BY <1>4 DEF Listed
  <2>2. after \in [Users -> {"off", "conn", "on", "quit"}]  BY <1>1, EnforcedType
  <2> HIDE DEF after
  <2>3. ListTypes'  BY <1>1, <2>1, OwnLineAdds DEF ListTypes, net
  <2>4. UserTypes'  BY <1>1, <2>1, <2>2, OwnLineAdds DEF UserTypes
  <2> QED  BY <2>3, <2>4, TypedParts, PTL
<1>5. ASSUME SpamZline(u)  PROVE Typed'
  <2> DEFINE Hit(v) == Home[v] = Home[u] /\ v \in Addr[Own[u]] /\ st[v] \in {"conn", "on"} /\ v \notin Opers
             after == [v \in Users |-> IF Hit(v) THEN "quit" ELSE st[v]]
  <2>1. /\ AutoLine(u, "Z", after) /\ UNCHANGED <<named, ident, net, now, torn, events>>
        /\ spared' = spared \cup {<<v, "Z", m>> : v \in Opers \cap Local(s) \cap Addr[m]}
    BY <1>5 DEF SpamZline
  <2> HIDE DEF Hit
  <2>2. after \in [Users -> {"off", "conn", "on", "quit"}]  BY <1>1 DEF UserTypes
  <2> HIDE DEF after
  <2>3. spared' \subseteq Users \X {"K", "G", "Z", "S", "E"} \X Masks  BY <1>1, <1>2, <2>1 DEF UserTypes
  <2>4. ListTypes'  BY <1>1, <2>1, OwnLineAdds DEF ListTypes, net
  <2>5. UserTypes'  BY <1>1, <2>1, <2>2, <2>3, OwnLineAdds DEF UserTypes
  <2> QED  BY <2>4, <2>5, TypedParts, PTL
<1>6. ASSUME SpamShun(u)  PROVE Typed'
  <2> DEFINE x == [kind |-> "add", line |-> <<"S", m>>, exp |-> Expiry(AutoFor)]
  <2>1. /\ AutoLine(u, "S", st) /\ Send(s, x) /\ torn' = torn \cup TornByAdd(s, <<"S", m>>)
        /\ UNCHANGED <<named, ident, up, now, spared, events>>
    BY <1>6 DEF SpamShun
  <2>2. Expiry(AutoFor) \in Nat /\ <<"S", m>> \in Line  BY <2>1, OwnLineAdds
  <2>3. x \in Message  BY <1>1, <2>2, MadeMessage DEF Wide
  <2> HIDE DEF x
  <2>4. wire' \in [Servers -> Seq(Message)] /\ (~up => wire' = wire)  BY <1>1, <2>1, <2>3, SendType
  <2>5. torn' \subseteq Line  BY <1>1, <2>1, <2>2 DEF TornByAdd, ListTypes
  <2>6. ListTypes'  BY <1>1, <2>1, <2>4, <2>5, OwnLineAdds DEF ListTypes
  <2>7. UserTypes'  BY <1>1, <2>1, OwnLineAdds DEF UserTypes
  <2> QED  BY <2>6, <2>7, TypedParts, PTL
<1> QED  BY <1>3, <1>4, <1>5, <1>6 DEF OwnLine

\* What Receive does with the first line on the wire.
Dropped(x) == x.kind = "add" /\ x.exp # 0 /\ x.exp <= now
LEMMA ReceiveCases ==
    ASSUME Typed, NEW s \in Servers, Receive(s)
    PROVE  LET x == Head(wire[s]) IN
           /\ up /\ wire[s] # << >> /\ x \in Message /\ wire' = [wire EXCEPT ![s] = Tail(@)]
           /\ x.line \in Wide \X Masks /\ x.line \in Line /\ x.exp \in Nat
           /\ \/ Dropped(x) /\ UNCHANGED <<lines, shun, st>>
              \/ /\ x.kind = "add" /\ ~Dropped(x) /\ AddStep(s, x.line, x.exp) /\ shun' = Bumped(s)
                 /\ DOMAIN lines[s] \subseteq DOMAIN lines'[s]
                 /\ st' = IF x.line[1] = "G" THEN Enforced(s, lines'[s], "G", x.line[2], None) ELSE st
              \/ x.kind = "un" /\ Removed(s, x.line) /\ UNCHANGED st
           /\ UNCHANGED <<named, ident, up, now, spared, torn, counts>>
<1> DEFINE x == Head(wire[s])
           ls == Added(lines[s], x.line, x.exp)
<1>1. ListTypes  BY TypedParts
<1>2. x \in Message  BY <1>1 DEF Receive, ListTypes
<1>3. x.line \in Wide \X Masks /\ x.line \in Line /\ x.exp \in Nat  BY <1>2 DEF Message, Line, Wide
<1>4. /\ up /\ wire[s] # << >> /\ wire' = [wire EXCEPT ![s] = Tail(@)]
      /\ \/ x.kind = "add" /\ x.exp # 0 /\ x.exp <= now /\ UNCHANGED <<lines, shun, st>>
         \/ /\ x.kind = "add" /\ ~(x.exp # 0 /\ x.exp <= now)
            /\ lines' = [lines EXCEPT ![s] = ls] /\ shun' = Bumped(s)
            /\ st' = IF x.line[1] = "G" THEN Enforced(s, ls, "G", x.line[2], None) ELSE st
         \/ x.kind = "un" /\ Removed(s, x.line) /\ UNCHANGED st
      /\ UNCHANGED <<named, ident, up, now, spared, torn, counts>>
  BY DEF Receive
<1>5. lines' = [lines EXCEPT ![s] = ls] => AddStep(s, x.line, x.exp)  BY DEF AddStep
<1>6. lines' = [lines EXCEPT ![s] = ls] => lines'[s] = ls  BY <1>1 DEF ListTypes
<1>6a. DOMAIN ls = DOMAIN lines[s] \cup {x.line}  BY AddedDomain
<1>6b. DOMAIN lines[s] \subseteq DOMAIN ls  BY <1>6a
<1> HIDE DEF ls, x
<1>7. \/ Dropped(x) /\ UNCHANGED <<lines, shun, st>>
      \/ /\ x.kind = "add" /\ ~Dropped(x) /\ AddStep(s, x.line, x.exp) /\ shun' = Bumped(s)
         /\ DOMAIN lines[s] \subseteq DOMAIN lines'[s]
         /\ st' = IF x.line[1] = "G" THEN Enforced(s, lines'[s], "G", x.line[2], None) ELSE st
      \/ x.kind = "un" /\ Removed(s, x.line) /\ UNCHANGED st
  BY <1>4, <1>5, <1>6, <1>6b, Zenon DEF Dropped
<1> QED  BY <1>2, <1>3, <1>4, <1>7 DEF x

LEMMA ReceiveTyped ==
    ASSUME Typed, NEW s \in Servers, Receive(s)
    PROVE  Typed'
<1> DEFINE x == Head(wire[s])
<1>1. ListTypes /\ UserTypes  BY TypedParts
<1>2. /\ up /\ wire[s] # << >> /\ wire' = [wire EXCEPT ![s] = Tail(@)]
      /\ x.line \in Line /\ x.exp \in Nat
      /\ \/ Dropped(x) /\ UNCHANGED <<lines, shun, st>>
         \/ /\ x.kind = "add" /\ ~Dropped(x) /\ AddStep(s, x.line, x.exp) /\ shun' = Bumped(s)
            /\ st' = IF x.line[1] = "G" THEN Enforced(s, lines'[s], "G", x.line[2], None) ELSE st
         \/ x.kind = "un" /\ Removed(s, x.line) /\ UNCHANGED st
      /\ UNCHANGED <<named, ident, up, now, spared, torn, counts>>
  BY ReceiveCases
<1> HIDE DEF x
<1>3. wire' \in [Servers -> Seq(Message)]  BY <1>1, <1>2 DEF ListTypes
<1>4. lines' \in [Servers -> Lists] /\ \A k \in Servers : IsFiniteSet(DOMAIN lines'[k])
  <2>1. CASE UNCHANGED lines  BY <1>1, <2>1 DEF ListTypes
  <2>2. CASE AddStep(s, x.line, x.exp)  BY <1>1, <1>2, <2>2, AddStepType
  <2>3. CASE Removed(s, x.line)  BY <1>1, <2>3, RemovedType
  <2> QED  BY <1>2, <2>1, <2>2, <2>3
<1>5. shun' \in [Users -> BOOLEAN \cup {None}]  BY <1>1, <1>2, BumpedType DEF Removed, UserTypes
<1>6. st' \in [Users -> {"off", "conn", "on", "quit"}]  BY <1>1, <1>2, EnforcedType DEF UserTypes
<1>7. ListTypes'  BY <1>1, <1>2, <1>3, <1>4 DEF ListTypes, counts
<1>8. UserTypes'  BY <1>1, <1>2, <1>5, <1>6 DEF UserTypes
<1> QED  BY <1>7, <1>8, TypedParts, PTL

LEMMA NetTyped ==
    ASSUME Typed, LinkUp \/ Split \/ Tick \/ \E s \in Servers : Prune(s)
    PROVE  Typed'
<1>1. ListTypes /\ UserTypes  BY TypedParts
<1>2. ASSUME LinkUp  PROVE Typed'
  <2>1. \A s \in Servers : Burst(Other(s)) \in Seq(Message)  BY Pair, BurstAll
  <2>2. wire' \in [Servers -> Seq(Message)] /\ up' = TRUE  BY <1>2, <2>1 DEF LinkUp
  <2>3. UNCHANGED <<conns, lines, shun, now, spared, torn, counts>>  BY <1>2 DEF LinkUp
  <2>4. ListTypes'  BY <1>1, <2>2, <2>3 DEF ListTypes, counts
  <2>5. UserTypes'  BY <1>1, <2>3 DEF UserTypes, conns
  <2> QED  BY <2>4, <2>5, TypedParts, PTL
<1>3. ASSUME Split  PROVE Typed'
  <2> DEFINE M == UNION {{wire[s][i] : i \in DOMAIN wire[s]} : s \in Servers}
             gone == {x.line : x \in {y \in M : y.kind = "un"}}
  <2>1. /\ up' = FALSE /\ wire' = [s \in Servers |-> << >>] /\ torn' = torn \cup gone
        /\ events' = events + 1 /\ UNCHANGED <<conns, lines, shun, now, spared, nlines>>
    BY <1>3 DEF Split, Event
  <2>2. M \subseteq Message  BY <1>1 DEF ListTypes
  <2>3. \A x \in Message : x.line \in Line  BY DEF Message, Line, Wide
  <2>4. gone \subseteq Line  BY <2>2, <2>3
  <2> HIDE DEF gone
  <2> << >> \in Seq(Message)  OBVIOUS
  <2>4a. wire' \in [Servers -> Seq(Message)] /\ \A s \in Servers : wire'[s] = << >>  BY <2>1
  <2>4b. now' \in Nat /\ nlines' \in Nat /\ events' \in Nat /\ up' \in BOOLEAN
    <3>1. now \in Nat /\ nlines \in Nat /\ events \in Nat  BY <1>1 DEF ListTypes
    <3>2. up' = FALSE /\ events' = events + 1 /\ now' = now /\ nlines' = nlines  BY <2>1
    <3>3. up' \in BOOLEAN  BY <3>2, Zenon
    <3>4. now' \in Nat /\ nlines' \in Nat /\ events' \in Nat  BY <3>1, <3>2
    <3> QED  BY <3>3, <3>4
  <2>4c. torn' \subseteq Line
    BY <1>1, <2>1, <2>4 DEF ListTypes
  <2>5. ListTypes'  BY <1>1, <2>1, <2>4a, <2>4b, <2>4c DEF ListTypes
  <2>6. UserTypes'  BY <1>1, <2>1 DEF UserTypes, conns
  <2> QED  BY <2>5, <2>6, TypedParts, PTL
<1>4. ASSUME Tick  PROVE Typed'
  <2>1. ListTypes'  BY <1>1, <1>4 DEF Tick, ListTypes, net, counts
  <2>2. UserTypes'  BY <1>1, <1>4 DEF Tick, UserTypes, conns
  <2> QED  BY <2>1, <2>2, TypedParts, PTL
<1>5. ASSUME NEW s \in Servers, Prune(s)  PROVE Typed'
  <2>1. lines' \in [Servers -> Lists] /\ \A k \in Servers : IsFiniteSet(DOMAIN lines'[k])  BY <1>1, <1>5, PruneType
  <2>2. /\ shun' = Bumped(s) /\ UNCHANGED <<conns, net, now, torn, counts>>
        /\ spared' \in {spared, spared \cup Unexempted(s)}
    BY <1>5 DEF Prune
  <2>3. ListTypes'  BY <1>1, <2>1, <2>2 DEF ListTypes, net, counts
  <2>4. UserTypes'  BY <1>1, <2>2, BumpedType, UnexemptedType DEF UserTypes, conns
  <2> QED  BY <2>3, <2>4, TypedParts, PTL
<1> QED  BY <1>2, <1>3, <1>4, <1>5

\* The steps of a run, in these groups.
LEMMA NextGroups ==
    Next => \/ \E o \in Opers, m \in Masks :
                 \/ \E t \in Types[o], d \in Durations : SetLine(o, t, m, d)
                 \/ (\E t \in Wide : Unwide(o, t, m)) \/ Uneline(o, m) \/ Unkline(o, m)
            \/ \E u \in Users : ConnStep(u)
            \/ \E u \in Comers : OwnLine(u)
            \/ \E s \in Servers : Receive(s)
            \/ LinkUp \/ Split \/ Tick \/ \E s \in Servers : Prune(s)
  BY Consts DEF Next, ConnStep, OwnLine

LEMMA NextTyped == Typed /\ [Next]_vars => Typed'
<1>1. ASSUME Typed, UNCHANGED vars  PROVE Typed'
  BY <1>1 DEF Typed, TypeOK, vars, conns, net, counts, Wide
<1> QED  BY <1>1, NextGroups, SetLineTyped, RemovalTyped, ConnStepTyped, OwnLineTyped, ReceiveTyped, NetTyped

THEOREM TypeCorrect == Spec => []Typed
  BY InitTyped, NextTyped, PTL DEF Spec

(***************************************************************************)
(* A line is never shortened.                                              *)
(***************************************************************************)
Untouched(s, l) ==
    \/ l \in Expired(lines[s])
    \/ events' # events
    \/ wire[s] # << >> /\ wire'[s] = Tail(wire[s]) /\ Head(wire[s]).kind = "un"
    \/ l \in DOMAIN lines'[s] /\ (lines'[s][l] = 0 \/ (lines[s][l] # 0 /\ lines'[s][l] >= lines[s][l]))

LEMMA NeverShortenedStep ==
    Typed /\ [Next]_vars => \A s \in Servers : \A l \in DOMAIN lines[s] : Untouched(s, l)
<1> SUFFICES ASSUME Typed, [Next]_vars, NEW s \in Servers, NEW l \in DOMAIN lines[s]
             PROVE  Untouched(s, l)
  OBVIOUS
<1>1. ListTypes /\ lines[s][l] \in Nat  BY TypedParts, ListForm DEF ListTypes
<1>2. ASSUME lines'[s] = lines[s]  PROVE Untouched(s, l)
  BY <1>1, <1>2 DEF Untouched
<1>3. ASSUME NEW t \in Servers, NEW k \in Line, NEW e \in Nat, AddStep(t, k, e)  PROVE Untouched(s, l)
  <2>1. CASE s # t  BY <1>1, <1>2, <1>3, <2>1, AddStepType
  <2>2. CASE s = t /\ l \notin Expired(lines[s])
    BY <1>1, <1>3, <2>2, AddStepType DEF Untouched, Covers
  <2>3. CASE l \in Expired(lines[s])  BY <2>3 DEF Untouched
  <2> QED  BY <2>1, <2>2, <2>3
<1>4. ASSUME events' = events + 1  PROVE Untouched(s, l)
  BY <1>1, <1>4 DEF Untouched, ListTypes
<1>5. ASSUME NEW o \in Opers, NEW m \in Masks, NEW t \in Types[o], NEW d \in Durations, SetLine(o, t, m, d)
      PROVE  Untouched(s, l)
  BY <1>3, <1>5, SetLineAdds
<1>6. ASSUME NEW o \in Opers, NEW m \in Masks, (\E t \in Wide : Unwide(o, t, m)) \/ Uneline(o, m) \/ Unkline(o, m)
      PROVE  Untouched(s, l)
  BY <1>4, <1>6 DEF Unwide, Uneline, Unkline, Unset, Event
<1>7. ASSUME NEW u \in Users, ConnStep(u)  PROVE Untouched(s, l)
  BY <1>2, <1>7 DEF ConnStep, Leave, Speak, Accept, RdnsResult, Welcome, IdentResult, ChgIdent
<1>8. ASSUME NEW u \in Comers, OwnLine(u)  PROVE Untouched(s, l)
  <2>1. \E t \in {"K", "Z", "S"} : \E after : AutoLine(u, t, after)
    BY <1>8 DEF OwnLine, ConnectFlood, SpamZline, SpamShun, Listed
  <2> QED  BY <1>3, <2>1, OwnLineAdds
<1>9. ASSUME NEW t \in Servers, Receive(t)  PROVE Untouched(s, l)
  <2> DEFINE x == Head(wire[t])
  <2>1. /\ wire[t] # << >> /\ wire' = [wire EXCEPT ![t] = Tail(@)]
        /\ x.line \in Line /\ x.exp \in Nat
        /\ \/ UNCHANGED lines
           \/ AddStep(t, x.line, x.exp)
           \/ x.kind = "un" /\ Removed(t, x.line)
    BY <1>9, ReceiveCases
  <2> HIDE DEF x
  <2>2. CASE x.kind = "un" /\ Removed(t, x.line) /\ s = t
    <3>1. wire'[t] = Tail(wire[t])  BY <1>1, <2>1 DEF ListTypes
    <3> QED  BY <2>1, <2>2, <3>1 DEF Untouched, x
  <2>3. CASE Removed(t, x.line) /\ s # t  BY <1>1, <1>2, <2>3, RemovedType
  <2> QED  BY <1>2, <1>3, <2>1, <2>2, <2>3
<1>10. ASSUME LinkUp \/ Split \/ Tick \/ UNCHANGED vars  PROVE Untouched(s, l)
  BY <1>2, <1>10 DEF LinkUp, Split, Tick, vars
<1>11. ASSUME NEW t \in Servers, Prune(t)  PROVE Untouched(s, l)
  <2>1. CASE s # t  BY <1>1, <1>2, <1>11, <2>1, PruneType
  <2>2. CASE s = t /\ l \notin Expired(lines[s])
    BY <1>1, <1>11, <2>2, PruneType DEF Untouched
  <2>3. CASE l \in Expired(lines[s])  BY <2>3 DEF Untouched
  <2> QED  BY <2>1, <2>2, <2>3
<1> QED  BY <1>5, <1>6, <1>7, <1>8, <1>9, <1>10, <1>11, NextGroups

\* server_kline_add: a line goes when it expires or is removed, here or by the other side; a refresh
\* never ends it earlier, nor one that is for ever.
THEOREM NeverShortenedHolds == Spec => NeverShortened
<1>1. Typed /\ [Next]_vars => [\A s \in Servers : \A l \in DOMAIN lines[s] :
         \/ l \in Expired(lines[s])
         \/ events' # events
         \/ wire[s] # << >> /\ wire'[s] = Tail(wire[s]) /\ Head(wire[s]).kind = "un"
         \/ l \in DOMAIN lines'[s] /\ (lines'[s][l] = 0 \/ (lines[s][l] # 0 /\ lines'[s][l] >= lines[s][l]))]_vars
  BY NeverShortenedStep DEF Untouched
<1> QED  BY <1>1, TypeCorrect, PTL DEF Spec, NeverShortened

(***************************************************************************)
(* Bans bite and verdicts are current, user by user.  Besides, no verdict  *)
(* is kept for a user that has not registered: the first is given under    *)
(* the ident that counts.                                                  *)
(***************************************************************************)
Excused(u, l) ==
    \/ l[1] # "Z" /\ Exempt(lines[Home[u]], u, ident[u], named[u])
    \/ <<u, l[1], l[2]>> \in spared
Unbanned(u) ==
    st[u] = "on" =>
      \A l \in DOMAIN lines[Home[u]] : l[1] \in Bans /\ HitsNow(l[1], l[2], u) => Excused(u, l)
ShunAt(u) == \E l \in DOMAIN lines[Home[u]] : l[1] = "S" /\ HitsNow("K", l[2], u)
Current(u) == st[u] = "on" /\ shun[u] # None => shun[u] = ShunAt(u)
Fresh(u) == st[u] = "conn" => shun[u] = None
UserOK(u) == Unbanned(u) /\ Current(u) /\ Fresh(u)
UsersOK == \A u \in Users : UserOK(u)

LEMMA UsersOKParts == UsersOK => NoneBanned /\ ShunCurrent
  BY DEF UsersOK, UserOK, Unbanned, Current, NoneBanned, ShunCurrent, Excused, ShunAt

\* Nothing that concerns the user changes.
LEMMA Frame ==
    ASSUME NEW u \in Users, UserOK(u),
           st'[u] = st[u], named'[u] = named[u], ident'[u] = ident[u],
           shun'[u] = shun[u], lines'[Home[u]] = lines[Home[u]],
           \A x : x[1] = u /\ x \in spared => x \in spared'
    PROVE  UserOK(u)'
<1>1. \A t, m : HitsNow(t, m, u)' <=> HitsNow(t, m, u)  BY DEF HitsNow
<1>2. \A l : Excused(u, l) => Excused(u, l)'  BY DEF Excused
<1>3. Unbanned(u)'  BY <1>1, <1>2 DEF UserOK, Unbanned
<1>4. ShunAt(u)' = ShunAt(u)  BY <1>1 DEF ShunAt
<1>5. Current(u)'  BY <1>4 DEF UserOK, Current
<1>6. Fresh(u)'  BY DEF UserOK, Fresh
<1> QED  BY <1>3, <1>5, <1>6 DEF UserOK

LEMMA Away == ASSUME NEW u \in Users, st'[u] \notin {"on", "conn"} PROVE UserOK(u)'
  BY DEF UserOK, Unbanned, Current, Fresh

\* The list of the user's server changes: what is new in it hits nobody who stays on unless it is
\* excused, and who loses an exemption is excused; the verdict is dropped.
LEMMA ListChange ==
    ASSUME NEW u \in Users, UserOK(u), ListTypes, Home[u] \in Servers,
           st'[u] \in {st[u], "quit"}, named'[u] = named[u], ident'[u] = ident[u], shun'[u] = None,
           \A x : x[1] = u /\ x \in spared => x \in spared',
           \A l \in DOMAIN lines'[Home[u]] \ DOMAIN lines[Home[u]] :
             st'[u] = "on" /\ l[1] \in Bans /\ HitsNow(l[1], l[2], u) => Excused(u, l)',
           \/ \A l \in DOMAIN lines[Home[u]] : l[1] = "E" => l \in DOMAIN lines'[Home[u]]
           \/ Unexempted(Home[u]) \subseteq spared'
    PROVE  UserOK(u)'
<1>1. \A t, m : HitsNow(t, m, u)' <=> HitsNow(t, m, u)  BY DEF HitsNow
<1>2. ASSUME NEW l \in DOMAIN lines[Home[u]], st[u] = "on", l[1] \in Bans, HitsNow(l[1], l[2], u)
      PROVE  Excused(u, l)'
  <2>1. Excused(u, l)  BY <1>2 DEF UserOK, Unbanned
  <2>2. CASE <<u, l[1], l[2]>> \in spared  BY <2>2 DEF Excused
  <2>3. CASE l[1] # "Z" /\ Exempt(lines[Home[u]], u, ident[u], named[u])
    <3>1. CASE \A k \in DOMAIN lines[Home[u]] : k[1] = "E" => k \in DOMAIN lines'[Home[u]]
      <4>1. Exempt(lines'[Home[u]], u, ident'[u], named'[u])  BY <2>3, <3>1 DEF Exempt
      <4> QED  BY <2>3, <4>1 DEF Excused
    <3>2. CASE Unexempted(Home[u]) \subseteq spared'
      <4>1. <<u, l[1], l[2]>> \in Unexempted(Home[u])  BY <1>2, <2>3, UnexemptedType
      <4> QED  BY <3>2, <4>1 DEF Excused
    <3> QED  BY <3>1, <3>2
  <2> QED  BY <2>1, <2>2, <2>3 DEF Excused
<1>3. st'[u] = "on" => st[u] = "on"  OBVIOUS
<1>4. Unbanned(u)'  BY <1>1, <1>2, <1>3 DEF Unbanned
<1>5. Current(u)' /\ Fresh(u)'  BY DEF Current, Fresh
<1> QED  BY <1>4, <1>5 DEF UserOK

\* The list of one server changes as ListChange says, and elsewhere nothing does.
LEMMA ListChanges ==
    ASSUME Typed, UsersOK, NEW s \in Servers,
           \A t \in Servers \ {s} : lines'[t] = lines[t],
           shun' = Bumped(s), named' = named, ident' = ident, spared \subseteq spared',
           \A u \in Users : st'[u] \in {st[u], "quit"},
           \A u \in Users : Home[u] = s =>
             \A l \in DOMAIN lines'[s] \ DOMAIN lines[s] :
               st'[u] = "on" /\ l[1] \in Bans /\ HitsNow(l[1], l[2], u) => Excused(u, l)',
           \/ \A l \in DOMAIN lines[s] : l[1] = "E" => l \in DOMAIN lines'[s]
           \/ Unexempted(s) \subseteq spared'
    PROVE  UsersOK'
<1> SUFFICES ASSUME NEW u \in Users PROVE UserOK(u)'  BY DEF UsersOK
<1>1. ListTypes /\ UserTypes /\ Home[u] \in Servers /\ UserOK(u)  BY TypedParts, Consts DEF UsersOK
<1>2. shun'[u] = IF Home[u] = s THEN None ELSE shun[u]  BY <1>1, BumpedType
<1>3. \A x : x[1] = u /\ x \in spared => x \in spared'  OBVIOUS
<1>4. CASE Home[u] = s
  <2>1. shun'[u] = None /\ st'[u] \in {st[u], "quit"} /\ named'[u] = named[u] /\ ident'[u] = ident[u]
    BY <1>2, <1>4
  <2> QED  BY <1>1, <1>3, <1>4, <2>1, ListChange
<1>5. CASE Home[u] # s /\ st'[u] = "quit"  BY <1>5, Away
<1>6. CASE Home[u] # s /\ st'[u] = st[u]
  <2>1. shun'[u] = shun[u] /\ named'[u] = named[u] /\ ident'[u] = ident[u] /\ lines'[Home[u]] = lines[Home[u]]
    BY <1>1, <1>2, <1>6
  <2> QED  BY <1>1, <1>3, <1>6, <2>1, Frame
<1> QED  BY <1>4, <1>5, <1>6

\* A line goes that is no exemption, or that is not there.
LEMMA RemovedUsers ==
    ASSUME Typed, UsersOK, NEW s \in Servers, NEW l, Removed(s, l), UNCHANGED <<st, named, ident>>,
           spared \subseteq spared', l[1] # "E" \/ Unexempted(s) \subseteq spared'
    PROVE  UsersOK'
<1>1. ListTypes /\ UserTypes  BY TypedParts
<1>2. CASE l \notin DOMAIN lines[s]
  <2>1. UNCHANGED <<lines, shun>>  BY <1>2 DEF Removed
  <2> SUFFICES ASSUME NEW u \in Users PROVE UserOK(u)'  BY DEF UsersOK
  <2>2. UserOK(u)  BY DEF UsersOK
  <2> QED  BY <2>1, <2>2, Frame
<1>3. CASE l \in DOMAIN lines[s]
  <2>1. shun' = Bumped(s)  BY <1>3 DEF Removed
  <2>2. \A t \in Servers \ {s} : lines'[t] = lines[t]  BY <1>1, RemovedType
  <2>3. DOMAIN lines'[s] = DOMAIN lines[s] \ {l}  BY <1>1, RemovedType
  <2>4. \/ \A k \in DOMAIN lines[s] : k[1] = "E" => k \in DOMAIN lines'[s]
        \/ Unexempted(s) \subseteq spared'
    BY <2>3
  <2>5. \A u \in Users : st'[u] \in {st[u], "quit"}  OBVIOUS
  <2>6. \A u \in Users : Home[u] = s =>
             \A k \in DOMAIN lines'[s] \ DOMAIN lines[s] :
               st'[u] = "on" /\ k[1] \in Bans /\ HitsNow(k[1], k[2], u) => Excused(u, k)'
    BY <2>3
  <2> QED  BY <2>1, <2>2, <2>4, <2>5, <2>6, ListChanges
<1> QED  BY <1>2, <1>3

LEMMA SetLineUsers ==
    ASSUME Typed, UsersOK, NEW o \in Opers, NEW t \in Types[o], NEW m \in Masks, NEW d \in Durations, SetLine(o, t, m, d)
    PROVE  UsersOK'
<1> DEFINE s == Home[o]
           l == <<t, m>>
           ls == Added(Pruned(lines[s]), l, Expiry(d))
<1>1. ListTypes /\ UserTypes  BY TypedParts
<1>2. l \in Line /\ Expiry(d) \in Nat /\ s \in Servers /\ AddStep(s, l, Expiry(d))  BY SetLineAdds
<1>3. /\ lines' = [lines EXCEPT ![s] = ls] /\ shun' = Bumped(s)
      /\ st' = IF t \in Bans THEN Enforced(s, ls, t, m, o) ELSE st
      /\ spared' = spared \cup (IF t \in Bans /\ HitsNow(t, m, o) THEN {<<o, t, m>>} ELSE {})
            \cup (IF \E k \in Expired(lines[s]) : k[1] = "E" THEN Unexempted(s) ELSE {})
      /\ UNCHANGED <<named, ident>>
  BY DEF SetLine
<1>4. lines'[s] = ls  BY <1>1, <1>2, <1>3 DEF ListTypes
<1> HIDE DEF s, ls
<1>5. /\ \A k \in Servers \ {s} : lines'[k] = lines[k]
      /\ DOMAIN lines'[s] \subseteq DOMAIN lines[s] \cup {l}
      /\ \A k \in DOMAIN lines[s] : k \notin Expired(lines[s]) => k \in DOMAIN lines'[s]
  BY <1>1, <1>2, AddStepType
<1>6. \A u \in Users : st'[u] \in {st[u], "quit"}  BY <1>1, <1>3, EnforcedType
<1>7. ASSUME NEW u \in Users, Home[u] = s, NEW k \in DOMAIN lines'[s] \ DOMAIN lines[s],
             st'[u] = "on", k[1] \in Bans, HitsNow(k[1], k[2], u)
      PROVE  Excused(u, k)'
  <2>1. k = l /\ k[1] = t /\ k[2] = m /\ t \in Bans /\ HitsNow(t, m, u)  BY <1>5, <1>7
  <2>2. st[u] = "on"  BY <1>6, <1>7
  <2>3. CASE u = o
    <3>1. <<u, k[1], k[2]>> \in spared'  BY <1>3, <2>1, <2>3
    <3> QED  BY <3>1 DEF Excused
  <2>4. CASE u # o
    <3>1. st'[u] = Enforced(s, ls, t, m, o)[u]  BY <1>3, <2>1
    <3>2. ~(t = "Z" \/ ~Exempt(ls, u, ident[u], named[u]))
      BY <1>1, <1>7, <2>1, <2>2, <2>4, <3>1, EnforcedType
    <3>3. Exempt(lines'[Home[u]], u, ident'[u], named'[u])  BY <1>3, <1>4, <1>7, <3>2
    <3> QED  BY <2>1, <3>2, <3>3 DEF Excused
  <2> QED  BY <2>3, <2>4
<1>8. \/ \A k \in DOMAIN lines[s] : k[1] = "E" => k \in DOMAIN lines'[s]
      \/ Unexempted(s) \subseteq spared'
  BY <1>3, <1>5
<1>9. spared \subseteq spared' /\ named' = named /\ ident' = ident  BY <1>3
<1>10. \A u \in Users : Home[u] = s =>
             \A k \in DOMAIN lines'[s] \ DOMAIN lines[s] :
               st'[u] = "on" /\ k[1] \in Bans /\ HitsNow(k[1], k[2], u) => Excused(u, k)'
  BY <1>7
<1> QED  BY <1>2, <1>3, <1>5, <1>6, <1>8, <1>9, <1>10, ListChanges

LEMMA RemovalUsers ==
    ASSUME Typed, UsersOK, NEW o \in Opers, NEW m \in Masks,
           (\E t \in Wide : Unwide(o, t, m)) \/ Uneline(o, m) \/ Unkline(o, m)
    PROVE  UsersOK'
<1>1. Home[o] \in Servers  BY Consts
<1>2. ASSUME NEW t \in Wide, Unwide(o, t, m)  PROVE UsersOK'
  <2>1. Removed(Home[o], <<t, m>>) /\ UNCHANGED <<st, named, ident>> /\ spared \subseteq spared'
    BY <1>2 DEF Unwide, conns
  <2>2. <<t, m>>[1] # "E"  BY DEF Wide
  <2> QED  BY <1>1, <2>1, <2>2, RemovedUsers
<1>3. ASSUME Uneline(o, m)  PROVE UsersOK'
  <2>1. /\ Removed(Home[o], <<"E", m>>) /\ UNCHANGED <<st, named, ident>>
        /\ spared \subseteq spared' /\ Unexempted(Home[o]) \subseteq spared'
    BY <1>3 DEF Uneline, conns
  <2> QED  BY <1>1, <2>1, RemovedUsers
<1>4. ASSUME Unkline(o, m)  PROVE UsersOK'
  <2>1. PICK t \in Bans : Removed(Home[o], <<t, m>>)  BY <1>4 DEF Unkline
  <2>2. UNCHANGED <<st, named, ident>> /\ spared \subseteq spared'  BY <1>4 DEF Unkline, conns
  <2>3. <<t, m>>[1] # "E"  BY DEF Bans
  <2> QED  BY <1>1, <2>1, <2>2, <2>3, RemovedUsers
<1> QED  BY <1>2, <1>3, <1>4

LEMMA ConnStepUsers ==
    ASSUME Typed, UsersOK, NEW u \in Users, ConnStep(u)
    PROVE  UsersOK'
<1>1. ListTypes /\ UserTypes  BY TypedParts
<1>2. lines' = lines  BY DEF ConnStep, Leave, Speak, Accept, RdnsResult, Welcome, IdentResult, ChgIdent
<1>3. ASSUME NEW v \in Users \ {u}  PROVE UserOK(v)'
  <2>1. st'[v] = st[v] /\ named'[v] = named[v] /\ ident'[v] = ident[v] /\ shun'[v] = shun[v]
    BY <1>1, <1>3
    DEF ConnStep, Leave, Speak, Accept, RdnsResult, Welcome, IdentResult, ChgIdent, UserTypes, conns
  <2>2. \A x : x[1] = v /\ x \in spared => x \in spared'
    BY <1>3 DEF ConnStep, Leave, Speak, Accept, RdnsResult, Welcome, IdentResult, ChgIdent
  <2> QED  BY <1>2, <2>1, <2>2, Frame DEF UsersOK
<1>4. UserOK(u)  BY DEF UsersOK
<1>5. ASSUME Leave(u)  PROVE UserOK(u)'
  <2>1. st'[u] = "off"  BY <1>1, <1>5 DEF Leave, UserTypes
  <2> QED  BY <2>1, Away
<1>6. ASSUME Speak(u)  PROVE UserOK(u)'
  <2>1. st[u] = "on" /\ UNCHANGED <<st, named, ident, spared>> /\ shun'[u] = ShunAt(u)
    BY <1>1, <1>6 DEF Speak, UserTypes, conns, ShunAt
  <2>2. ShunAt(u)' = ShunAt(u)  BY <1>2, <2>1 DEF ShunAt, HitsNow
  <2>3. Current(u)' /\ Fresh(u)'  BY <2>1, <2>2 DEF Current, Fresh
  <2>4. Unbanned(u)'  BY <1>2, <1>4, <2>1 DEF UserOK, Unbanned, Excused, HitsNow
  <2> QED  BY <2>3, <2>4 DEF UserOK
<1>7. ASSUME Accept(u)  PROVE UserOK(u)'
  <2>1. st'[u] = "conn" /\ shun'[u] = None  BY <1>1, <1>7 DEF Accept, UserTypes
  <2> QED  BY <2>1 DEF UserOK, Unbanned, Current, Fresh
<1>8. ASSUME RdnsResult(u) \/ \E i \in Idents : IdentResult(u, i)  PROVE UserOK(u)'
  <2>1. st'[u] = "conn" /\ st[u] = "conn" /\ shun'[u] = shun[u]  BY <1>1, <1>8 DEF RdnsResult, IdentResult, UserTypes
  <2> QED  BY <1>4, <2>1 DEF UserOK, Unbanned, Current, Fresh
<1>9. ASSUME NEW i \in Idents, ChgIdent(u, i)  PROVE UserOK(u)'
  <2>1. st'[u] = "on" /\ shun'[u] = None  BY <1>1, <1>9 DEF ChgIdent, UserTypes
  <2>2. \A l \in DOMAIN lines[Home[u]] : l[1] \in Bans => <<u, l[1], l[2]>> \in spared'  BY <1>9 DEF ChgIdent
  <2>3. Unbanned(u)'  BY <1>2, <2>2 DEF Unbanned, Excused
  <2> QED  BY <2>1, <2>3 DEF UserOK, Current, Fresh
<1>10. ASSUME Welcome(u)  PROVE UserOK(u)'
  <2>1. /\ st[u] = "conn" /\ UNCHANGED <<named, ident, lines, shun, spared>>
        /\ st'[u] = IF Matches(lines[Home[u]], u, ident[u], named[u]) THEN "quit" ELSE "on"
    BY <1>1, <1>10 DEF Welcome, UserTypes
  <2>2. CASE Matches(lines[Home[u]], u, ident[u], named[u])
    <3>1. st'[u] = "quit"  BY <2>1, <2>2
    <3> QED  BY <3>1, Away
  <2>3. CASE ~Matches(lines[Home[u]], u, ident[u], named[u])
    <3>1. st'[u] = "on" /\ shun'[u] = None  BY <1>4, <2>1, <2>3 DEF UserOK, Fresh
    <3>2. \A l \in DOMAIN lines[Home[u]] : l[1] \in Bans /\ HitsNow(l[1], l[2], u) =>
            l[1] # "Z" /\ Exempt(lines[Home[u]], u, ident[u], named[u])
      BY <2>3 DEF Matches, HitsNow
    <3>3. Unbanned(u)'  BY <2>1, <3>2 DEF Unbanned, Excused, HitsNow
    <3> QED  BY <3>1, <3>3 DEF UserOK, Current, Fresh
  <2> QED  BY <2>2, <2>3
<1>11. UserOK(u)'  BY <1>5, <1>6, <1>7, <1>8, <1>9, <1>10 DEF ConnStep
<1> QED  BY <1>3, <1>11 DEF UsersOK

\* An address hits who has it, whatever the line's type.
LEMMA OwnHits ==
    ASSUME NEW u \in Users, NEW v, NEW t
    PROVE  HitsNow(t, Own[u], v) <=> v \in Addr[Own[u]]
  BY Consts DEF HitsNow, Hits

LEMMA OwnLineSet ==
    ASSUME Typed, UsersOK, NEW u \in Comers, NEW t \in {"K", "Z", "S"}, NEW after, AutoLine(u, t, after),
           \A v \in Users : after[v] \in {st[v], "quit"},
           UNCHANGED <<named, ident>>, spared \subseteq spared',
           \A v \in Users : Home[v] = Home[u] /\ after[v] = "on" /\ t \in Bans /\ v \in Addr[Own[u]] =>
             <<v, t, Own[u]>> \in spared'
    PROVE  UsersOK'
<1> DEFINE s == Home[u]
           m == Own[u]
           ls == Added(lines[s], <<t, m>>, Expiry(AutoFor))
<1>1. ListTypes /\ UserTypes /\ u \in Users /\ s \in Servers /\ lines[s] \in Lists
  BY TypedParts, Consts DEF ListTypes
<1>2. /\ <<t, m>> \in Line /\ Expiry(AutoFor) \in Nat /\ AddStep(s, <<t, m>>, Expiry(AutoFor))
      /\ shun' = Bumped(s) /\ st' = after
  BY OwnLineAdds
<1>3. lines' = [lines EXCEPT ![s] = ls]  BY DEF AutoLine
<1>4. \A k \in Servers \ {s} : lines'[k] = lines[k]  BY <1>1, <1>2, AddStepType
<1>5. DOMAIN lines'[s] = DOMAIN lines[s] \cup {<<t, m>>}
  <2>1. DOMAIN ls = DOMAIN lines[s] \cup {<<t, m>>}  BY AddedDomain
  <2>2. lines'[s] = ls  BY <1>1, <1>3 DEF ListTypes
  <2> QED  BY <2>1, <2>2
<1>6. ASSUME NEW v \in Users, Home[v] = s, NEW k \in DOMAIN lines'[s] \ DOMAIN lines[s],
             st'[v] = "on", k[1] \in Bans, HitsNow(k[1], k[2], v)
      PROVE  Excused(v, k)'
  <2>1. k = <<t, m>> /\ t \in Bans  BY <1>5, <1>6
  <2>2. v \in Addr[m]  BY <1>1, <1>6, <2>1, OwnHits
  <2>3. <<v, t, m>> \in spared'  BY <1>2, <1>6, <2>1, <2>2
  <2> QED  BY <2>1, <2>3 DEF Excused
<1>7. \A k \in DOMAIN lines[s] : k[1] = "E" => k \in DOMAIN lines'[s]  BY <1>5
<1>8. \A v \in Users : st'[v] \in {st[v], "quit"}  BY <1>2
<1>9. \A v \in Users : Home[v] = s =>
        \A k \in DOMAIN lines'[s] \ DOMAIN lines[s] :
          st'[v] = "on" /\ k[1] \in Bans /\ HitsNow(k[1], k[2], v) => Excused(v, k)'
  BY <1>6
<1> HIDE DEF s, m
<1> QED  BY <1>1, <1>2, <1>4, <1>7, <1>8, <1>9, ListChanges

LEMMA OwnLineUsers ==
    ASSUME Typed, UsersOK, NEW u \in Comers, OwnLine(u)
    PROVE  UsersOK'
<1> DEFINE s == Home[u]
           m == Own[u]
<1>1. ListTypes /\ UserTypes /\ u \in Users /\ s \in Servers /\ u \in Addr[m] /\ m \in Masks
  BY TypedParts, Consts
<1>2. CASE ConnectFlood(u)
  <2>1. /\ AutoLine(u, "Z", st) /\ UNCHANGED <<named, ident>>
        /\ spared' = spared \cup {<<v, "Z", m>> : v \in {w \in Local(s) : st[w] = "on"}}
    BY <1>2 DEF ConnectFlood
  <2>2. \A v \in Users : Home[v] = s /\ st[v] = "on" => <<v, "Z", m>> \in spared'  BY <2>1 DEF Local
  <2> HIDE DEF s, m
  <2> QED  BY <2>1, <2>2, OwnLineSet DEF s, m
<1>3. ASSUME NEW t \in {"K", "Z"}, Listed(u, t)  PROVE UsersOK'
  <2> DEFINE hit == Enforced(s, lines[s], "Z", m, u)
             after == [hit EXCEPT ![u] = "quit"]
  <2>1. AutoLine(u, t, after) /\ UNCHANGED <<named, ident, spared>>  BY <1>3 DEF Listed
  <2>2. /\ hit \in [Users -> {"off", "conn", "on", "quit"}]
        /\ \A v \in Users : hit[v] \in {st[v], "quit"}
        /\ \A v \in Users : Home[v] = s /\ st[v] = "on" /\ v # u /\ HitsNow("Z", m, v) => hit[v] = "quit"
    BY <1>1, EnforcedType
  <2> HIDE DEF hit
  <2>3. after[u] = "quit" /\ \A v \in Users \ {u} : after[v] = hit[v]  BY <1>1, <2>2
  <2> HIDE DEF after
  <2>4. \A v \in Users : after[v] \in {st[v], "quit"}  BY <2>2, <2>3
  <2>5. \A v \in Users : Home[v] = s /\ v \in Addr[m] => after[v] # "on"
    BY <1>1, <2>2, <2>3, OwnHits
  <2>6. \A v \in Users : Home[v] = Home[u] /\ after[v] = "on" /\ t \in Bans /\ v \in Addr[Own[u]] =>
          <<v, t, Own[u]>> \in spared'
    BY <2>5
  <2> QED  BY <2>1, <2>4, <2>6, OwnLineSet
<1>4. CASE SpamZline(u)
  <2> DEFINE Hit(v) == Home[v] = Home[u] /\ v \in Addr[Own[u]] /\ st[v] \in {"conn", "on"} /\ v \notin Opers
             after == [v \in Users |-> IF Hit(v) THEN "quit" ELSE st[v]]
  <2>1. /\ AutoLine(u, "Z", after) /\ UNCHANGED <<named, ident>>
        /\ spared' = spared \cup {<<v, "Z", m>> : v \in Opers \cap Local(s) \cap Addr[m]}
    BY <1>4 DEF SpamZline
  <2>2. \A v \in Users : after[v] \in {st[v], "quit"} /\ (after[v] = "on" => st[v] = "on" /\ ~Hit(v))
    OBVIOUS
  <2>3. ASSUME NEW v \in Users, Home[v] = Home[u], after[v] = "on", v \in Addr[Own[u]]
        PROVE  <<v, "Z", Own[u]>> \in spared'
    <3>1. v \in Opers  BY <2>2, <2>3
    <3>2. v \in Opers \cap Local(s) \cap Addr[m]  BY <2>3, <3>1 DEF Local
    <3> QED  BY <2>1, <3>2
  <2>4. spared \subseteq spared'  BY <2>1
  <2> HIDE DEF after, Hit
  <2> QED  BY <2>1, <2>2, <2>3, <2>4, OwnLineSet
<1>5. CASE SpamShun(u)
  <2>1. AutoLine(u, "S", st) /\ UNCHANGED <<named, ident, spared>>  BY <1>5 DEF SpamShun
  <2>2. "S" \notin Bans  BY DEF Bans
  <2> QED  BY <2>1, <2>2, OwnLineSet
<1> QED  BY <1>2, <1>3, <1>4, <1>5 DEF OwnLine

LEMMA ReceiveUsers ==
    ASSUME Typed, UsersOK, NEW s \in Servers, Receive(s)
    PROVE  UsersOK'
<1> DEFINE x == Head(wire[s])
<1>1. ListTypes /\ UserTypes  BY TypedParts
<1>2. /\ x.line \in Wide \X Masks /\ x.line \in Line /\ x.exp \in Nat
      /\ \/ UNCHANGED <<lines, shun, st>>
         \/ /\ AddStep(s, x.line, x.exp) /\ shun' = Bumped(s) /\ DOMAIN lines[s] \subseteq DOMAIN lines'[s]
            /\ st' = IF x.line[1] = "G" THEN Enforced(s, lines'[s], "G", x.line[2], None) ELSE st
         \/ Removed(s, x.line) /\ UNCHANGED st
      /\ UNCHANGED <<named, ident, spared>>
  BY ReceiveCases
<1> HIDE DEF x
<1>3. CASE UNCHANGED <<lines, shun, st>>
  <2>1. \A u \in Users : UserOK(u)  BY DEF UsersOK
  <2> QED  BY <1>2, <1>3, <2>1, Frame DEF UsersOK
<1>4. CASE Removed(s, x.line) /\ UNCHANGED st
  <2>1. x.line[1] # "E"  BY <1>2 DEF Wide
  <2> QED  BY <1>2, <1>4, <2>1, RemovedUsers
<1>5. CASE /\ AddStep(s, x.line, x.exp) /\ shun' = Bumped(s) /\ DOMAIN lines[s] \subseteq DOMAIN lines'[s]
           /\ st' = IF x.line[1] = "G" THEN Enforced(s, lines'[s], "G", x.line[2], None) ELSE st
  <2>1. /\ \A k \in Servers \ {s} : lines'[k] = lines[k]
        /\ DOMAIN lines'[s] \subseteq DOMAIN lines[s] \cup {x.line}
    BY <1>1, <1>2, <1>5, AddStepType
  <2>2. \A u \in Users : st'[u] \in {st[u], "quit"}  BY <1>1, <1>5, EnforcedType
  <2>4. ASSUME NEW u \in Users, Home[u] = s, NEW k \in DOMAIN lines'[s] \ DOMAIN lines[s],
               st'[u] = "on", k[1] \in Bans, HitsNow(k[1], k[2], u)
        PROVE  Excused(u, k)'
    <3>1. k = x.line  BY <2>1, <2>4
    <3>2. k[1] = "G" /\ st'[u] = Enforced(s, lines'[s], "G", k[2], None)[u]
      BY <1>2, <1>5, <2>4, <3>1 DEF Wide, Bans
    <3>3. st[u] = "on"  BY <2>2, <2>4
    <3>4. u # None  BY BanTypes
    <3>5. Exempt(lines'[s], u, ident[u], named[u])
      BY <1>1, <2>4, <3>2, <3>3, <3>4, EnforcedType
    <3> QED  BY <1>2, <2>4, <3>2, <3>5 DEF Excused
  <2>5. \A k \in DOMAIN lines[s] : k[1] = "E" => k \in DOMAIN lines'[s]
    BY <1>5
  <2>6. \A u \in Users : Home[u] = s =>
        \A k \in DOMAIN lines'[s] \ DOMAIN lines[s] :
          st'[u] = "on" /\ k[1] \in Bans /\ HitsNow(k[1], k[2], u) => Excused(u, k)'
    BY <2>4
  <2> QED  BY <1>2, <1>5, <2>1, <2>2, <2>5, <2>6, ListChanges
<1> QED  BY <1>2, <1>3, <1>4, <1>5

LEMMA NetUsers ==
    ASSUME Typed, UsersOK, LinkUp \/ Split \/ Tick \/ UNCHANGED vars \/ \E s \in Servers : Prune(s)
    PROVE  UsersOK'
<1>1. ListTypes /\ UserTypes /\ \A u \in Users : UserOK(u)  BY TypedParts DEF UsersOK
<1>2. CASE LinkUp \/ Split \/ Tick \/ UNCHANGED vars
  <2>1. UNCHANGED <<st, named, ident, shun, lines, spared>>
    BY <1>2 DEF LinkUp, Split, Tick, vars, conns
  <2> QED  BY <1>1, <2>1, Frame DEF UsersOK
<1>3. ASSUME NEW s \in Servers, Prune(s)  PROVE UsersOK'
  <2>1. /\ shun' = Bumped(s) /\ UNCHANGED <<st, named, ident>>
        /\ spared' = IF \E l \in Expired(lines[s]) : l[1] = "E" THEN spared \cup Unexempted(s) ELSE spared
    BY <1>3 DEF Prune, conns
  <2>2. /\ \A t \in Servers \ {s} : lines'[t] = lines[t]
        /\ DOMAIN lines'[s] = DOMAIN lines[s] \ Expired(lines[s])
    BY <1>1, <1>3, PruneType
  <2>3. \/ \A k \in DOMAIN lines[s] : k[1] = "E" => k \in DOMAIN lines'[s]
        \/ Unexempted(s) \subseteq spared'
    BY <2>1, <2>2
  <2>4. \A u \in Users : st'[u] \in {st[u], "quit"}  BY <2>1
  <2>5. \A u \in Users : Home[u] = s =>
        \A k \in DOMAIN lines'[s] \ DOMAIN lines[s] :
          st'[u] = "on" /\ k[1] \in Bans /\ HitsNow(k[1], k[2], u) => Excused(u, k)'
    BY <2>2
  <2>6. spared \subseteq spared'  BY <2>1
  <2> QED  BY <2>1, <2>2, <2>3, <2>4, <2>5, <2>6, ListChanges
<1> QED  BY <1>2, <1>3

LEMMA InitUsers == ASSUME Init PROVE UsersOK
<1>1. \A u \in Users : lines[Home[u]] = << >> /\ shun[u] = None  BY Consts DEF Init
<1>2. DOMAIN << >> = {}  OBVIOUS
<1> QED  BY <1>1, <1>2 DEF UsersOK, UserOK, Unbanned, Current, Fresh

LEMMA UsersStep == Typed /\ UsersOK /\ [Next]_vars => UsersOK'
  BY NextGroups, SetLineUsers, RemovalUsers, ConnStepUsers, OwnLineUsers, ReceiveUsers, NetUsers

\* Nobody stays registered under a ban of its server that was not excused, whichever of line, name,
\* ident and registration came last, and the SHUN verdict that is kept is the one server_is_shunned
\* would give now.
THEOREM LinesBiteHolds == Spec => []LinesBite
<1>1. Typed /\ UsersOK => LinesBite  BY UsersOKParts DEF LinesBite, Typed
<1>2. Init => UsersOK  BY InitUsers
<1> QED  BY <1>1, <1>2, TypeCorrect, UsersStep, PTL DEF Spec

(***************************************************************************)
(* Agreement.  Of one line: a and b are the lists of two linked servers,   *)
(* wa and wb what is on its way to each, n the time.  What a has and what  *)
(* lasts, b will have for as long when all on its way has arrived, unless  *)
(* a removal is on its way to a; what is on its way to a, b still has,     *)
(* unless its removal follows; and a line is not removed on one side while *)
(* it is set on the other, for that is what torn excepts.                  *)
(***************************************************************************)
LastsAt(e, n) == e = 0 \/ e > n
Is(x, l, kind) == x.kind = kind /\ x.line = l
Has(w, l, kind) == \E i \in 1..Len(w) : Is(w[i], l, kind)
StaysAfter(w, i, l) == \A j \in 1..Len(w) : j > i => ~Is(w[j], l, "un")
Will(b, w, l, e) ==
    \/ l \in DOMAIN b /\ Covers(b[l], e) /\ ~Has(w, l, "un")
    \/ \E i \in 1..Len(w) : Is(w[i], l, "add") /\ Covers(w[i].exp, e) /\ StaysAfter(w, i, l)
Told(a, wa, b, wb, l, n) ==
    l \in DOMAIN a /\ LastsAt(a[l], n) => Has(wa, l, "un") \/ Will(b, wb, l, a[l])
Backed(wa, b, l, n) ==
    \A i \in 1..Len(wa) : Is(wa[i], l, "add") /\ LastsAt(wa[i].exp, n) /\ StaysAfter(wa, i, l) =>
      l \in DOMAIN b /\ Covers(b[l], wa[i].exp)
Apart(wa, wb, l) == ~(Has(wa, l, "add") /\ Has(wb, l, "un"))
Dir(a, wa, b, wb, l, n) == Told(a, wa, b, wb, l, n) /\ Backed(wa, b, l, n) /\ Apart(wa, wb, l)
Both(a, wa, b, wb, l, n) == Dir(a, wa, b, wb, l, n) /\ Dir(b, wb, a, wa, l, n)

\* What is kept is kept with a time that covers the one before.
Keeps(b, c, l, n) == l \in DOMAIN b /\ LastsAt(b[l], n) => l \in DOMAIN c /\ Covers(c[l], b[l])

LEMMA CoversLasts ==
    ASSUME NEW a \in Nat, NEW b \in Nat, NEW n \in Nat, Covers(a, b), LastsAt(b, n)
    PROVE  LastsAt(a, n)
  BY DEF Covers, LastsAt

LEMMA CoversTrans ==
    ASSUME NEW a \in Nat, NEW b \in Nat, NEW c \in Nat, Covers(a, b), Covers(b, c)
    PROVE  Covers(a, c)
  BY DEF Covers

\* The other side loses nothing that lasts.
LEMMA WillKept ==
    ASSUME NEW b \in Lists, NEW c \in Lists, NEW w, NEW l, NEW e \in Nat, NEW n \in Nat,
           Keeps(b, c, l, n), LastsAt(e, n), Will(b, w, l, e)
    PROVE  Will(c, w, l, e)
<1>1. CASE l \in DOMAIN b /\ Covers(b[l], e) /\ ~Has(w, l, "un")
  <2>1. b[l] \in Nat  BY <1>1, ListForm
  <2>2. LastsAt(b[l], n)  BY <1>1, <2>1, CoversLasts
  <2>3. l \in DOMAIN c /\ Covers(c[l], b[l])  BY <1>1, <2>2 DEF Keeps
  <2>4. c[l] \in Nat  BY <2>3, ListForm
  <2>5. Covers(c[l], e)  BY <1>1, <2>1, <2>3, <2>4, CoversTrans
  <2> QED  BY <1>1, <2>3, <2>5 DEF Will
<1>2. CASE \E i \in 1..Len(w) : Is(w[i], l, "add") /\ Covers(w[i].exp, e) /\ StaysAfter(w, i, l)
  BY <1>2 DEF Will
<1> QED  BY <1>1, <1>2 DEF Will

LEMMA BackedKept ==
    ASSUME NEW b \in Lists, NEW c \in Lists, NEW w \in Seq(Message), NEW l, NEW n \in Nat,
           Keeps(b, c, l, n), Backed(w, b, l, n)
    PROVE  Backed(w, c, l, n)
<1> SUFFICES ASSUME NEW i \in 1..Len(w), Is(w[i], l, "add"), LastsAt(w[i].exp, n), StaysAfter(w, i, l)
             PROVE  l \in DOMAIN c /\ Covers(c[l], w[i].exp)
  BY DEF Backed
<1>1. l \in DOMAIN b /\ Covers(b[l], w[i].exp)  BY DEF Backed
<1>2. b[l] \in Nat /\ w[i].exp \in Nat
  <2>1. w[i] \in Message  OBVIOUS
  <2> QED  BY <1>1, <2>1, ListForm DEF Message
<1>3. LastsAt(b[l], n)  BY <1>1, <1>2, CoversLasts
<1>4. l \in DOMAIN c /\ Covers(c[l], b[l])  BY <1>1, <1>3 DEF Keeps
<1>5. c[l] \in Nat  BY <1>4, ListForm
<1> QED  BY <1>1, <1>2, <1>4, <1>5, CoversTrans

\* Time passes; one side loses what has expired, and nothing else of this line changes.
LEMMA Fades ==
    ASSUME NEW a \in Lists, NEW c \in Lists, NEW b \in Lists, NEW wa \in Seq(Message), NEW wb \in Seq(Message),
           NEW l, NEW n \in Nat, NEW k \in Nat, n <= k,
           l \in DOMAIN c => l \in DOMAIN a /\ c[l] = a[l],
           l \in DOMAIN a /\ LastsAt(a[l], k) => l \in DOMAIN c,
           Both(a, wa, b, wb, l, n)
    PROVE  Both(c, wa, b, wb, l, k)
<1>1. \A e \in Nat : LastsAt(e, k) => LastsAt(e, n)  BY DEF LastsAt
<1>2. l \in DOMAIN a => a[l] \in Nat  BY ListForm
<1>3. l \in DOMAIN b => b[l] \in Nat  BY ListForm
<1>4. Keeps(a, c, l, k)  BY <1>2, CoversOrder DEF Keeps
<1>5. \A i \in 1..Len(wa) : wa[i].exp \in Nat
  <2>1. \A i \in 1..Len(wa) : wa[i] \in Message  OBVIOUS
  <2> QED  BY <2>1 DEF Message
<1>6. \A i \in 1..Len(wb) : wb[i].exp \in Nat
  <2>1. \A i \in 1..Len(wb) : wb[i] \in Message  OBVIOUS
  <2> QED  BY <2>1 DEF Message
<1>7. Told(c, wa, b, wb, l, k)  BY <1>1, <1>2 DEF Both, Dir, Told
<1>8. Backed(wa, b, l, k)  BY <1>1, <1>5 DEF Both, Dir, Backed
<1>9. Told(b, wb, c, wa, l, k)
  <2> SUFFICES ASSUME l \in DOMAIN b, LastsAt(b[l], k), ~Has(wb, l, "un")
               PROVE  Will(c, wa, l, b[l])
    BY DEF Told
  <2>1. Will(a, wa, l, b[l])  BY <1>1, <1>3 DEF Both, Dir, Told
  <2> QED  BY <1>3, <1>4, <2>1, WillKept
<1>10. Backed(wb, a, l, k)  BY <1>1, <1>6 DEF Both, Dir, Backed
<1>11. Backed(wb, c, l, k)  BY <1>4, <1>10, BackedKept
<1> QED  BY <1>7, <1>8, <1>9, <1>11 DEF Both, Dir

\* A message behind the others.
LEMMA Appended ==
    ASSUME NEW w \in Seq(Message), NEW x \in Message, NEW l
    PROVE  /\ Append(w, x) \in Seq(Message) /\ Len(Append(w, x)) = Len(w) + 1
           /\ \A i \in 1..Len(w) : Append(w, x)[i] = w[i]
           /\ Append(w, x)[Len(w) + 1] = x
           /\ \A kind : Has(Append(w, x), l, kind) <=> Has(w, l, kind) \/ Is(x, l, kind)
           /\ \A i \in 1..Len(w) : StaysAfter(Append(w, x), i, l) <=> StaysAfter(w, i, l) /\ ~Is(x, l, "un")
           /\ StaysAfter(Append(w, x), Len(w) + 1, l)
<1> DEFINE v == Append(w, x)
<1>1. /\ v \in Seq(Message) /\ Len(v) = Len(w) + 1
      /\ \A i \in 1..Len(w) : v[i] = w[i]
      /\ v[Len(w) + 1] = x
  BY AppendProperties
<1>2. Len(w) \in Nat  OBVIOUS
<1> HIDE DEF v
<1>3. 1..Len(v) = (1..Len(w)) \cup {Len(w) + 1}  BY <1>1, <1>2
<1>4. \A kind : Has(v, l, kind) <=> Has(w, l, kind) \/ Is(x, l, kind)
  BY <1>1, <1>3 DEF Has
<1>5. \A i \in 1..Len(w) : StaysAfter(v, i, l) <=> StaysAfter(w, i, l) /\ ~Is(x, l, "un")
  <2> TAKE i \in 1..Len(w)
  <2>1. Len(w) + 1 > i  BY <1>2
  <2>2. StaysAfter(v, i, l) => StaysAfter(w, i, l) /\ ~Is(x, l, "un")
    BY <1>1, <1>3, <2>1 DEF StaysAfter
  <2>3. StaysAfter(w, i, l) /\ ~Is(x, l, "un") => StaysAfter(v, i, l)
    BY <1>1, <1>3 DEF StaysAfter
  <2> QED  BY <2>2, <2>3
<1>6. StaysAfter(v, Len(w) + 1, l)  BY <1>2, <1>3 DEF StaysAfter
<1> QED  BY <1>1, <1>4, <1>5, <1>6 DEF v

\* The first message is taken.
LEMMA Taken ==
    ASSUME NEW w \in Seq(Message), w # << >>, NEW l
    PROVE  /\ Tail(w) \in Seq(Message) /\ Len(Tail(w)) = Len(w) - 1 /\ Len(w) \in Nat \ {0}
           /\ \A i \in 1..Len(Tail(w)) : Tail(w)[i] = w[i + 1] /\ i + 1 \in 1..Len(w)
           /\ Head(w) = w[1] /\ 1 \in 1..Len(w)
           /\ \A i \in 1..Len(w) : i # 1 => i - 1 \in 1..Len(Tail(w)) /\ w[i] = Tail(w)[i - 1]
           /\ \A kind : Has(w, l, kind) <=> Is(Head(w), l, kind) \/ Has(Tail(w), l, kind)
           /\ \A i \in 1..Len(Tail(w)) : StaysAfter(w, i + 1, l) <=> StaysAfter(Tail(w), i, l)
           /\ StaysAfter(w, 1, l) <=> ~Has(Tail(w), l, "un")
<1> DEFINE v == Tail(w)
<1>1. /\ v \in Seq(Message) /\ Len(v) = Len(w) - 1 /\ Len(w) \in Nat \ {0}
      /\ \A i \in 1..Len(v) : v[i] = w[i + 1]
      /\ Head(w) = w[1]
  BY HeadTailProperties
<1> HIDE DEF v
<1>2. 1 \in 1..Len(w) /\ \A i \in 1..Len(v) : i + 1 \in 1..Len(w) /\ v[i] = w[i + 1]  BY <1>1
<1>3. \A i \in 1..Len(w) : i # 1 => i - 1 \in 1..Len(v) /\ w[i] = v[i - 1]
  <2> TAKE i \in 1..Len(w)
  <2> HAVE i # 1
  <2>1. i - 1 \in 1..Len(v) /\ (i - 1) + 1 = i  BY <1>1
  <2> QED  BY <1>2, <2>1
<1>4. \A kind : Has(w, l, kind) <=> Is(Head(w), l, kind) \/ Has(v, l, kind)
  <2> TAKE kind
  <2>1. Has(w, l, kind) => Is(Head(w), l, kind) \/ Has(v, l, kind)  BY <1>1, <1>3 DEF Has
  <2>2. Is(Head(w), l, kind) \/ Has(v, l, kind) => Has(w, l, kind)  BY <1>1, <1>2 DEF Has
  <2> QED  BY <2>1, <2>2
<1>5. \A i \in 1..Len(v) : StaysAfter(w, i + 1, l) <=> StaysAfter(v, i, l)
  <2> TAKE i \in 1..Len(v)
  <2>1. ASSUME StaysAfter(w, i + 1, l), NEW j \in 1..Len(v), j > i  PROVE ~Is(v[j], l, "un")
    <3>1. j + 1 \in 1..Len(w) /\ j + 1 > i + 1 /\ v[j] = w[j + 1]  BY <1>2, <2>1
    <3> QED  BY <2>1, <3>1 DEF StaysAfter
  <2>2. ASSUME StaysAfter(v, i, l), NEW j \in 1..Len(w), j > i + 1  PROVE ~Is(w[j], l, "un")
    <3>1. j - 1 \in 1..Len(v) /\ j - 1 > i /\ w[j] = v[j - 1]  BY <1>3, <2>2
    <3> QED  BY <2>2, <3>1 DEF StaysAfter
  <2> QED  BY <2>1, <2>2 DEF StaysAfter
<1>6. StaysAfter(w, 1, l) <=> ~Has(v, l, "un")
  <2>1. ASSUME StaysAfter(w, 1, l), NEW j \in 1..Len(v)  PROVE ~Is(v[j], l, "un")
    <3>1. j + 1 \in 1..Len(w) /\ j + 1 > 1 /\ v[j] = w[j + 1]  BY <1>2
    <3> QED  BY <2>1, <3>1 DEF StaysAfter
  <2>2. ASSUME ~Has(v, l, "un"), NEW j \in 1..Len(w), j > 1  PROVE ~Is(w[j], l, "un")
    <3>1. j - 1 \in 1..Len(v) /\ w[j] = v[j - 1]  BY <1>3, <2>2
    <3> QED  BY <2>2, <3>1 DEF Has
  <2> QED  BY <2>1, <2>2 DEF StaysAfter, Has
<1> QED  BY <1>1, <1>2, <1>3, <1>4, <1>5, <1>6 DEF v

\* What comes is not undone by a message that is no removal, and what is backed stays so.
LEMMA WillAppended ==
    ASSUME NEW b, NEW w \in Seq(Message), NEW x \in Message, NEW l, NEW e, ~Is(x, l, "un"), Will(b, w, l, e)
    PROVE  Will(b, Append(w, x), l, e)
<1>1. CASE l \in DOMAIN b /\ Covers(b[l], e) /\ ~Has(w, l, "un")
  BY <1>1, Appended DEF Will
<1>2. ASSUME NEW i \in 1..Len(w), Is(w[i], l, "add"), Covers(w[i].exp, e), StaysAfter(w, i, l)
      PROVE  Will(b, Append(w, x), l, e)
  <2>1. i \in 1..Len(Append(w, x)) /\ Append(w, x)[i] = w[i] /\ StaysAfter(Append(w, x), i, l)
    BY <1>2, Appended
  <2> QED  BY <1>2, <2>1 DEF Will
<1> QED  BY <1>1, <1>2 DEF Will

LEMMA BackedAppended ==
    ASSUME NEW b, NEW w \in Seq(Message), NEW x \in Message, NEW l, NEW n, Backed(w, b, l, n),
           Is(x, l, "add") => l \in DOMAIN b /\ Covers(b[l], x.exp)
    PROVE  Backed(Append(w, x), b, l, n)
<1> SUFFICES ASSUME NEW i \in 1..Len(Append(w, x)), Is(Append(w, x)[i], l, "add"),
                    LastsAt(Append(w, x)[i].exp, n), StaysAfter(Append(w, x), i, l)
             PROVE  l \in DOMAIN b /\ Covers(b[l], Append(w, x)[i].exp)
  BY DEF Backed
<1>1. i \in 1..Len(w) \/ i = Len(w) + 1  BY Appended
<1>2. CASE i \in 1..Len(w)
  <2>1. Append(w, x)[i] = w[i] /\ StaysAfter(w, i, l)  BY <1>2, Appended
  <2> QED  BY <1>2, <2>1 DEF Backed
<1>3. CASE i = Len(w) + 1
  <2>1. Append(w, x)[i] = x  BY <1>3, Appended
  <2> QED  BY <2>1
<1> QED  BY <1>1, <1>2, <1>3

LEMMA BackedTaken ==
    ASSUME NEW b, NEW w \in Seq(Message), w # << >>, NEW l, NEW n, Backed(w, b, l, n)
    PROVE  Backed(Tail(w), b, l, n)
<1> SUFFICES ASSUME NEW i \in 1..Len(Tail(w)), Is(Tail(w)[i], l, "add"),
                    LastsAt(Tail(w)[i].exp, n), StaysAfter(Tail(w), i, l)
             PROVE  l \in DOMAIN b /\ Covers(b[l], Tail(w)[i].exp)
  BY DEF Backed
<1>1. i + 1 \in 1..Len(w) /\ Tail(w)[i] = w[i + 1] /\ StaysAfter(w, i + 1, l)  BY Taken
<1> QED  BY <1>1 DEF Backed

\* What was to come still is, in the list or behind the first message, unless the first message was it.
LEMMA WillTaken ==
    ASSUME NEW b, NEW w \in Seq(Message), w # << >>, NEW l, NEW e, Will(b, w, l, e)
    PROVE  \/ l \in DOMAIN b /\ Covers(b[l], e) /\ ~Has(w, l, "un")
           \/ Is(Head(w), l, "add") /\ Covers(Head(w).exp, e) /\ ~Has(Tail(w), l, "un")
           \/ \A c : Will(c, Tail(w), l, e)
<1>1. ASSUME NEW i \in 1..Len(w), Is(w[i], l, "add"), Covers(w[i].exp, e), StaysAfter(w, i, l)
      PROVE  \/ Is(Head(w), l, "add") /\ Covers(Head(w).exp, e) /\ ~Has(Tail(w), l, "un")
             \/ \A c : Will(c, Tail(w), l, e)
  <2>1. CASE i = 1
    <3>1. w[i] = Head(w) /\ ~Has(Tail(w), l, "un")  BY <1>1, <2>1, Taken
    <3> QED  BY <1>1, <3>1
  <2>2. CASE i # 1
    <3>1. i - 1 \in 1..Len(Tail(w)) /\ w[i] = Tail(w)[i - 1] /\ (i - 1) + 1 = i  BY <2>2, Taken
    <3>2. StaysAfter(w, (i - 1) + 1, l) <=> StaysAfter(Tail(w), i - 1, l)  BY <3>1, Taken
    <3>3. StaysAfter(Tail(w), i - 1, l)  BY <1>1, <3>1, <3>2
    <3> QED  BY <1>1, <3>1, <3>3 DEF Will
  <2> QED  BY <2>1, <2>2
<1> QED  BY <1>1 DEF Will

\* A message about another line.
LEMMA OtherSent ==
    ASSUME NEW a, NEW b, NEW wa, NEW wb \in Seq(Message), NEW x \in Message, NEW l, NEW n, x.line # l,
           Both(a, wa, b, wb, l, n)
    PROVE  Both(a, wa, b, Append(wb, x), l, n)
<1>1. \A kind : ~Is(x, l, kind)  BY DEF Is
<1>2. \A kind : Has(Append(wb, x), l, kind) <=> Has(wb, l, kind)  BY <1>1, Appended
<1>3. Told(a, wa, b, Append(wb, x), l, n)  BY <1>1, WillAppended DEF Both, Dir, Told
<1>4. Told(b, Append(wb, x), a, wa, l, n)  BY <1>2 DEF Both, Dir, Told
<1>5. Backed(Append(wb, x), a, l, n)  BY <1>1, BackedAppended DEF Both, Dir
<1>6. Backed(wa, b, l, n) /\ Apart(wa, Append(wb, x), l) /\ Apart(Append(wb, x), wa, l)
  BY <1>2 DEF Both, Dir, Apart
<1> QED  BY <1>3, <1>4, <1>5, <1>6 DEF Both, Dir

LEMMA OtherTaken ==
    ASSUME NEW a, NEW b, NEW wa \in Seq(Message), wa # << >>, NEW wb, NEW l, NEW n, Head(wa).line # l,
           Both(a, wa, b, wb, l, n)
    PROVE  Both(a, Tail(wa), b, wb, l, n)
<1>1. \A kind : ~Is(Head(wa), l, kind)  BY DEF Is
<1>2. \A kind : Has(Tail(wa), l, kind) <=> Has(wa, l, kind)  BY <1>1, Taken
<1>3. Told(a, Tail(wa), b, wb, l, n)  BY <1>2 DEF Both, Dir, Told
<1>4. Told(b, wb, a, Tail(wa), l, n)
  <2> SUFFICES ASSUME l \in DOMAIN b, LastsAt(b[l], n), ~Has(wb, l, "un")
               PROVE  Will(a, Tail(wa), l, b[l])
    BY DEF Told
  <2>1. Will(a, wa, l, b[l])  BY DEF Both, Dir, Told
  <2> QED  BY <1>1, <1>2, <2>1, WillTaken DEF Will
<1>5. Backed(Tail(wa), b, l, n)  BY BackedTaken DEF Both, Dir
<1>6. Backed(wb, a, l, n) /\ Apart(Tail(wa), wb, l) /\ Apart(wb, Tail(wa), l)
  BY <1>2 DEF Both, Dir, Apart
<1> QED  BY <1>3, <1>4, <1>5, <1>6 DEF Both, Dir

\* One side sets the line and tells the other; no removal is coming the other way.
LEMMA LineSent ==
    ASSUME NEW a \in Lists, NEW c \in Lists, NEW b \in Lists, NEW wa, NEW wb \in Seq(Message), NEW l, NEW n \in Nat,
           NEW x \in Message, Is(x, l, "add"), ~Has(wa, l, "un"),
           Keeps(a, c, l, n), l \in DOMAIN c, Covers(c[l], x.exp),
           c[l] # x.exp => l \in DOMAIN a /\ c[l] = a[l],
           Both(a, wa, b, wb, l, n)
    PROVE  Both(c, wa, b, Append(wb, x), l, n)
<1>1. ~Is(x, l, "un") /\ x.exp \in Nat  BY DEF Is, Message
<1>2. Has(Append(wb, x), l, "un") <=> Has(wb, l, "un")  BY <1>1, Appended
<1>3. Told(c, wa, b, Append(wb, x), l, n)
  <2> SUFFICES ASSUME LastsAt(c[l], n) PROVE Will(b, Append(wb, x), l, c[l])  BY DEF Told
  <2>1. CASE c[l] = x.exp
    <3>1. /\ Len(Append(wb, x)) = Len(wb) + 1
          /\ Append(wb, x)[Len(wb) + 1] = x /\ StaysAfter(Append(wb, x), Len(wb) + 1, l)
      BY Appended
    <3>2. Len(Append(wb, x)) \in 1..Len(Append(wb, x))  BY <3>1
    <3>3. Covers(x.exp, c[l])  BY <1>1, <2>1, CoversOrder
    <3> QED  BY <3>1, <3>2, <3>3 DEF Will
  <2>2. CASE c[l] # x.exp
    <3>1. Will(b, wb, l, c[l])  BY <2>2 DEF Both, Dir, Told
    <3> QED  BY <1>1, <3>1, WillAppended
  <2> QED  BY <2>1, <2>2
<1>4. Told(b, Append(wb, x), c, wa, l, n)
  <2> SUFFICES ASSUME l \in DOMAIN b, LastsAt(b[l], n), ~Has(wb, l, "un")
               PROVE  Will(c, wa, l, b[l])
    BY <1>2 DEF Told
  <2>1. Will(a, wa, l, b[l])  BY DEF Both, Dir, Told
  <2>2. CASE l \in DOMAIN a /\ Covers(a[l], b[l]) /\ ~Has(wa, l, "un")
    <3>1. a[l] \in Nat /\ b[l] \in Nat /\ c[l] \in Nat  BY <2>2, ListForm
    <3>2. LastsAt(a[l], n)  BY <2>2, <3>1, CoversLasts
    <3>3. Covers(c[l], a[l])  BY <2>2, <3>2 DEF Keeps
    <3>4. Covers(c[l], b[l])  BY <2>2, <3>1, <3>3, CoversTrans
    <3> QED  BY <2>2, <3>4 DEF Will
  <2> QED  BY <2>1, <2>2 DEF Will
<1>5. Backed(Append(wb, x), c, l, n)
  <2>1. Backed(wb, c, l, n)  BY BackedKept DEF Both, Dir
  <2> QED  BY <2>1, BackedAppended
<1>6. Backed(wa, b, l, n) /\ Apart(wa, Append(wb, x), l) /\ Apart(Append(wb, x), wa, l)
  BY <1>2 DEF Both, Dir, Apart
<1> QED  BY <1>3, <1>4, <1>5, <1>6 DEF Both, Dir

\* One side removes the line and tells the other; no setting is coming the other way.
LEMMA RemovalSent ==
    ASSUME NEW a, NEW c, NEW b, NEW wa, NEW wb \in Seq(Message), NEW l, NEW n,
           NEW x \in Message, Is(x, l, "un"), ~Has(wa, l, "add"), l \notin DOMAIN c,
           Both(a, wa, b, wb, l, n)
    PROVE  Both(c, wa, b, Append(wb, x), l, n)
<1>1. ~Is(x, l, "add")  BY DEF Is
<1>2. /\ Has(Append(wb, x), l, "un")
      /\ Has(Append(wb, x), l, "add") <=> Has(wb, l, "add")
  BY <1>1, Appended
<1>3. Told(c, wa, b, Append(wb, x), l, n) /\ Told(b, Append(wb, x), c, wa, l, n)  BY <1>2 DEF Told
<1>4. ASSUME NEW i \in 1..Len(Append(wb, x)), Is(Append(wb, x)[i], l, "add"), StaysAfter(Append(wb, x), i, l)
      PROVE  FALSE
  <2>1. i \in 1..Len(wb) \/ i = Len(wb) + 1  BY Appended
  <2>2. CASE i \in 1..Len(wb)  BY <1>4, <2>2, Appended
  <2>3. CASE i = Len(wb) + 1  BY <1>1, <1>4, <2>3, Appended
  <2> QED  BY <2>1, <2>2, <2>3
<1>5. Backed(Append(wb, x), c, l, n)  BY <1>4 DEF Backed
<1>6. Backed(wa, b, l, n) /\ Apart(wa, Append(wb, x), l) /\ Apart(Append(wb, x), wa, l)
  BY <1>2 DEF Both, Dir, Apart
<1> QED  BY <1>3, <1>5, <1>6 DEF Both, Dir

\* A setting that has expired on the way is dropped.
LEMMA DroppedTaken ==
    ASSUME NEW a, NEW b \in Lists, NEW wa \in Seq(Message), wa # << >>, NEW wb, NEW l, NEW n \in Nat,
           Is(Head(wa), l, "add"), ~LastsAt(Head(wa).exp, n), Head(wa).exp \in Nat,
           Both(a, wa, b, wb, l, n)
    PROVE  Both(a, Tail(wa), b, wb, l, n)
<1>1. ~Is(Head(wa), l, "un")  BY DEF Is
<1>2. /\ Has(Tail(wa), l, "un") <=> Has(wa, l, "un")
      /\ Has(Tail(wa), l, "add") => Has(wa, l, "add")
  BY <1>1, Taken
<1>3. Told(a, Tail(wa), b, wb, l, n)  BY <1>2 DEF Both, Dir, Told
<1>4. Told(b, wb, a, Tail(wa), l, n)
  <2> SUFFICES ASSUME l \in DOMAIN b, LastsAt(b[l], n), ~Has(wb, l, "un")
               PROVE  Will(a, Tail(wa), l, b[l])
    BY DEF Told
  <2>1. Will(a, wa, l, b[l])  BY DEF Both, Dir, Told
  <2>2. b[l] \in Nat  BY ListForm
  <2>3. ~Covers(Head(wa).exp, b[l])  BY <2>2, CoversLasts
  <2> QED  BY <1>2, <2>1, <2>3, WillTaken DEF Will
<1>5. Backed(Tail(wa), b, l, n)  BY BackedTaken DEF Both, Dir
<1>6. Backed(wb, a, l, n) /\ Apart(Tail(wa), wb, l) /\ Apart(wb, Tail(wa), l)
  BY <1>2 DEF Both, Dir, Apart
<1> QED  BY <1>3, <1>4, <1>5, <1>6 DEF Both, Dir

\* handle_gline: a setting that lasts is added.
LEMMA LineTaken ==
    ASSUME NEW a \in Lists, NEW c \in Lists, NEW b \in Lists, NEW wa \in Seq(Message), wa # << >>,
           NEW wb \in Seq(Message), NEW l, NEW n \in Nat,
           NEW x, x = Head(wa), Is(x, l, "add"), LastsAt(x.exp, n), x.exp \in Nat,
           Keeps(a, c, l, n), l \in DOMAIN c, Covers(c[l], x.exp),
           c[l] # x.exp => l \in DOMAIN a /\ c[l] = a[l],
           Both(a, wa, b, wb, l, n)
    PROVE  Both(c, Tail(wa), b, wb, l, n)
<1>1. ~Is(x, l, "un")  BY DEF Is
<1>2. /\ Has(Tail(wa), l, "un") <=> Has(wa, l, "un")
      /\ Has(wa, l, "add")
      /\ Has(Tail(wa), l, "add") => Has(wa, l, "add")
  BY <1>1, Taken
<1>3. Told(c, Tail(wa), b, wb, l, n)
  <2> SUFFICES ASSUME LastsAt(c[l], n), ~Has(Tail(wa), l, "un") PROVE Will(b, wb, l, c[l])  BY DEF Told
  <2>1. CASE c[l] = x.exp
    <3>1. x = wa[1] /\ 1 \in 1..Len(wa) /\ StaysAfter(wa, 1, l)  BY Taken
    <3>2. l \in DOMAIN b /\ Covers(b[l], x.exp)  BY <3>1 DEF Both, Dir, Backed
    <3>3. ~Has(wb, l, "un")  BY <1>2 DEF Both, Dir, Apart
    <3> QED  BY <2>1, <3>2, <3>3 DEF Will
  <2>2. CASE c[l] # x.exp  BY <1>2, <2>2 DEF Both, Dir, Told
  <2> QED  BY <2>1, <2>2
<1>4. Told(b, wb, c, Tail(wa), l, n)
  <2> SUFFICES ASSUME l \in DOMAIN b, LastsAt(b[l], n), ~Has(wb, l, "un")
               PROVE  Will(c, Tail(wa), l, b[l])
    BY DEF Told
  <2>1. Will(a, wa, l, b[l])  BY DEF Both, Dir, Told
  <2>2. b[l] \in Nat /\ c[l] \in Nat  BY ListForm
  <2>3. CASE l \in DOMAIN a /\ Covers(a[l], b[l]) /\ ~Has(wa, l, "un")
    <3>1. a[l] \in Nat  BY <2>3, ListForm
    <3>2. LastsAt(a[l], n)  BY <2>2, <2>3, <3>1, CoversLasts
    <3>3. Covers(c[l], a[l])  BY <2>3, <3>2 DEF Keeps
    <3>4. Covers(c[l], b[l])  BY <2>2, <2>3, <3>1, <3>3, CoversTrans
    <3> QED  BY <1>2, <2>3, <3>4 DEF Will
  <2>4. CASE Covers(x.exp, b[l]) /\ ~Has(Tail(wa), l, "un")
    <3>1. Covers(c[l], b[l])  BY <2>2, <2>4, CoversTrans
    <3> QED  BY <2>4, <3>1 DEF Will
  <2> QED  BY <2>1, <2>3, <2>4, WillTaken
<1>5. Backed(Tail(wa), b, l, n)  BY BackedTaken DEF Both, Dir
<1>6. Backed(wb, c, l, n)  BY BackedKept DEF Both, Dir
<1>7. Apart(Tail(wa), wb, l) /\ Apart(wb, Tail(wa), l)  BY <1>2 DEF Both, Dir, Apart
<1> QED  BY <1>3, <1>4, <1>5, <1>6, <1>7 DEF Both, Dir

\* handle_ungline: the line is removed.
LEMMA RemovalTaken ==
    ASSUME NEW a, NEW c, NEW b, NEW wa \in Seq(Message), wa # << >>, NEW wb, NEW l, NEW n,
           Is(Head(wa), l, "un"), l \notin DOMAIN c,
           Both(a, wa, b, wb, l, n)
    PROVE  Both(c, Tail(wa), b, wb, l, n)
<1>1. ~Is(Head(wa), l, "add")  BY DEF Is
<1>2. /\ Has(wa, l, "un")
      /\ Has(Tail(wa), l, "un") => Has(wa, l, "un")
      /\ Has(Tail(wa), l, "add") => Has(wa, l, "add")
  BY <1>1, Taken
<1>3. Told(c, Tail(wa), b, wb, l, n)  BY DEF Told
<1>4. Told(b, wb, c, Tail(wa), l, n)
  <2> SUFFICES ASSUME l \in DOMAIN b, LastsAt(b[l], n), ~Has(wb, l, "un")
               PROVE  Will(c, Tail(wa), l, b[l])
    BY DEF Told
  <2>1. Will(a, wa, l, b[l])  BY DEF Both, Dir, Told
  <2> QED  BY <1>1, <1>2, <2>1, WillTaken
<1>5. Backed(Tail(wa), b, l, n)  BY BackedTaken DEF Both, Dir
<1>6. ~Has(wb, l, "add")  BY <1>2 DEF Both, Dir, Apart
<1>7. Backed(wb, c, l, n)  BY <1>6 DEF Backed, Has
<1>8. Apart(Tail(wa), wb, l) /\ Apart(wb, Tail(wa), l)  BY <1>2 DEF Both, Dir, Apart
<1> QED  BY <1>3, <1>4, <1>5, <1>7, <1>8 DEF Both, Dir

\* netsync_burst on both sides: everything network-wide that the other side has, and nothing else.
From(w, a) ==
    /\ \A k \in 1..Len(w) : w[k].kind = "add" /\ w[k].line \in DOMAIN a /\ w[k].exp = a[w[k].line]
    /\ \A l \in DOMAIN a : l[1] \in Wide => \E k \in 1..Len(w) : w[k] = [kind |-> "add", line |-> l, exp |-> a[l]]

LEMMA BurstTells ==
    ASSUME NEW a \in Lists, NEW b, NEW wa, NEW wb, NEW l \in Wide \X Masks, NEW n \in Nat, From(wb, a), From(wa, b)
    PROVE  Told(a, wa, b, wb, l, n) /\ Backed(wb, a, l, n) /\ Apart(wa, wb, l)
<1>1. (\A k : ~Has(wa, k, "un")) /\ (\A k : ~Has(wb, k, "un"))  BY DEF From, Has, Is
<1>2. \A i \in 1..Len(wb) : StaysAfter(wb, i, l)  BY <1>1 DEF StaysAfter, Has
<1>3. ASSUME l \in DOMAIN a  PROVE Will(b, wb, l, a[l])
  <2>1. l[1] \in Wide  OBVIOUS
  <2>2. PICK k \in 1..Len(wb) : wb[k] = [kind |-> "add", line |-> l, exp |-> a[l]]  BY <1>3, <2>1 DEF From
  <2>3. Is(wb[k], l, "add") /\ wb[k].exp = a[l]  BY <2>2 DEF Is
  <2>4. Covers(wb[k].exp, a[l])  BY <1>3, <2>3, ListForm, CoversOrder
  <2> QED  BY <1>2, <2>3, <2>4 DEF Will
<1>4. \A i \in 1..Len(wb) : Is(wb[i], l, "add") => l \in DOMAIN a /\ Covers(a[l], wb[i].exp)
  <2> SUFFICES ASSUME NEW i \in 1..Len(wb), Is(wb[i], l, "add")
               PROVE  l \in DOMAIN a /\ Covers(a[l], wb[i].exp)
    OBVIOUS
  <2>1. l \in DOMAIN a /\ wb[i].exp = a[l]  BY DEF From, Is
  <2>2. a[l] \in Nat  BY <2>1, ListForm
  <2> QED  BY <2>1, <2>2, CoversOrder
<1>5. Backed(wb, a, l, n)  BY <1>4 DEF Backed
<1>6. Told(a, wa, b, wb, l, n)  BY <1>3 DEF Told
<1> QED  BY <1>1, <1>5, <1>6 DEF Apart

(***************************************************************************)
(* The same of the two servers, for every network-wide line that was not   *)
(* torn.                                                                   *)
(***************************************************************************)
AgreeAt(s, l) == Both(lines[s], wire[s], lines[Other(s)], wire[Other(s)], l, now)
Agreeing == up => \A s \in Servers : \A l \in (Wide \X Masks) \ torn : AgreeAt(s, l)

LEMMA BothSides ==
    ASSUME NEW s \in Servers, NEW l
    PROVE  AgreeAt(s, l) => AgreeAt(Other(s), l)
<1>1. Other(Other(s)) = s  BY Pair
<1> QED  BY <1>1 DEF AgreeAt, Both

\* It is enough to look at the server that acts, and at the lines that are still whole.
LEMMA OneSide ==
    ASSUME NEW s \in Servers, Agreeing, torn \subseteq torn', up' => up,
           \A l \in (Wide \X Masks) \ torn' : AgreeAt(s, l) => AgreeAt(s, l)'
    PROVE  Agreeing'
<1>1. SUFFICES ASSUME up', NEW t \in Servers, NEW l \in (Wide \X Masks) \ torn'  PROVE AgreeAt(t, l)'
  BY DEF Agreeing
<1>2. AgreeAt(s, l)  BY <1>1 DEF Agreeing
<1>3. AgreeAt(s, l)'  BY <1>2
<1>4. AgreeAt(Other(s), l)'
  <2>1. Other(Other(s)) = s  BY Pair
  <2> QED  BY <1>3, <2>1 DEF AgreeAt, Both
<1>5. t = s \/ t = Other(s)  BY Pair
<1> QED  BY <1>3, <1>4, <1>5

\* What is not expired lasts.
LEMMA LastingKept ==
    ASSUME ListTypes, NEW s \in Servers, NEW l \in DOMAIN lines[s]
    PROVE  LastsAt(lines[s][l], now) <=> l \notin Expired(lines[s])
<1>1. lines[s][l] \in Nat /\ now \in Nat  BY ListForm DEF ListTypes
<1> QED  BY <1>1 DEF LastsAt, Expired

\* A line of which nothing but what has expired is taken away.
LEMMA LineFades ==
    ASSUME ListTypes, ListTypes', NEW s \in Servers, NEW l, now <= now', UNCHANGED wire,
           \A t \in Servers \ {s} : lines'[t] = lines[t],
           l \in DOMAIN lines'[s] => l \in DOMAIN lines[s] /\ lines'[s][l] = lines[s][l],
           l \in DOMAIN lines[s] /\ LastsAt(lines[s][l], now') => l \in DOMAIN lines'[s],
           AgreeAt(s, l)
    PROVE  AgreeAt(s, l)'
<1>1. Other(s) \in Servers \ {s}  BY Pair
<1>2. /\ lines[s] \in Lists /\ lines'[s] \in Lists /\ lines[Other(s)] \in Lists
      /\ wire[s] \in Seq(Message) /\ wire[Other(s)] \in Seq(Message)
      /\ now \in Nat /\ now' \in Nat /\ lines'[Other(s)] = lines[Other(s)]
  BY <1>1 DEF ListTypes
<1>3. Both(lines'[s], wire[s], lines[Other(s)], wire[Other(s)], l, now')
  BY <1>2, Fades DEF AgreeAt
<1> QED  BY <1>2, <1>3 DEF AgreeAt

\* server_kline_add of another line, after what has expired was pruned or not.
LEMMA OtherAdded ==
    ASSUME ListTypes, ListTypes', NEW s \in Servers, NEW k \in Line, NEW e \in Nat, AddStep(s, k, e), NEW l, l # k,
           AgreeAt(s, l)
    PROVE  Both(lines'[s], wire[s], lines[Other(s)], wire[Other(s)], l, now)
<1>1. Other(s) \in Servers \ {s}  BY Pair
<1>2. /\ lines[s] \in Lists /\ lines'[s] \in Lists /\ lines[Other(s)] \in Lists
      /\ wire[s] \in Seq(Message) /\ wire[Other(s)] \in Seq(Message) /\ now \in Nat
  BY <1>1 DEF ListTypes
<1>3. /\ DOMAIN lines'[s] \subseteq DOMAIN lines[s] \cup {k}
      /\ \A j \in DOMAIN lines[s] : j \notin Expired(lines[s]) => j \in DOMAIN lines'[s]
      /\ \A j \in DOMAIN lines'[s] \ {k} : lines'[s][j] = lines[s][j]
  BY AddStepType
<1>4. l \in DOMAIN lines'[s] => l \in DOMAIN lines[s] /\ lines'[s][l] = lines[s][l]  BY <1>3
<1>5. l \in DOMAIN lines[s] /\ LastsAt(lines[s][l], now) => l \in DOMAIN lines'[s]  BY <1>3, LastingKept
<1>6. now <= now  BY <1>2
<1> QED  BY <1>2, <1>4, <1>5, <1>6, Fades DEF AgreeAt

\* What server_kline_add does to its line.
LEMMA AddedKeeps ==
    ASSUME ListTypes, NEW s \in Servers, NEW l \in Line, NEW e \in Nat, AddStep(s, l, e)
    PROVE  /\ Keeps(lines[s], lines'[s], l, now) /\ l \in DOMAIN lines'[s] /\ Covers(lines'[s][l], e)
           /\ lines'[s][l] # e => l \in DOMAIN lines[s] /\ lines'[s][l] = lines[s][l]
<1>1. /\ l \in DOMAIN lines'[s] /\ Covers(lines'[s][l], e)
      /\ \A k \in DOMAIN lines[s] : k \notin Expired(lines[s]) =>
           k \in DOMAIN lines'[s] /\ Covers(lines'[s][k], lines[s][k])
      /\ lines'[s][l] # e => l \in DOMAIN lines[s] /\ lines'[s][l] = lines[s][l]
  BY AddStepType
<1>2. Keeps(lines[s], lines'[s], l, now)  BY <1>1, LastingKept DEF Keeps
<1> QED  BY <1>1, <1>2

\* A network-wide line is set and told to the other server.
LEMMA AddSent ==
    ASSUME ListTypes, ListTypes', up, NEW s \in Servers, NEW x \in Message, x.kind = "add", x.line \in Line,
           AddStep(s, x.line, x.exp), Send(s, x), now' = now,
           NEW l, l \notin {x.line} \/ ~InFlight(s, l, "un"), AgreeAt(s, l)
    PROVE  AgreeAt(s, l)'
<1>1. Other(s) \in Servers \ {s}  BY Pair
<1>2. /\ lines[s] \in Lists /\ lines'[s] \in Lists /\ lines[Other(s)] \in Lists
      /\ wire[s] \in Seq(Message) /\ wire[Other(s)] \in Seq(Message) /\ now \in Nat /\ x.exp \in Nat
  BY <1>1 DEF ListTypes, Message
<1>3. wire'[s] = wire[s] /\ wire'[Other(s)] = Append(wire[Other(s)], x)  BY SendType
<1>4. lines'[Other(s)] = lines[Other(s)]  BY <1>1, <1>2, AddStepType
<1>5. CASE l # x.line
  <2>1. Both(lines'[s], wire[s], lines[Other(s)], wire[Other(s)], l, now)  BY <1>2, <1>5, OtherAdded
  <2>2. Both(lines'[s], wire[s], lines[Other(s)], Append(wire[Other(s)], x), l, now)
    BY <1>2, <1>5, <2>1, OtherSent
  <2> QED  BY <1>3, <1>4, <2>2 DEF AgreeAt
<1>6. CASE l = x.line
  <2>1. ~Has(wire[s], l, "un")  BY <1>2, <1>6 DEF InFlight, Has, Is
  <2>2. /\ Keeps(lines[s], lines'[s], l, now) /\ l \in DOMAIN lines'[s] /\ Covers(lines'[s][l], x.exp)
        /\ lines'[s][l] # x.exp => l \in DOMAIN lines[s] /\ lines'[s][l] = lines[s][l]
    BY <1>2, <1>6, AddedKeeps
  <2>3. Is(x, l, "add")  BY <1>6 DEF Is
  <2>4. Both(lines'[s], wire[s], lines[Other(s)], Append(wire[Other(s)], x), l, now)
    BY <1>2, <2>1, <2>2, <2>3, LineSent DEF AgreeAt
  <2> QED  BY <1>3, <1>4, <2>4 DEF AgreeAt
<1> QED  BY <1>5, <1>6

\* A line of this server only is set.
LEMMA AddKept ==
    ASSUME ListTypes, ListTypes', NEW s \in Servers, NEW k \in Line, k[1] \notin Wide, NEW e \in Nat,
           AddStep(s, k, e), UNCHANGED <<wire, now>>, NEW l \in Wide \X Masks, AgreeAt(s, l)
    PROVE  AgreeAt(s, l)'
<1>1. l # k  OBVIOUS
<1>2. Both(lines'[s], wire[s], lines[Other(s)], wire[Other(s)], l, now)  BY <1>1, OtherAdded
<1>3. lines'[Other(s)] = lines[Other(s)]  BY Pair, AddStepType
<1> QED  BY <1>2, <1>3 DEF AgreeAt

LEMMA SetLineAgrees ==
    ASSUME Typed, Typed', Agreeing, NEW o \in Opers, NEW t \in Types[o], NEW m \in Masks, NEW d \in Durations,
           SetLine(o, t, m, d)
    PROVE  Agreeing'
<1> DEFINE s == Home[o]
           x == [kind |-> "add", line |-> <<t, m>>, exp |-> Expiry(d)]
<1>1. ListTypes /\ ListTypes'  BY TypedParts, PTL
<1>2. <<t, m>> \in Line /\ Expiry(d) \in Nat /\ s \in Servers /\ AddStep(s, <<t, m>>, Expiry(d))  BY SetLineAdds
<1>3. /\ IF t \in Wide THEN Send(s, x) /\ torn' = torn \cup TornByAdd(s, <<t, m>>) ELSE UNCHANGED <<wire, torn>>
      /\ UNCHANGED <<up, now>>
  BY DEF SetLine
<1> HIDE DEF s
<1>4. torn \subseteq torn' /\ (up' => up)  BY <1>3
<1>5. ASSUME up, NEW l \in (Wide \X Masks) \ torn', AgreeAt(s, l)  PROVE AgreeAt(s, l)'
  <2>1. CASE t \in Wide
    <3>1. <<t, m>> \in Wide \X Masks  BY <2>1
    <3>2. x \in Message /\ x.kind = "add" /\ x.line = <<t, m>> /\ x.exp = Expiry(d)
      BY <1>2, <3>1, MadeMessage
    <3>3. l # <<t, m>> \/ ~InFlight(s, l, "un")  BY <1>3, <1>5, <2>1 DEF TornByAdd
    <3>4. Send(s, x) /\ now' = now  BY <1>3, <2>1
    <3> HIDE DEF x
    <3> QED  BY <1>1, <1>2, <1>5, <3>2, <3>3, <3>4, AddSent
  <2>2. CASE t \notin Wide
    <3>1. <<t, m>>[1] \notin Wide  BY <2>2
    <3> QED  BY <1>1, <1>2, <1>3, <1>5, <2>2, <3>1, AddKept
  <2> QED  BY <2>1, <2>2
<1>6. CASE up  BY <1>2, <1>4, <1>5, <1>6, OneSide
<1>7. CASE ~up  BY <1>3, <1>7 DEF Agreeing
<1> QED  BY <1>6, <1>7

LEMMA OwnLineAgrees ==
    ASSUME Typed, Typed', Agreeing, NEW u \in Comers, OwnLine(u)
    PROVE  Agreeing'
<1> DEFINE s == Home[u]
           x == [kind |-> "add", line |-> <<"S", Own[u]>>, exp |-> Expiry(AutoFor)]
<1>1. ListTypes /\ ListTypes' /\ Own[u] \in Masks
  <2>1. ListTypes /\ ListTypes'  BY TypedParts, PTL
  <2> QED  BY <2>1, Consts
<1>2. ASSUME NEW t \in {"K", "Z"}, NEW after, AutoLine(u, t, after), UNCHANGED <<net, now, torn>>
      PROVE  Agreeing'
  <2>1. <<t, Own[u]>> \in Line /\ Expiry(AutoFor) \in Nat /\ s \in Servers /\ AddStep(s, <<t, Own[u]>>, Expiry(AutoFor))
    BY <1>2, OwnLineAdds
  <2>2. <<t, Own[u]>>[1] \notin Wide  BY DEF Wide
  <2>3. UNCHANGED <<wire, now>> /\ torn' = torn /\ up' = up  BY <1>2 DEF net
  <2> HIDE DEF s
  <2>4. \A l \in (Wide \X Masks) \ torn' : AgreeAt(s, l) => AgreeAt(s, l)'
    BY <1>1, <2>1, <2>2, <2>3, AddKept
  <2> QED  BY <2>1, <2>3, <2>4, OneSide
<1>3. ASSUME SpamShun(u)  PROVE Agreeing'
  <2>1. /\ AutoLine(u, "S", st) /\ Send(s, x) /\ torn' = torn \cup TornByAdd(s, <<"S", Own[u]>>)
        /\ UNCHANGED <<up, now>>
    BY <1>3 DEF SpamShun
  <2>2. /\ <<"S", Own[u]>> \in Line /\ Expiry(AutoFor) \in Nat /\ s \in Servers
        /\ AddStep(s, <<"S", Own[u]>>, Expiry(AutoFor))
    BY <2>1, OwnLineAdds
  <2>3. x \in Message /\ x.kind = "add" /\ x.line = <<"S", Own[u]>> /\ x.exp = Expiry(AutoFor)
    BY <1>1, <2>2, MadeMessage DEF Wide
  <2> HIDE DEF s, x
  <2>4. ASSUME up, NEW l \in (Wide \X Masks) \ torn', AgreeAt(s, l)  PROVE AgreeAt(s, l)'
    <3>1. l # <<"S", Own[u]>> \/ ~InFlight(s, l, "un")  BY <2>1, <2>4 DEF TornByAdd
    <3> QED  BY <1>1, <2>1, <2>2, <2>3, <2>4, <3>1, AddSent
  <2>5. CASE up  BY <2>1, <2>2, <2>4, <2>5, OneSide
  <2>6. CASE ~up  BY <2>1, <2>6 DEF Agreeing
  <2> QED  BY <2>5, <2>6
<1> QED  BY <1>2, <1>3 DEF OwnLine, ConnectFlood, SpamZline, Listed

\* A line is taken away on one server, whose removal is or is not told.
LEMMA RemovalAgrees ==
    ASSUME Typed, Typed', Agreeing, NEW o \in Opers, NEW m \in Masks,
           (\E t \in Wide : Unwide(o, t, m)) \/ Uneline(o, m) \/ Unkline(o, m)
    PROVE  Agreeing'
<1> DEFINE s == Home[o]
<1>1. ListTypes /\ ListTypes' /\ s \in Servers /\ Other(s) \in Servers \ {s}
  <2>1. ListTypes /\ ListTypes'  BY TypedParts, PTL
  <2> QED  BY <2>1, Consts, Pair
<1>2. /\ lines[s] \in Lists /\ lines'[s] \in Lists /\ lines[Other(s)] \in Lists
      /\ wire[s] \in Seq(Message) /\ wire[Other(s)] \in Seq(Message) /\ now \in Nat
  BY <1>1 DEF ListTypes
<1>3. ASSUME NEW k, Removed(s, k)
      PROVE  /\ \A j \in Servers \ {s} : lines'[j] = lines[j]
             /\ DOMAIN lines'[s] = DOMAIN lines[s] \ {k}
             /\ \A j \in DOMAIN lines'[s] : lines'[s][j] = lines[s][j]
  BY <1>1, <1>3, RemovedType
<1> HIDE DEF s
<1>4. ASSUME NEW k, Removed(s, k), UNCHANGED <<wire, up, now>>, torn \subseteq torn', k[1] \notin Wide \/ k \in torn'
      PROVE  Agreeing'
  <2>1. \A l \in (Wide \X Masks) \ torn' : l # k  BY <1>4
  <2>2. ASSUME NEW l \in (Wide \X Masks) \ torn', AgreeAt(s, l)  PROVE AgreeAt(s, l)'
    <3>1. l \in DOMAIN lines'[s] <=> l \in DOMAIN lines[s]  BY <1>3, <1>4, <2>1
    <3>2. l \in DOMAIN lines'[s] => lines'[s][l] = lines[s][l]  BY <1>3, <1>4
    <3>3. \A j \in Servers \ {s} : lines'[j] = lines[j]  BY <1>3, <1>4
    <3> QED  BY <1>1, <1>2, <1>4, <2>2, <3>1, <3>2, <3>3, LineFades
  <2> QED  BY <1>1, <1>4, <2>2, OneSide
<1>5. ASSUME NEW t \in Wide, Unwide(o, t, m)  PROVE Agreeing'
  <2> DEFINE x == [kind |-> "un", line |-> <<t, m>>, exp |-> 0]
  <2>1. /\ Removed(s, <<t, m>>) /\ Send(s, x) /\ torn' = torn \cup TornByRemoval(s, <<t, m>>)
        /\ UNCHANGED <<up, now>>
    BY <1>5 DEF Unwide, s
  <2>2. x \in Message /\ x.kind = "un" /\ x.line = <<t, m>>  BY MadeMessage
  <2> HIDE DEF x
  <2>3. CASE ~up  BY <2>1, <2>3 DEF Agreeing
  <2>4. CASE up
    <3>1. wire'[s] = wire[s] /\ wire'[Other(s)] = Append(wire[Other(s)], x)  BY <1>1, <2>1, <2>2, <2>4, SendType
    <3>2. lines'[Other(s)] = lines[Other(s)] /\ DOMAIN lines'[s] = DOMAIN lines[s] \ {<<t, m>>}  BY <1>1, <1>3, <2>1
    <3>3. ASSUME NEW l \in (Wide \X Masks) \ torn', AgreeAt(s, l)  PROVE AgreeAt(s, l)'
      <4>1. CASE l = <<t, m>>
        <5>1. ~Has(wire[s], l, "add")  BY <1>2, <2>1, <2>4, <3>3, <4>1 DEF TornByRemoval, InFlight, Has, Is
        <5>2. Is(x, l, "un") /\ l \notin DOMAIN lines'[s]  BY <2>2, <3>2, <4>1 DEF Is
        <5>3. Both(lines'[s], wire[s], lines[Other(s)], Append(wire[Other(s)], x), l, now)
          BY <1>2, <2>2, <3>3, <5>1, <5>2, RemovalSent DEF AgreeAt
        <5> QED  BY <2>1, <3>1, <3>2, <5>3 DEF AgreeAt
      <4>2. CASE l # <<t, m>>
        <5>1. l \in DOMAIN lines'[s] <=> l \in DOMAIN lines[s]  BY <3>2, <4>2
        <5>2. l \in DOMAIN lines'[s] => lines'[s][l] = lines[s][l]  BY <1>3, <2>1
        <5>3. now <= now  BY <1>2
        <5>4. Both(lines'[s], wire[s], lines[Other(s)], wire[Other(s)], l, now)
          BY <1>2, <3>3, <5>1, <5>2, <5>3, Fades DEF AgreeAt
        <5>5. Both(lines'[s], wire[s], lines[Other(s)], Append(wire[Other(s)], x), l, now)
          BY <1>2, <2>2, <4>2, <5>4, OtherSent
        <5> QED  BY <2>1, <3>1, <3>2, <5>5 DEF AgreeAt
      <4> QED  BY <4>1, <4>2
    <3>4. torn \subseteq torn' /\ (up' => up)  BY <2>1
    <3> QED  BY <1>1, <3>3, <3>4, OneSide
  <2> QED  BY <2>3, <2>4
<1>6. ASSUME Uneline(o, m)  PROVE Agreeing'
  <2>1. Removed(s, <<"E", m>>) /\ UNCHANGED <<wire, up, now>> /\ torn' = torn  BY <1>6 DEF Uneline, s, net
  <2>2. <<"E", m>>[1] \notin Wide  BY DEF Wide
  <2> QED  BY <1>4, <2>1, <2>2
<1>7. ASSUME Unkline(o, m)  PROVE Agreeing'
  <2>1. PICK t \in Bans :
          /\ Removed(s, <<t, m>>) /\ torn' = IF t = "G" THEN torn \cup {<<t, m>>} ELSE torn
          /\ UNCHANGED <<net, now>>
    BY <1>7 DEF Unkline, s
  <2>2. UNCHANGED <<wire, up, now>> /\ torn \subseteq torn'  BY <2>1 DEF net
  <2>3. <<t, m>>[1] \notin Wide \/ <<t, m>> \in torn'  BY <2>1 DEF Bans, Wide
  <2> QED  BY <1>4, <2>1, <2>2, <2>3
<1> QED  BY <1>5, <1>6, <1>7

LEMMA ReceiveAgrees ==
    ASSUME Typed, Typed', Agreeing, NEW s \in Servers, Receive(s)
    PROVE  Agreeing'
<1> DEFINE x == Head(wire[s])
<1>1. ListTypes /\ ListTypes'  BY TypedParts, PTL
<1>2. /\ up /\ wire[s] # << >> /\ wire' = [wire EXCEPT ![s] = Tail(@)]
      /\ x.line \in Line /\ x.exp \in Nat
      /\ \/ Dropped(x) /\ UNCHANGED lines
         \/ x.kind = "add" /\ ~Dropped(x) /\ AddStep(s, x.line, x.exp)
         \/ x.kind = "un" /\ Removed(s, x.line)
      /\ UNCHANGED <<up, now, torn>>
  BY ReceiveCases
<1>3. Other(s) \in Servers \ {s}  BY Pair
<1>4. /\ lines[s] \in Lists /\ lines'[s] \in Lists /\ lines[Other(s)] \in Lists
      /\ wire[s] \in Seq(Message) /\ wire[Other(s)] \in Seq(Message) /\ now \in Nat
  BY <1>1, <1>3 DEF ListTypes
<1>5. wire'[s] = Tail(wire[s]) /\ wire'[Other(s)] = wire[Other(s)]  BY <1>1, <1>2, <1>3 DEF ListTypes
<1>6. lines'[Other(s)] = lines[Other(s)]
  <2>1. CASE UNCHANGED lines  BY <2>1
  <2>2. CASE AddStep(s, x.line, x.exp)  BY <1>1, <1>2, <1>3, <2>2, AddStepType
  <2>3. CASE Removed(s, x.line)  BY <1>1, <1>3, <2>3, RemovedType
  <2> QED  BY <1>2, <2>1, <2>2, <2>3
<1> SUFFICES ASSUME NEW l \in (Wide \X Masks) \ torn', AgreeAt(s, l)
             PROVE  Both(lines'[s], Tail(wire[s]), lines[Other(s)], wire[Other(s)], l, now)
  <2>1. torn \subseteq torn' /\ (up' => up)  BY <1>2
  <2>2. ASSUME NEW l \in (Wide \X Masks) \ torn',
               Both(lines'[s], Tail(wire[s]), lines[Other(s)], wire[Other(s)], l, now)
        PROVE  AgreeAt(s, l)'
    BY <1>2, <1>5, <1>6, <2>2 DEF AgreeAt
  <2> QED  BY <2>1, <2>2, OneSide
<1>7. Both(lines[s], wire[s], lines[Other(s)], wire[Other(s)], l, now)  BY DEF AgreeAt
<1> HIDE DEF x
<1>8. x = Head(wire[s])  BY DEF x
<1>9. CASE x.line # l
  <2>1. Both(lines'[s], wire[s], lines[Other(s)], wire[Other(s)], l, now)
    <3>1. CASE UNCHANGED lines  BY <1>7, <3>1
    <3>2. CASE AddStep(s, x.line, x.exp)  BY <1>1, <1>2, <1>9, <3>2, OtherAdded
    <3>3. CASE Removed(s, x.line)
      <4>1. /\ DOMAIN lines'[s] = DOMAIN lines[s] \ {x.line}
            /\ \A j \in DOMAIN lines'[s] : lines'[s][j] = lines[s][j]
        BY <1>1, <3>3, RemovedType
      <4>2. l \in DOMAIN lines'[s] <=> l \in DOMAIN lines[s]  BY <1>9, <4>1
      <4>3. l \in DOMAIN lines'[s] => lines'[s][l] = lines[s][l]  BY <4>1
      <4>4. now <= now  BY <1>4
      <4> QED  BY <1>4, <1>7, <4>2, <4>3, <4>4, Fades
    <3> QED  BY <1>2, <3>1, <3>2, <3>3
  <2> QED  BY <1>2, <1>4, <1>8, <1>9, <2>1, OtherTaken
<1>10. CASE x.line = l /\ Dropped(x) /\ UNCHANGED lines
  <2>1. Is(Head(wire[s]), l, "add") /\ ~LastsAt(Head(wire[s]).exp, now) /\ Head(wire[s]).exp \in Nat
    BY <1>2, <1>4, <1>8, <1>10 DEF Dropped, Is, LastsAt
  <2>2. Both(lines[s], Tail(wire[s]), lines[Other(s)], wire[Other(s)], l, now)
    BY <1>2, <1>4, <1>7, <2>1, DroppedTaken
  <2> QED  BY <1>10, <2>2
<1>11. CASE x.line = l /\ x.kind = "add" /\ ~Dropped(x) /\ AddStep(s, x.line, x.exp)
  <2>1. Is(x, l, "add") /\ LastsAt(x.exp, now)  BY <1>2, <1>4, <1>11 DEF Dropped, Is, LastsAt
  <2>2. /\ Keeps(lines[s], lines'[s], l, now) /\ l \in DOMAIN lines'[s] /\ Covers(lines'[s][l], x.exp)
        /\ lines'[s][l] # x.exp => l \in DOMAIN lines[s] /\ lines'[s][l] = lines[s][l]
    BY <1>1, <1>2, <1>11, AddedKeeps
  <2> QED  BY <1>2, <1>4, <1>7, <1>8, <2>1, <2>2, LineTaken
<1>12. CASE x.line = l /\ x.kind = "un" /\ Removed(s, x.line)
  <2>1. l \notin DOMAIN lines'[s]  BY <1>1, <1>12, RemovedType
  <2>2. Is(Head(wire[s]), l, "un")  BY <1>8, <1>12 DEF Is
  <2> QED  BY <1>2, <1>4, <1>7, <2>1, <2>2, RemovalTaken
<1> QED  BY <1>2, <1>9, <1>10, <1>11, <1>12

LEMMA NetAgrees ==
    ASSUME Typed, Typed', Agreeing, LinkUp \/ Split \/ Tick \/ \E s \in Servers : Prune(s)
    PROVE  Agreeing'
<1>1. ListTypes /\ ListTypes'  BY TypedParts, PTL
<1>2. PICK s \in Servers : TRUE  BY BanTypes, FS_EmptySet
<1>3. CASE LinkUp
  <2>1. UNCHANGED <<lines, now>> /\ wire' = [t \in Servers |-> Burst(Other(t))]  BY <1>3 DEF LinkUp
  <2>2. \A t \in Servers : lines[t] \in Lists /\ now \in Nat  BY <1>1 DEF ListTypes
  <2>3. \A t \in Servers : Other(t) \in Servers /\ Other(Other(t)) = t  BY Pair
  <2>4. \A t \in Servers : From(Burst(t), lines[t])  BY BurstAll DEF From
  <2>5. ASSUME NEW t \in Servers, NEW l \in Wide \X Masks  PROVE AgreeAt(t, l)'
    <3>1. From(wire'[t], lines[Other(t)]) /\ From(wire'[Other(t)], lines[t])  BY <2>1, <2>3, <2>4
    <3>2. /\ Told(lines[t], wire'[t], lines[Other(t)], wire'[Other(t)], l, now)
          /\ Backed(wire'[Other(t)], lines[t], l, now) /\ Apart(wire'[t], wire'[Other(t)], l)
      BY <2>2, <3>1, BurstTells
    <3>3. /\ Told(lines[Other(t)], wire'[Other(t)], lines[t], wire'[t], l, now)
          /\ Backed(wire'[t], lines[Other(t)], l, now) /\ Apart(wire'[Other(t)], wire'[t], l)
      BY <2>2, <2>3, <3>1, BurstTells
    <3> QED  BY <2>1, <3>2, <3>3 DEF AgreeAt, Both, Dir
  <2> QED  BY <2>5 DEF Agreeing
<1>4. CASE Split
  <2>1. ~up'  BY <1>4 DEF Split
  <2> QED  BY <2>1 DEF Agreeing
<1>5. CASE Tick
  <2>1. UNCHANGED <<lines, wire, torn, up>> /\ now' = now + 1  BY <1>5 DEF Tick, net
  <2>2. now <= now'  BY <1>1, <2>1 DEF ListTypes
  <2>3. \A l \in (Wide \X Masks) \ torn' : AgreeAt(s, l) => AgreeAt(s, l)'
    BY <1>1, <2>1, <2>2, LineFades
  <2> QED  BY <2>1, <2>3, OneSide
<1>6. ASSUME NEW t \in Servers, Prune(t)  PROVE Agreeing'
  <2>1. UNCHANGED <<wire, torn, up, now>>  BY <1>6 DEF Prune, net
  <2>2. now <= now'  BY <1>1, <2>1 DEF ListTypes
  <2>3. /\ \A j \in Servers \ {t} : lines'[j] = lines[j]
        /\ DOMAIN lines'[t] = DOMAIN lines[t] \ Expired(lines[t])
        /\ \A k \in DOMAIN lines'[t] : lines'[t][k] = lines[t][k]
    BY <1>1, <1>6, PruneType
  <2>4. ASSUME NEW l \in (Wide \X Masks) \ torn', AgreeAt(t, l)  PROVE AgreeAt(t, l)'
    <3>1. l \in DOMAIN lines'[t] => l \in DOMAIN lines[t] /\ lines'[t][l] = lines[t][l]  BY <2>3
    <3>2. l \in DOMAIN lines[t] /\ LastsAt(lines[t][l], now') => l \in DOMAIN lines'[t]
      BY <1>1, <2>1, <2>3, LastingKept
    <3> QED  BY <1>1, <2>1, <2>2, <2>3, <2>4, <3>1, <3>2, LineFades
  <2> QED  BY <2>1, <2>4, OneSide
<1> QED  BY <1>3, <1>4, <1>5, <1>6

LEMMA AgreeingStep == Typed /\ Typed' /\ Agreeing /\ [Next]_vars => Agreeing'
<1> SUFFICES ASSUME Typed, Typed', Agreeing, [Next]_vars  PROVE Agreeing'
  OBVIOUS
<1>1. ASSUME NEW u \in Users, ConnStep(u)  PROVE Agreeing'
  <2>1. UNCHANGED <<lines, wire, up, now, torn>>
    BY <1>1 DEF ConnStep, Leave, Speak, Accept, RdnsResult, Welcome, IdentResult, ChgIdent, net
  <2> QED  BY <2>1 DEF Agreeing, AgreeAt
<1>2. ASSUME UNCHANGED vars  PROVE Agreeing'
  <2>1. UNCHANGED <<lines, wire, up, now, torn>>  BY <1>2 DEF vars, net
  <2> QED  BY <2>1 DEF Agreeing, AgreeAt
<1> QED  BY <1>1, <1>2, NextGroups, SetLineAgrees, RemovalAgrees, OwnLineAgrees, ReceiveAgrees, NetAgrees

LEMMA InitAgrees == Init => Agreeing
<1> SUFFICES ASSUME Init, NEW s \in Servers, NEW l  PROVE AgreeAt(s, l)
  BY DEF Agreeing
<1>1. Other(s) \in Servers  BY Pair
<1>2. \A t \in Servers : lines[t] = << >> /\ wire[t] = << >>  BY DEF Init
<1>3. DOMAIN << >> = {} /\ 1..Len(<< >>) = {}  OBVIOUS
<1> QED  BY <1>1, <1>2, <1>3 DEF AgreeAt, Both, Dir, Told, Backed, Apart, Has

\* Once nothing is on its way, what lasts on one server lasts as long on the other.
LEMMA AgreeingShows == Typed /\ Agreeing => WideAgree
<1> SUFFICES ASSUME Typed, Agreeing, up, \A s \in Servers : wire[s] = << >>,
                    NEW s \in Servers, NEW l \in DOMAIN lines[s], l[1] \in Wide, l \notin torn, l \notin Expired(lines[s])
             PROVE  l \in DOMAIN lines[Other(s)] /\ lines[Other(s)][l] = lines[s][l]
  BY DEF WideAgree
<1>1. ListTypes /\ Other(s) \in Servers  BY TypedParts, Pair
<1>2. lines[s] \in Lists /\ lines[Other(s)] \in Lists /\ now \in Nat  BY <1>1 DEF ListTypes
<1>3. l \in Line /\ lines[s][l] \in Nat  BY <1>2, ListForm
<1>4. l \in (Wide \X Masks) \ torn  BY <1>3 DEF Line
<1>5. Both(lines[s], wire[s], lines[Other(s)], wire[Other(s)], l, now)  BY <1>4 DEF Agreeing, AgreeAt
<1>6. wire[s] = << >> /\ wire[Other(s)] = << >> /\ 1..Len(<< >>) = {}  BY <1>1
<1>7. LastsAt(lines[s][l], now)  BY <1>1, LastingKept
<1>8. l \in DOMAIN lines[Other(s)] /\ Covers(lines[Other(s)][l], lines[s][l])
  BY <1>5, <1>6, <1>7 DEF Both, Dir, Told, Will, Has
<1>9. lines[Other(s)][l] \in Nat  BY <1>2, <1>8, ListForm
<1>10. LastsAt(lines[Other(s)][l], now)  BY <1>2, <1>3, <1>7, <1>8, <1>9, CoversLasts
<1>11. Covers(lines[s][l], lines[Other(s)][l])
  BY <1>5, <1>6, <1>8, <1>10 DEF Both, Dir, Told, Will, Has
<1> QED  BY <1>3, <1>8, <1>9, <1>11, CoversOrder

\* Two linked servers with nothing on its way between them have the same network-wide lines until the
\* same time, but for what was removed while it was set or while they were apart.
THEOREM WideAgreeHolds == Spec => []WideAgree
<1>1. Typed /\ Agreeing => WideAgree  BY AgreeingShows
<1> QED  BY <1>1, InitAgrees, AgreeingStep, TypeCorrect, PTL DEF Spec
=============================================================================
