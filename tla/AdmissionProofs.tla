--------------------------- MODULE AdmissionProofs ---------------------------
(***************************************************************************)
(* Proofs about Admission, for any addresses, classes and limits: every    *)
(* count is exactly what it stands for, and no limit is passed.            *)
(***************************************************************************)
EXTENDS Admission, FiniteSetTheorems, SequenceTheorems, WellFoundedInduction, TLAPS

Conn == [ip : Addr, key : Addr, class : Classes \cup {None}, quit : BOOLEAN, webirc : BOOLEAN, relay : BOOLEAN]
Track == [ip : Addr \cup {None}, start : Nat, count : Nat]

(***************************************************************************)
(* Counting the entries of a list that are in a set.                       *)
(***************************************************************************)
Where(s, T) == {i \in 1..Len(s) : s[i] \in T}
HowMany(s, T) == Cardinality(Where(s, T))
One(x, T) == IF x \in T THEN 1 ELSE 0

LEMMA HowManyType ==
    ASSUME NEW s \in Seq(Conn), NEW T
    PROVE  IsFiniteSet(Where(s, T)) /\ HowMany(s, T) \in Nat /\ HowMany(s, T) <= Len(s)
<1>1. Len(s) \in Nat  OBVIOUS
<1>2. IsFiniteSet(1..Len(s)) /\ Cardinality(1..Len(s)) = Len(s)  BY <1>1, FS_Interval
<1>3. Where(s, T) \in SUBSET (1..Len(s))  BY DEF Where
<1>4. IsFiniteSet(Where(s, T)) /\ Cardinality(Where(s, T)) <= Len(s)  BY <1>2, <1>3, FS_Subset
<1> QED  BY <1>4, FS_CardinalityType DEF HowMany

LEMMA HowManyEmpty == ASSUME NEW T PROVE HowMany(<< >>, T) = 0
<1>1. Where(<< >>, T) = {}  BY DEF Where
<1> QED  BY <1>1, FS_EmptySet DEF HowMany

LEMMA HowManySame ==
    ASSUME NEW s, NEW t, NEW T, Len(s) = Len(t), \A i \in 1..Len(s) : s[i] \in T <=> t[i] \in T
    PROVE  HowMany(s, T) = HowMany(t, T)
<1>1. Where(s, T) = Where(t, T)  BY DEF Where
<1> QED  BY <1>1 DEF HowMany

LEMMA HowManyIncluded ==
    ASSUME NEW s \in Seq(Conn), NEW T, NEW U, T \subseteq U
    PROVE  HowMany(s, T) <= HowMany(s, U)
<1>1. Where(s, T) \in SUBSET Where(s, U)  BY DEF Where
<1> QED  BY <1>1, HowManyType, FS_Subset DEF HowMany

\* A place is renumbered: what is counted is as many.
LEMMA Renumbered ==
    ASSUME NEW A, IsFiniteSet(A), NEW B, NEW f \in [A -> B],
           \A x, y \in A : f[x] = f[y] => x = y, \A z \in B : \E x \in A : f[x] = z
    PROVE  IsFiniteSet(B) /\ Cardinality(B) = Cardinality(A)
<1>1. f \in Bijection(A, B)  BY DEF Bijection, Injection, Surjection, IsInjective
<1>2. ExistsBijection(A, B)  BY <1>1 DEF ExistsBijection
<1> QED  BY <1>2, FS_Bijection

LEMMA PrependForm ==
    ASSUME NEW x \in Conn, NEW s \in Seq(Conn)
    PROVE  /\ <<x>> \o s \in Seq(Conn) /\ Len(<<x>> \o s) = Len(s) + 1
           /\ (<<x>> \o s)[1] = x
           /\ \A i \in 1..Len(s) : (<<x>> \o s)[i + 1] = s[i]
           /\ \A i \in 1..Len(<<x>> \o s) : i # 1 => i - 1 \in 1..Len(s) /\ (<<x>> \o s)[i] = s[i - 1]
<1>1. <<x>> \in Seq(Conn) /\ Len(<<x>>) = 1 /\ <<x>>[1] = x /\ Len(s) \in Nat  OBVIOUS
<1>2. /\ <<x>> \o s \in Seq(Conn) /\ Len(<<x>> \o s) = 1 + Len(s)
      /\ \A i \in 1..(1 + Len(s)) : (<<x>> \o s)[i] = IF i <= 1 THEN <<x>>[i] ELSE s[i - 1]
  BY <1>1, ConcatProperties
<1> DEFINE v == <<x>> \o s
<1> HIDE DEF v
<1>3. Len(v) = Len(s) + 1 /\ v[1] = x /\ v \in Seq(Conn)  BY <1>1, <1>2 DEF v
<1>4. \A i \in 1..Len(s) : v[i + 1] = s[i]
  <2> TAKE i \in 1..Len(s)
  <2>1. i + 1 \in 1..(1 + Len(s)) /\ ~(i + 1 <= 1) /\ (i + 1) - 1 = i  BY <1>1
  <2> QED  BY <1>2, <2>1 DEF v
<1>5. \A i \in 1..Len(v) : i # 1 => i - 1 \in 1..Len(s) /\ v[i] = s[i - 1]
  <2> SUFFICES ASSUME NEW i \in 1..Len(v), i # 1  PROVE i - 1 \in 1..Len(s) /\ v[i] = s[i - 1]
    OBVIOUS
  <2>1. i \in 1..(1 + Len(s)) /\ ~(i <= 1) /\ i - 1 \in 1..Len(s)  BY <1>1, <1>3
  <2> QED  BY <1>2, <2>1 DEF v
<1> QED  BY <1>3, <1>4, <1>5 DEF v

LEMMA HowManyPrepend ==
    ASSUME NEW x \in Conn, NEW s \in Seq(Conn), NEW T
    PROVE  HowMany(<<x>> \o s, T) = HowMany(s, T) + One(x, T)
<1> DEFINE v == <<x>> \o s
           A == Where(s, T)
           B == Where(v, T) \ {1}
           f == [i \in A |-> i + 1]
<1>1. IsFiniteSet(A) /\ HowMany(s, T) \in Nat  BY HowManyType
<1>2. v \in Seq(Conn) /\ Len(v) = Len(s) + 1 /\ Len(s) \in Nat /\ v[1] = x
  BY PrependForm
<1>3. \A i \in 1..Len(s) : v[i + 1] = s[i]  BY PrependForm
<1>4. \A i \in 1..Len(v) : i # 1 => i - 1 \in 1..Len(s) /\ v[i] = s[i - 1]  BY PrependForm
<1> HIDE DEF v
<1>5. f \in [A -> B]
  <2> SUFFICES ASSUME NEW i \in A PROVE i + 1 \in B  OBVIOUS
  <2>1. i \in 1..Len(s) /\ s[i] \in T  BY DEF Where
  <2>2. i + 1 \in 1..Len(v) /\ i + 1 # 1 /\ v[i + 1] \in T  BY <1>2, <1>3, <2>1
  <2> QED  BY <2>2 DEF Where
<1>6. \A i, j \in A : f[i] = f[j] => i = j
  <2>1. \A i \in A : i \in Nat  BY <1>2 DEF Where
  <2> QED  BY <2>1
<1>7. \A k \in B : \E i \in A : f[i] = k
  <2> TAKE k \in B
  <2>1. k \in 1..Len(v) /\ k # 1 /\ v[k] \in T  BY DEF Where
  <2>2. k - 1 \in 1..Len(s) /\ s[k - 1] \in T /\ (k - 1) + 1 = k  BY <1>2, <1>4, <2>1
  <2>3. k - 1 \in A /\ f[k - 1] = k  BY <2>2 DEF Where
  <2> QED  BY <2>3
<1> HIDE DEF f
<1>8. Cardinality(B) = Cardinality(A)  BY <1>1, <1>5, <1>6, <1>7, Renumbered
<1>9. IsFiniteSet(Where(v, T)) /\ HowMany(v, T) \in Nat  BY <1>2, HowManyType
<1>10. 1 \in Where(v, T) <=> x \in T  BY <1>2 DEF Where
<1>11. Cardinality(B) = IF x \in T THEN HowMany(v, T) - 1 ELSE HowMany(v, T)
  BY <1>9, <1>10, FS_RemoveElement DEF HowMany
<1> QED  BY <1>1, <1>8, <1>9, <1>11 DEF v, HowMany, One

LEMMA WithoutForm ==
    ASSUME NEW s \in Seq(Conn), NEW i \in 1..Len(s)
    PROVE  /\ Without(s, i) \in Seq(Conn) /\ Len(Without(s, i)) = Len(s) - 1
           /\ \A j \in 1..Len(Without(s, i)) : Without(s, i)[j] = IF j < i THEN s[j] ELSE s[j + 1]
<1> DEFINE a == SubSeq(s, 1, i - 1)
           b == SubSeq(s, i + 1, Len(s))
<1>1. Len(s) \in Nat /\ \A j \in 1..Len(s) : s[j] \in Conn  OBVIOUS
<1>2. /\ a \in Seq(Conn) /\ Len(a) = IF 1 <= i - 1 THEN (i - 1) - 1 + 1 ELSE 0
      /\ \A j \in 1..((i - 1) - 1 + 1) : a[j] = s[1 + j - 1]
  BY <1>1, SubSeqProperties
<1>3. /\ b \in Seq(Conn) /\ Len(b) = IF i + 1 <= Len(s) THEN Len(s) - (i + 1) + 1 ELSE 0
      /\ \A j \in 1..(Len(s) - (i + 1) + 1) : b[j] = s[(i + 1) + j - 1]
  BY <1>1, SubSeqProperties
<1> HIDE DEF a, b
<1>4. Len(a) = i - 1 /\ Len(b) = Len(s) - i  BY <1>1, <1>2, <1>3
<1>5. /\ a \o b \in Seq(Conn) /\ Len(a \o b) = Len(a) + Len(b)
      /\ \A j \in 1..(Len(a) + Len(b)) : (a \o b)[j] = IF j <= Len(a) THEN a[j] ELSE b[j - Len(a)]
  BY <1>2, <1>3, ConcatProperties
<1>6. Len(a \o b) = Len(s) - 1  BY <1>1, <1>4, <1>5
<1>7. ASSUME NEW j \in 1..Len(a \o b)  PROVE (a \o b)[j] = IF j < i THEN s[j] ELSE s[j + 1]
  <2>0. j \in 1..(Len(a) + Len(b))  BY <1>5
  <2>1. CASE j < i
    <3>1. j <= Len(a) /\ j \in 1..((i - 1) - 1 + 1) /\ 1 + j - 1 = j  BY <1>1, <1>4, <2>1
    <3> QED  BY <1>2, <1>5, <2>0, <2>1, <3>1
  <2>2. CASE ~(j < i)
    <3>1. /\ ~(j <= Len(a)) /\ j - Len(a) \in 1..(Len(s) - (i + 1) + 1)
          /\ (i + 1) + (j - Len(a)) - 1 = j + 1
      BY <1>1, <1>4, <1>6, <2>2
    <3> QED  BY <1>3, <1>5, <2>0, <2>2, <3>1
  <2> QED  BY <2>1, <2>2
<1> QED  BY <1>5, <1>6, <1>7 DEF Without, a, b

LEMMA HowManyWithout ==
    ASSUME NEW s \in Seq(Conn), NEW i \in 1..Len(s), NEW T
    PROVE  HowMany(Without(s, i), T) = HowMany(s, T) - One(s[i], T)
<1> DEFINE v == Without(s, i)
           A == Where(s, T) \ {i}
           B == Where(v, T)
           f == [j \in A |-> IF j < i THEN j ELSE j - 1]
<1>1. v \in Seq(Conn) /\ Len(v) = Len(s) - 1 /\ Len(s) \in Nat  BY WithoutForm
<1>2. \A j \in 1..Len(v) : v[j] = IF j < i THEN s[j] ELSE s[j + 1]  BY WithoutForm
<1>3. IsFiniteSet(Where(s, T)) /\ HowMany(s, T) \in Nat  BY HowManyType
<1> HIDE DEF v
<1>4. /\ IsFiniteSet(A)
      /\ Cardinality(A) = IF i \in Where(s, T) THEN HowMany(s, T) - 1 ELSE HowMany(s, T)
  BY <1>3, FS_RemoveElement DEF HowMany
<1>5. ASSUME NEW j \in A  PROVE f[j] \in B
  <2>1. j \in 1..Len(s) /\ s[j] \in T /\ j # i  BY DEF Where
  <2>2. CASE j < i
    <3>1. j \in 1..Len(v) /\ v[j] = s[j] /\ f[j] = j  BY <1>1, <1>2, <2>1, <2>2
    <3> QED  BY <2>1, <3>1 DEF Where
  <2>3. CASE ~(j < i)
    <3>1. j - 1 \in 1..Len(v) /\ ~(j - 1 < i) /\ (j - 1) + 1 = j /\ f[j] = j - 1  BY <1>1, <2>1, <2>3
    <3>2. v[j - 1] = s[j]  BY <1>2, <3>1
    <3> QED  BY <2>1, <3>1, <3>2 DEF Where
  <2> QED  BY <2>2, <2>3
<1>6. f \in [A -> B]  BY <1>5
<1>7. \A j, k \in A : f[j] = f[k] => j = k
  <2>1. \A j \in A : j \in Nat /\ j # i  BY <1>1 DEF Where
  <2> QED  BY <1>1, <2>1
<1>8. \A k \in B : \E j \in A : f[j] = k
  <2> TAKE k \in B
  <2>1. k \in 1..Len(v) /\ v[k] \in T  BY DEF Where
  <2>2. CASE k < i
    <3>1. k \in 1..Len(s) /\ s[k] \in T /\ k # i  BY <1>1, <1>2, <2>1, <2>2
    <3>2. k \in A /\ f[k] = k  BY <2>2, <3>1 DEF Where
    <3> QED  BY <3>2
  <2>3. CASE ~(k < i)
    <3>1. k + 1 \in 1..Len(s) /\ s[k + 1] \in T /\ k + 1 # i /\ ~(k + 1 < i) /\ (k + 1) - 1 = k  BY <1>1, <1>2, <2>1, <2>3
    <3>2. k + 1 \in A /\ f[k + 1] = k  BY <3>1 DEF Where
    <3> QED  BY <3>2
  <2> QED  BY <2>2, <2>3
<1> HIDE DEF f
<1>9. Cardinality(B) = Cardinality(A)  BY <1>4, <1>6, <1>7, <1>8, Renumbered
<1>10. i \in Where(s, T) <=> s[i] \in T  BY DEF Where
<1> QED  BY <1>3, <1>4, <1>9, <1>10 DEF v, HowMany, One

LEMMA HowManyReplaced ==
    ASSUME NEW s \in Seq(Conn), NEW t \in Seq(Conn), Len(s) = Len(t), NEW i \in 1..Len(s),
           \A j \in 1..Len(s) : j # i => t[j] = s[j], NEW T
    PROVE  HowMany(t, T) = HowMany(s, T) - One(s[i], T) + One(t[i], T)
<1>1. Where(s, T) \ {i} = Where(t, T) \ {i}  BY DEF Where
<1>2. /\ IsFiniteSet(Where(s, T)) /\ HowMany(s, T) \in Nat
      /\ IsFiniteSet(Where(t, T)) /\ HowMany(t, T) \in Nat
  BY HowManyType
<1>3. Cardinality(Where(s, T) \ {i}) = HowMany(s, T) - One(s[i], T)
  <2>1. i \in Where(s, T) <=> s[i] \in T  BY DEF Where
  <2>2. Cardinality(Where(s, T) \ {i}) = IF i \in Where(s, T) THEN HowMany(s, T) - 1 ELSE HowMany(s, T)
    BY <1>2, FS_RemoveElement DEF HowMany
  <2> QED  BY <1>2, <2>1, <2>2 DEF One
<1>4. Cardinality(Where(t, T) \ {i}) = HowMany(t, T) - One(t[i], T)
  <2>1. i \in Where(t, T) <=> t[i] \in T  BY DEF Where
  <2>2. Cardinality(Where(t, T) \ {i}) = IF i \in Where(t, T) THEN HowMany(t, T) - 1 ELSE HowMany(t, T)
    BY <1>2, FS_RemoveElement DEF HowMany
  <2> QED  BY <1>2, <2>1, <2>2 DEF One
<1>5. One(s[i], T) \in Nat /\ One(t[i], T) \in Nat  BY DEF One
<1>6. HowMany(s, T) - One(s[i], T) = HowMany(t, T) - One(t[i], T)  BY <1>1, <1>3, <1>4
<1>7. HowMany(s, T) \in Nat /\ HowMany(t, T) \in Nat  BY <1>2
<1> QED  BY <1>5, <1>6, <1>7

LEMMA HowManyAppend ==
    ASSUME NEW s \in Seq(Conn), NEW x \in Conn, NEW T
    PROVE  HowMany(Append(s, x), T) = HowMany(s, T) + One(x, T)
<1> DEFINE v == Append(s, x)
           n == Len(s) + 1
<1>1. v \in Seq(Conn) /\ Len(v) = n /\ v[n] = x /\ Len(s) \in Nat /\ \A i \in 1..Len(s) : v[i] = s[i]
  BY AppendProperties
<1> HIDE DEF v
<1>2. 1..n = (1..Len(s)) \cup {n} /\ n \notin 1..Len(s)  BY <1>1
<1>3. Where(v, T) = IF x \in T THEN Where(s, T) \cup {n} ELSE Where(s, T)  BY <1>1, <1>2 DEF Where
<1>4. IsFiniteSet(Where(s, T)) /\ HowMany(s, T) \in Nat  BY HowManyType
<1>5. n \notin Where(s, T)  BY <1>2 DEF Where
<1>6. Cardinality(Where(s, T) \cup {n}) = HowMany(s, T) + 1  BY <1>4, <1>5, FS_AddElement DEF HowMany
<1>7. CASE x \in T
  <2>1. Where(v, T) = Where(s, T) \cup {n}  BY <1>3, <1>7
  <2> QED  BY <1>6, <1>7, <2>1 DEF v, HowMany, One
<1>8. CASE x \notin T
  <2>1. Where(v, T) = Where(s, T)  BY <1>3, <1>8
  <2> QED  BY <1>4, <1>8, <2>1 DEF v, HowMany, One
<1> QED  BY <1>7, <1>8

(***************************************************************************)
(* Connection classes.                                                     *)
(***************************************************************************)
InClass(c) == {r \in Conn : r.class = c}
Is1(p) == IF p THEN 1 ELSE 0

LEMMA ReleasedForm ==
    ASSUME NEW cnt \in [Classes -> Nat], NEW old \in Classes \cup {None}
    PROVE  /\ Released(cnt, old) \in [Classes -> Nat]
           /\ \A c \in Classes : Released(cnt, old)[c] = IF c = old /\ cnt[c] > 0 THEN cnt[c] - 1 ELSE cnt[c]
<1>1. None \notin Classes  BY AdmissionTypes
<1>2. CASE old # None /\ cnt[old] > 0
  <2>1. old \in Classes /\ cnt[old] - 1 \in Nat  BY <1>2
  <2>2. Released(cnt, old) = [cnt EXCEPT ![old] = cnt[old] - 1]  BY <1>2 DEF Released
  <2> QED  BY <1>2, <2>1, <2>2
<1>3. CASE ~(old # None /\ cnt[old] > 0)
  <2>1. Released(cnt, old) = cnt  BY <1>3 DEF Released
  <2> QED  BY <1>1, <1>3, <2>1
<1> QED  BY <1>2, <1>3

\* net_assign_class: what was held is given back, what is given is counted, and a class with a limit
\* gives no more than that.
LEMMA AssignForm ==
    ASSUME NEW caps \in [Classes -> Nat], NEW cnt \in [Classes -> Nat], NEW old \in Classes \cup {None}, NEW ip \in Addr
    PROVE  LET x == Assign(caps, cnt, old, ip) IN
           /\ x.ok \in BOOLEAN /\ x.count \in [Classes -> Nat] /\ x.class \in Classes \cup {None}
           /\ \A c \in Classes :
                /\ x.count[c] = Released(cnt, old)[c] + Is1(c = x.class)
                /\ c = x.class /\ caps[c] > 0 => x.count[c] <= caps[c]
           /\ IF x.ok THEN x.class = ClassOf[ip] ELSE x.class = None
<1> DEFINE r == Released(cnt, old)
           d == ClassOf[ip]
           x == Assign(caps, cnt, old, ip)
<1>1. None \notin Classes /\ d \in Classes \cup {None}  BY AdmissionTypes
<1>2. r \in [Classes -> Nat]  BY ReleasedForm
<1>3. x = IF d = None THEN [ok |-> TRUE, count |-> r, class |-> None]
          ELSE IF caps[d] > 0 /\ r[d] >= caps[d] THEN [ok |-> FALSE, count |-> r, class |-> None]
          ELSE [ok |-> TRUE, count |-> [r EXCEPT ![d] = @ + 1], class |-> d]
  BY DEF Assign
<1> HIDE DEF x, r, d
<1>4. CASE d = None
  <2>1. x.ok = TRUE /\ x.count = r /\ x.class = None  BY <1>3, <1>4
  <2>2. \A c \in Classes : c # x.class /\ r[c] \in Nat  BY <1>1, <1>2, <2>1
  <2>3. \A c \in Classes : x.count[c] = r[c] + Is1(c = x.class)  BY <2>1, <2>2 DEF Is1
  <2> QED  BY <1>2, <1>4, <2>1, <2>2, <2>3 DEF x, r, d
<1>5. CASE d # None /\ caps[d] > 0 /\ r[d] >= caps[d]
  <2>1. x.ok = FALSE /\ x.count = r /\ x.class = None  BY <1>3, <1>5
  <2>2. \A c \in Classes : c # x.class /\ r[c] \in Nat  BY <1>1, <1>2, <2>1
  <2>3. \A c \in Classes : x.count[c] = r[c] + Is1(c = x.class)  BY <2>1, <2>2 DEF Is1
  <2> QED  BY <1>2, <2>1, <2>2, <2>3 DEF x, r, d
<1>6. CASE d # None /\ ~(caps[d] > 0 /\ r[d] >= caps[d])
  <2>1. x.ok = TRUE /\ x.count = [r EXCEPT ![d] = @ + 1] /\ x.class = d  BY <1>3, <1>6
  <2>2. d \in Classes /\ r[d] + 1 \in Nat  BY <1>1, <1>2, <1>6
  <2>3. x.count \in [Classes -> Nat] /\ \A c \in Classes : x.count[c] = IF c = d THEN r[c] + 1 ELSE r[c]
    BY <1>2, <2>1, <2>2
  <2>4. caps[d] > 0 => x.count[d] <= caps[d]  BY <1>2, <1>6, <2>2, <2>3
  <2>5. \A c \in Classes : x.count[c] = r[c] + Is1(c = x.class)  BY <1>2, <2>1, <2>3 DEF Is1
  <2> QED  BY <2>1, <2>2, <2>3, <2>4, <2>5 DEF x, r, d
<1> QED  BY <1>4, <1>5, <1>6 DEF x, d, r

(***************************************************************************)
(* net_reclass_all is a walk over the list, which TLA+ writes as a         *)
(* recursive function: that it is one, and what it counts, is by induction *)
(* over the places of the list.                                            *)
(***************************************************************************)
LEMMA Induction ==
    ASSUME NEW T \in SUBSET Nat, 0 \in T, \A n \in T : n + 1 \in T
    PROVE  T = Nat
<1> SUFFICES ASSUME Nat \ T # {} PROVE FALSE  OBVIOUS
<1>1. PICK x \in Nat \ T : \A y \in Nat \ T : ~(<<y, x>> \in OpToRel(<, Nat))
  BY NatLessThanWellFounded, WFMin
<1>2. x # 0 /\ x - 1 \in Nat /\ (x - 1) + 1 = x
  <2>1. x \in Nat /\ x \notin T  OBVIOUS
  <2>2. x # 0  BY <2>1
  <2> QED  BY <2>1, <2>2
<1>3. x - 1 \in T
  <2>1. <<x - 1, x>> \in OpToRel(<, Nat)  BY <1>2 DEF OpToRel
  <2> QED  BY <1>1, <1>2, <2>1
<1> QED  BY <1>1, <1>2, <1>3

\* One step of the walk.
WalkStep(caps, p, r) ==
    LET to == Assign(caps, p.count, None, r.ip) IN
    [count |-> to.count, list |-> Append(p.list, [r EXCEPT !.class = to.class])]
WalkStart == [count |-> [c \in Classes |-> 0], list |-> << >>]
IsWalk(caps, cs, n, f) ==
    f = [i \in 0..n |-> IF i = 0 THEN WalkStart ELSE WalkStep(caps, f[i - 1], cs[i])]

LEMMA WalkExists == ASSUME NEW caps, NEW cs PROVE \A n \in Nat : \E f : IsWalk(caps, cs, n, f)
<1> DEFINE T == {n \in Nat : \E f : IsWalk(caps, cs, n, f)}
<1>1. 0 \in T
  <2> DEFINE f == [i \in 0..0 |-> WalkStart]
  <2>1. f = [i \in 0..0 |-> IF i = 0 THEN WalkStart ELSE WalkStep(caps, f[i - 1], cs[i])]  OBVIOUS
  <2>2. IsWalk(caps, cs, 0, f)  BY <2>1 DEF IsWalk
  <2> QED  BY <2>2
<1>2. ASSUME NEW n \in T  PROVE n + 1 \in T
  <2>1. PICK f : IsWalk(caps, cs, n, f)  OBVIOUS
  <2> DEFINE g == [i \in 0..(n + 1) |-> IF i = n + 1 THEN WalkStep(caps, f[n], cs[n + 1]) ELSE f[i]]
  <2>2. \A i \in 0..n : g[i] = f[i]  OBVIOUS
  <2>3. \A i \in 0..n : f[i] = IF i = 0 THEN WalkStart ELSE WalkStep(caps, f[i - 1], cs[i])  BY <2>1 DEF IsWalk
  <2>4. ASSUME NEW i \in 0..(n + 1)
        PROVE  g[i] = IF i = 0 THEN WalkStart ELSE WalkStep(caps, g[i - 1], cs[i])
    <3>1. CASE i = n + 1
      <4>1. i # 0 /\ i - 1 = n /\ n \in 0..n  BY <3>1
      <4>2. g[i] = WalkStep(caps, f[n], cs[n + 1])  BY <3>1
      <4>3. g[i - 1] = f[n]  BY <2>2, <4>1
      <4> HIDE DEF g
      <4> QED  BY <3>1, <4>1, <4>2, <4>3
    <3>2. CASE i # n + 1
      <4>1. i \in 0..n  BY <3>2
      <4>2. i # 0 => i - 1 \in 0..n  BY <4>1
      <4>3. g[i] = f[i] /\ (i # 0 => g[i - 1] = f[i - 1])  BY <2>2, <4>1, <4>2
      <4> HIDE DEF g
      <4> QED  BY <2>3, <4>1, <4>3
    <3> QED  BY <3>1, <3>2
  <2>5. g = [i \in 0..(n + 1) |-> g[i]]  OBVIOUS
  <2>6. IsWalk(caps, cs, n + 1, g)
    <3> HIDE DEF g
    <3> QED  BY <2>4, <2>5 DEF IsWalk
  <2> QED  BY <2>6
<1> HIDE DEF T
<1>3. T \in SUBSET Nat  BY DEF T
<1>4. T = Nat  BY <1>1, <1>2, <1>3, Induction
<1> QED  BY <1>4 DEF T

\* What has been walked over: every connection keeps all but its class, each class counts those it
\* was given to, and is within its limit.
Walked(caps, cs, n, p) ==
    /\ p.count \in [Classes -> Nat] /\ p.list \in Seq(Conn) /\ Len(p.list) = n
    /\ \A j \in 1..n : p.list[j].key = cs[j].key /\ p.list[j].relay = cs[j].relay
    /\ \A c \in Classes : p.count[c] = HowMany(p.list, InClass(c)) /\ (caps[c] > 0 => p.count[c] <= caps[c])

LEMMA WalkGoesOn ==
    ASSUME NEW caps \in [Classes -> Nat], NEW cs \in Seq(Conn), NEW n \in Nat, n + 1 <= Len(cs),
           NEW p, Walked(caps, cs, n, p)
    PROVE  Walked(caps, cs, n + 1, WalkStep(caps, p, cs[n + 1]))
<1> DEFINE r == cs[n + 1]
           x == Assign(caps, p.count, None, r.ip)
           y == [r EXCEPT !.class = x.class]
           q == WalkStep(caps, p, r)
<1>1. r \in Conn  OBVIOUS
<1>2. r.ip \in Addr /\ p.count \in [Classes -> Nat] /\ p.list \in Seq(Conn) /\ Len(p.list) = n
  BY <1>1 DEF Conn, Walked
<1>3. /\ x.count \in [Classes -> Nat] /\ x.class \in Classes \cup {None}
      /\ \A c \in Classes :
           /\ x.count[c] = Released(p.count, None)[c] + Is1(c = x.class)
           /\ c = x.class /\ caps[c] > 0 => x.count[c] <= caps[c]
  BY <1>2, AssignForm
<1>4. Released(p.count, None) = p.count  BY DEF Released
<1> HIDE DEF x
<1>5. y \in Conn /\ y.key = r.key /\ y.relay = r.relay /\ y.class = x.class  BY <1>1, <1>3 DEF Conn
<1>6. q.count = x.count /\ q.list = Append(p.list, y)  BY DEF WalkStep, x
<1> HIDE DEF y, q
<1>7. /\ q.list \in Seq(Conn) /\ Len(q.list) = n + 1 /\ q.list[n + 1] = y
      /\ \A j \in 1..n : q.list[j] = p.list[j]
  BY <1>2, <1>5, <1>6, AppendProperties
<1>8. \A j \in 1..(n + 1) : q.list[j].key = cs[j].key /\ q.list[j].relay = cs[j].relay
  <2> TAKE j \in 1..(n + 1)
  <2>1. CASE j = n + 1  BY <1>5, <1>7, <2>1
  <2>2. CASE j # n + 1
    <3>1. j \in 1..n  BY <2>2
    <3> QED  BY <1>7, <3>1 DEF Walked
  <2> QED  BY <2>1, <2>2
<1>9. ASSUME NEW c \in Classes
      PROVE  q.count[c] = HowMany(q.list, InClass(c)) /\ (caps[c] > 0 => q.count[c] <= caps[c])
  <2>1. p.count[c] = HowMany(p.list, InClass(c)) /\ (caps[c] > 0 => p.count[c] <= caps[c])  BY DEF Walked
  <2>2. One(y, InClass(c)) = Is1(c = x.class)  BY <1>5 DEF InClass, One, Is1
  <2>3. HowMany(q.list, InClass(c)) = p.count[c] + Is1(c = x.class)
    BY <1>2, <1>5, <1>6, <2>1, <2>2, HowManyAppend
  <2>4. q.count[c] = p.count[c] + Is1(c = x.class)  BY <1>3, <1>4, <1>6
  <2>5. p.count[c] \in Nat /\ caps[c] \in Nat  BY <1>2
  <2>6. caps[c] > 0 => q.count[c] <= caps[c]  BY <1>3, <1>6, <2>1, <2>4, <2>5 DEF Is1
  <2> QED  BY <2>3, <2>4, <2>6
<1> QED  BY <1>3, <1>6, <1>7, <1>8, <1>9 DEF Walked, q

LEMMA ReclassedForm ==
    ASSUME NEW caps \in [Classes -> Nat], conns \in Seq(Conn)
    PROVE  Walked(caps, conns, Len(conns), Reclassed(caps))
<1> DEFINE N == Len(conns)
<1>1. N \in Nat  OBVIOUS
<1>2. \E f : IsWalk(caps, conns, N, f)  BY <1>1, WalkExists
<1> DEFINE w == CHOOSE f : IsWalk(caps, conns, N, f)
<1>3. IsWalk(caps, conns, N, w)  BY <1>2
<1>4. Reclassed(caps) = w[N]  BY DEF Reclassed, IsWalk, WalkStep, WalkStart
<1> HIDE DEF w, N
<1>5. \A i \in 0..N : w[i] = IF i = 0 THEN WalkStart ELSE WalkStep(caps, w[i - 1], conns[i])
  BY <1>3 DEF IsWalk
<1> DEFINE T == {n \in Nat : n <= N => Walked(caps, conns, n, w[n])}
<1>6. 0 \in T
  <2>1. w[0] = WalkStart  BY <1>1, <1>5
  <2>2. \A c \in Classes : HowMany(<< >>, InClass(c)) = 0  BY HowManyEmpty
  <2>3. Walked(caps, conns, 0, WalkStart)  BY <2>2 DEF Walked, WalkStart
  <2> QED  BY <2>1, <2>3
<1>7. ASSUME NEW n \in T  PROVE n + 1 \in T
  <2>1. n \in Nat /\ (n <= N => Walked(caps, conns, n, w[n]))  OBVIOUS
  <2>2. SUFFICES ASSUME n + 1 <= N  PROVE Walked(caps, conns, n + 1, w[n + 1])  BY <2>1
  <2>3. n <= N /\ n + 1 \in 0..N /\ n + 1 # 0 /\ (n + 1) - 1 = n  BY <1>1, <2>1, <2>2
  <2>4. w[n + 1] = WalkStep(caps, w[n], conns[n + 1])  BY <1>5, <2>3
  <2>5. Walked(caps, conns, n + 1, WalkStep(caps, w[n], conns[n + 1]))
    BY <2>1, <2>2, <2>3, WalkGoesOn DEF N
  <2> QED  BY <2>4, <2>5
<1> HIDE DEF T
<1>8. T \in SUBSET Nat  BY DEF T
<1>9. T = Nat  BY <1>6, <1>7, <1>8, Induction
<1>10. N \in T /\ N <= N  BY <1>1, <1>9
<1> QED  BY <1>4, <1>10 DEF T, N

(***************************************************************************)
(* Types, and the counts of connections.                                   *)
(***************************************************************************)
Keyed(a) == {r \in Conn : r.key = a}
Plain(a) == {r \in Conn : r.key = a /\ ~r.relay}
\* What the connections and their counts look like, and what each limit bounds.
Lists ==
    /\ conns \in Seq(Conn) /\ n_clients = Len(conns) /\ (max_connections > 0 => n_clients <= max_connections)
    /\ ip_counts \in [Addr -> Nat] /\ class_count \in [Classes -> Nat] /\ cap \in [Classes -> Nat]
PerAddr == \A a \in Addr :
    /\ ip_counts[a] = HowMany(conns, Keyed(a))
    /\ PerIp(ClassOf[a]) > 0 => HowMany(conns, Plain(a)) <= PerIp(ClassOf[a])
PerClass == \A c \in Classes :
    HowMany(conns, InClass(c)) <= class_count[c] /\ (cap[c] > 0 => class_count[c] <= cap[c])
ConnsOK == Lists /\ PerAddr /\ PerClass

LEMMA Consts ==
    /\ IsFiniteSet(Addr) /\ None \notin Addr /\ None \notin Classes /\ FloodSlots > 0
    /\ ClassOf \in [Addr -> Classes \cup {None}] /\ Caps \subseteq [Classes -> Nat]
    /\ {max_connections, max_connections_per_ip, connect_flood_max, FloodSlots, Probes, scan_max_concurrent} \subseteq Nat
    /\ ClassPerIp \in [Classes -> Nat] /\ Gateways \subseteq Addr
  BY AdmissionTypes

LEMMA PerIpType == ASSUME NEW a \in Addr PROVE PerIp(ClassOf[a]) \in Nat
  BY Consts DEF PerIp

\* What is counted of the connections is in the properties.
LEMMA ConnsShow == ConnsOK => CountsExact /\ Capped /\ conns \in Seq(Conn) /\ (max_connections > 0 => Len(conns) <= max_connections)
<1> SUFFICES ASSUME ConnsOK PROVE CountsExact /\ Capped  BY DEF ConnsOK, Lists
<1>1. conns \in Seq(Conn) /\ DOMAIN conns = 1..Len(conns)  BY DEF ConnsOK, Lists
<1>2. \A i \in 1..Len(conns) : conns[i] \in Conn  BY <1>1
<1>3. \A a : {i \in DOMAIN conns : conns[i].key = a} = Where(conns, Keyed(a))  BY <1>1, <1>2 DEF Where, Keyed
<1>4. \A a : {i \in DOMAIN conns : conns[i].key = a /\ ~conns[i].relay} = Where(conns, Plain(a))
  BY <1>1, <1>2 DEF Where, Plain
<1>5. \A c : Members(c) = Where(conns, InClass(c))  BY <1>1, <1>2 DEF Where, InClass, Members
<1>6. CountsExact  BY <1>3 DEF CountsExact, HowMany, ConnsOK, Lists, PerAddr
<1>7. ClassCapped  BY <1>5 DEF ClassCapped, HowMany, ConnsOK, PerClass
<1>8. PerIpCapped  BY <1>4 DEF PerIpCapped, HowMany, ConnsOK, PerAddr
<1> QED  BY <1>6, <1>7, <1>8 DEF Capped

\* Marks and addresses may change; what counts is the key, the class and whether it is a relay.
LEMMA MarksChange ==
    ASSUME ConnsOK, conns' \in Seq(Conn), Len(conns') = Len(conns), UNCHANGED <<counts, cap>>,
           \A i \in 1..Len(conns) : /\ conns'[i].key = conns[i].key /\ conns'[i].relay = conns[i].relay
                                    /\ conns'[i].class = conns[i].class
    PROVE  ConnsOK'
<1>1. conns \in Seq(Conn) /\ \A i \in 1..Len(conns) : conns[i] \in Conn /\ conns'[i] \in Conn
  BY DEF ConnsOK, Lists
<1>2. \A a : HowMany(conns, Keyed(a)) = HowMany(conns', Keyed(a))  BY <1>1, HowManySame DEF Keyed
<1>3. \A a : HowMany(conns, Plain(a)) = HowMany(conns', Plain(a))  BY <1>1, HowManySame DEF Plain
<1>4. \A c : HowMany(conns, InClass(c)) = HowMany(conns', InClass(c))  BY <1>1, HowManySame DEF InClass
<1>5. Lists'  BY DEF ConnsOK, Lists, counts
<1>6. PerAddr'  BY <1>2, <1>3 DEF ConnsOK, PerAddr, counts
<1>7. PerClass'  BY <1>4 DEF ConnsOK, PerClass, counts
<1> QED  BY <1>5, <1>6, <1>7 DEF ConnsOK

LEMMA InitConns == Init => ConnsOK
<1> SUFFICES ASSUME Init PROVE ConnsOK  OBVIOUS
<1>1. conns = << >> /\ n_clients = 0 /\ cap \in [Classes -> Nat]  BY Consts DEF Init
<1>2. \A T : HowMany(conns, T) = 0  BY <1>1, HowManyEmpty
<1>3. Lists  BY <1>1, Consts DEF Init, Lists
<1>4. PerAddr  BY <1>2, PerIpType DEF Init, PerAddr
<1>5. PerClass  BY <1>1, <1>2 DEF Init, PerClass
<1> QED  BY <1>3, <1>4, <1>5 DEF ConnsOK

\* server_add_connection, with the class net_assign_class gave.
LEMMA AdmitConns ==
    ASSUME ConnsOK, NEW a \in Addr, Admit(a)
    PROVE  ConnsOK'
<1> DEFINE x == Assigned(a)
           r == [ip |-> a, key |-> a, class |-> x.class, quit |-> FALSE, webirc |-> FALSE, relay |-> Related(a)]
<1>1. /\ x.ok /\ ~OverIp(a) /\ Screened(a) /\ conns' = <<r>> \o conns /\ n_clients' = n_clients + 1
      /\ ip_counts' = [ip_counts EXCEPT ![a] = @ + 1] /\ class_count' = x.count /\ cap' = cap
  BY DEF Admit, Passed
<1>2. Lists /\ PerAddr /\ PerClass  BY DEF ConnsOK
<1>3. /\ x.count \in [Classes -> Nat] /\ x.class \in Classes \cup {None}
      /\ \A c \in Classes :
           /\ x.count[c] = Released(class_count, None)[c] + Is1(c = x.class)
           /\ c = x.class /\ cap[c] > 0 => x.count[c] <= cap[c]
      /\ x.class = ClassOf[a]
  BY <1>1, <1>2, AssignForm DEF Assigned, Lists
<1>4. Released(class_count, None) = class_count  BY DEF Released
<1> HIDE DEF x
<1>5. Related(a) \in BOOLEAN  BY DEF Related, slot_live
<1>6. r \in Conn /\ r.key = a /\ r.class = x.class /\ r.relay = Related(a)  BY <1>3, <1>5 DEF Conn
<1> HIDE DEF r
<1>7. conns' \in Seq(Conn) /\ Len(conns') = Len(conns) + 1  BY <1>1, <1>2, <1>6, PrependForm DEF Lists
<1>8. \A T : HowMany(conns', T) = HowMany(conns, T) + One(r, T)
  BY <1>1, <1>2, <1>6, HowManyPrepend DEF Lists
<1>9. Lists'
  <2>1. max_connections \in Nat /\ Len(conns) \in Nat  BY <1>2, Consts DEF Lists
  <2>2. max_connections > 0 => n_clients' <= max_connections  BY <1>1, <1>2, <2>1 DEF Screened, Lists
  <2>3. ip_counts' \in [Addr -> Nat]  BY <1>1, <1>2 DEF Lists
  <2> QED  BY <1>1, <1>2, <1>3, <1>7, <2>2, <2>3 DEF Lists
<1>10. ASSUME NEW b \in Addr
       PROVE  /\ ip_counts'[b] = HowMany(conns', Keyed(b))
              /\ PerIp(ClassOf[b]) > 0 => HowMany(conns', Plain(b)) <= PerIp(ClassOf[b])
  <2>1. /\ ip_counts[b] \in Nat /\ ip_counts[b] = HowMany(conns, Keyed(b))
        /\ PerIp(ClassOf[b]) > 0 => HowMany(conns, Plain(b)) <= PerIp(ClassOf[b])
    BY <1>2 DEF Lists, PerAddr
  <2>2. HowMany(conns, Plain(b)) \in Nat /\ HowMany(conns, Plain(b)) <= HowMany(conns, Keyed(b)) /\ PerIp(ClassOf[b]) \in Nat
    <3>1. Plain(b) \subseteq Keyed(b)  BY DEF Plain, Keyed
    <3> QED  BY <1>2, <3>1, HowManyType, HowManyIncluded, PerIpType DEF Lists
  <2>3. HowMany(conns', Keyed(b)) = HowMany(conns, Keyed(b)) + One(r, Keyed(b))  BY <1>8
  <2>4. HowMany(conns', Plain(b)) = HowMany(conns, Plain(b)) + One(r, Plain(b))  BY <1>8
  <2>5. CASE b = a
    <3>1. One(r, Keyed(b)) = 1  BY <1>6, <2>5 DEF One, Keyed
    <3>2. ip_counts'[b] = ip_counts[b] + 1  BY <1>1, <1>2, <2>5 DEF Lists
    <3>3. One(r, Plain(b)) = IF Related(a) THEN 0 ELSE 1  BY <1>6, <2>5 DEF One, Plain
    <3>4. ~Related(a) /\ PerIp(ClassOf[b]) > 0 => ip_counts[b] < PerIp(ClassOf[b])
      <4>1. Assigned(a).class = ClassOf[a]  BY <1>3 DEF x
      <4>2. ~(~Related(a) /\ PerIp(ClassOf[a]) > 0 /\ ip_counts[a] >= PerIp(ClassOf[a]))  BY <1>1, <4>1 DEF OverIp
      <4> QED  BY <2>1, <2>2, <2>5, <4>2
    <3> QED  BY <2>1, <2>2, <2>3, <2>4, <3>1, <3>2, <3>3, <3>4
  <2>6. CASE b # a
    <3>1. One(r, Keyed(b)) = 0 /\ One(r, Plain(b)) = 0  BY <1>6, <2>6 DEF One, Keyed, Plain
    <3>2. ip_counts'[b] = ip_counts[b]  BY <1>1, <1>2, <2>6 DEF Lists
    <3> QED  BY <2>1, <2>2, <2>3, <2>4, <3>1, <3>2
  <2> QED  BY <2>5, <2>6
<1>11. ASSUME NEW c \in Classes
       PROVE  HowMany(conns', InClass(c)) <= class_count'[c] /\ (cap'[c] > 0 => class_count'[c] <= cap'[c])
  <2>1. HowMany(conns', InClass(c)) = HowMany(conns, InClass(c)) + One(r, InClass(c))  BY <1>8
  <2>2. One(r, InClass(c)) = Is1(c = x.class)  BY <1>6 DEF One, InClass, Is1
  <2>3. class_count'[c] = class_count[c] + Is1(c = x.class)  BY <1>1, <1>3, <1>4
  <2>4. /\ HowMany(conns, InClass(c)) \in Nat /\ class_count[c] \in Nat /\ cap[c] \in Nat
        /\ HowMany(conns, InClass(c)) <= class_count[c] /\ (cap[c] > 0 => class_count[c] <= cap[c])
    BY <1>2, HowManyType DEF Lists, PerClass
  <2>5. cap'[c] > 0 => class_count'[c] <= cap'[c]  BY <1>1, <1>3, <2>3, <2>4 DEF Is1
  <2> QED  BY <2>1, <2>2, <2>3, <2>4, <2>5 DEF Is1
<1> QED  BY <1>9, <1>10, <1>11 DEF ConnsOK, PerAddr, PerClass

\* A refusal after net_assign_class keeps the place it took: the count is never below what it counts.
LEMMA RefuseConns ==
    ASSUME ConnsOK, NEW a \in Addr, RefuseHost(a)
    PROVE  ConnsOK'
<1> DEFINE x == Assigned(a)
<1>1. class_count' = x.count /\ UNCHANGED <<conns, n_clients, ip_counts, cap>>  BY DEF RefuseHost
<1>2. Lists /\ PerAddr /\ PerClass  BY DEF ConnsOK
<1>3. /\ x.count \in [Classes -> Nat]
      /\ \A c \in Classes :
           /\ x.count[c] = Released(class_count, None)[c] + Is1(c = x.class)
           /\ c = x.class /\ cap[c] > 0 => x.count[c] <= cap[c]
  BY <1>2, AssignForm DEF Assigned, Lists
<1>4. Released(class_count, None) = class_count  BY DEF Released
<1> HIDE DEF x
<1>5. ASSUME NEW c \in Classes
      PROVE  HowMany(conns', InClass(c)) <= class_count'[c] /\ (cap'[c] > 0 => class_count'[c] <= cap'[c])
  <2>1. class_count'[c] = class_count[c] + Is1(c = x.class)  BY <1>1, <1>3, <1>4
  <2>2. /\ HowMany(conns, InClass(c)) \in Nat /\ class_count[c] \in Nat /\ cap[c] \in Nat
        /\ HowMany(conns, InClass(c)) <= class_count[c] /\ (cap[c] > 0 => class_count[c] <= cap[c])
    BY <1>2, HowManyType DEF Lists, PerClass
  <2>3. HowMany(conns', InClass(c)) = HowMany(conns, InClass(c)) /\ cap'[c] = cap[c]  BY <1>1
  <2>4. cap[c] > 0 => class_count'[c] <= cap[c]  BY <1>1, <1>3, <2>1, <2>2 DEF Is1
  <2> QED  BY <2>1, <2>2, <2>3, <2>4 DEF Is1
<1>6. Lists'  BY <1>1, <1>2, <1>3 DEF Lists
<1>7. PerAddr'  BY <1>1, <1>2 DEF PerAddr
<1> QED  BY <1>5, <1>6, <1>7 DEF ConnsOK, PerClass

\* A gateway hands over an address: the key stays, the class is given back and another is taken.
LEMMA AddressConns ==
    ASSUME ConnsOK, NEW i \in DOMAIN conns, NEW a \in Addr, RealAddress(i, a)
    PROVE  ConnsOK'
<1> DEFINE x == Assign(cap, class_count, conns[i].class, a)
           y == [conns[i] EXCEPT !.ip = a, !.class = x.class, !.webirc = x.ok, !.quit = ~x.ok \/ a \in banned]
<1>1. /\ class_count' = x.count /\ conns' = [conns EXCEPT ![i] = y]
      /\ UNCHANGED <<n_clients, ip_counts, cap>>
  BY DEF RealAddress
<1>2. Lists /\ PerAddr /\ PerClass /\ i \in 1..Len(conns) /\ conns[i] \in Conn /\ conns[i].class \in Classes \cup {None}
  <2>1. Lists /\ PerAddr /\ PerClass /\ conns \in Seq(Conn)  BY DEF ConnsOK, Lists
  <2>2. i \in 1..Len(conns) /\ conns[i] \in Conn  BY <2>1
  <2>3. conns[i].class \in Classes \cup {None}  BY <2>2 DEF Conn
  <2> QED  BY <2>1, <2>2, <2>3
<1>3. /\ x.ok \in BOOLEAN /\ x.count \in [Classes -> Nat] /\ x.class \in Classes \cup {None}
      /\ \A c \in Classes :
           /\ x.count[c] = Released(class_count, conns[i].class)[c] + Is1(c = x.class)
           /\ c = x.class /\ cap[c] > 0 => x.count[c] <= cap[c]
  BY <1>2, AssignForm DEF Lists
<1> HIDE DEF x
<1>4. y \in Conn /\ y.key = conns[i].key /\ y.relay = conns[i].relay /\ y.class = x.class  BY <1>2, <1>3 DEF Conn
<1> HIDE DEF y
<1>5. /\ conns' \in Seq(Conn) /\ Len(conns) = Len(conns') /\ conns'[i] = y
      /\ \A j \in 1..Len(conns) : j # i => conns'[j] = conns[j]
  BY <1>1, <1>2, <1>4, ExceptSeq DEF Lists
<1>6. \A T : HowMany(conns', T) = HowMany(conns, T) - One(conns[i], T) + One(y, T)
  BY <1>2, <1>5, HowManyReplaced DEF Lists
<1>7. Lists'  BY <1>1, <1>2, <1>3, <1>5 DEF Lists
<1>8. PerAddr'
  <2>1. \A b : One(conns[i], Keyed(b)) = One(y, Keyed(b)) /\ One(conns[i], Plain(b)) = One(y, Plain(b))
    BY <1>2, <1>4 DEF One, Keyed, Plain
  <2>2. \A b : HowMany(conns, Keyed(b)) \in Nat /\ HowMany(conns, Plain(b)) \in Nat  BY <1>2, HowManyType DEF Lists
  <2>3. \A T : One(y, T) \in Nat  BY DEF One
  <2>4. \A b : HowMany(conns', Keyed(b)) = HowMany(conns, Keyed(b))  BY <1>6, <2>1, <2>2, <2>3
  <2>5. \A b : HowMany(conns', Plain(b)) = HowMany(conns, Plain(b))  BY <1>6, <2>1, <2>2, <2>3
  <2> QED  BY <1>1, <1>2, <2>4, <2>5 DEF PerAddr
<1>9. ASSUME NEW c \in Classes
      PROVE  HowMany(conns', InClass(c)) <= class_count'[c] /\ (cap'[c] > 0 => class_count'[c] <= cap'[c])
  <2> DEFINE o == conns[i].class
  <2>1. /\ HowMany(conns, InClass(c)) \in Nat /\ class_count[c] \in Nat /\ cap[c] \in Nat
        /\ HowMany(conns, InClass(c)) <= class_count[c] /\ (cap[c] > 0 => class_count[c] <= cap[c])
    BY <1>2, HowManyType DEF Lists, PerClass
  <2>2. HowMany(conns', InClass(c)) = HowMany(conns, InClass(c)) - Is1(c = o) + Is1(c = x.class)
    <3>1. One(conns[i], InClass(c)) = Is1(c = o) /\ One(y, InClass(c)) = Is1(c = x.class)
      BY <1>2, <1>4 DEF One, InClass, Is1
    <3> QED  BY <1>6, <3>1
  <2>3. Released(class_count, o)[c] = IF c = o /\ class_count[c] > 0 THEN class_count[c] - 1 ELSE class_count[c]
    BY <1>2, ReleasedForm DEF Lists
  <2>4. class_count'[c] = Released(class_count, o)[c] + Is1(c = x.class)  BY <1>1, <1>3
  <2>5. c = o => HowMany(conns, InClass(c)) > 0
    <3>1. c = o => i \in Where(conns, InClass(c))  BY <1>2 DEF Where, InClass
    <3>2. IsFiniteSet(Where(conns, InClass(c)))  BY <1>2, HowManyType DEF Lists
    <3>3. Where(conns, InClass(c)) # {} => HowMany(conns, InClass(c)) # 0  BY <3>2, FS_EmptySet DEF HowMany
    <3> QED  BY <2>1, <3>1, <3>3
  <2>6. cap[c] > 0 /\ c = x.class => class_count'[c] <= cap[c]  BY <1>1, <1>3
  <2> HIDE DEF o
  <2>7. HowMany(conns', InClass(c)) <= class_count'[c]  BY <2>1, <2>2, <2>3, <2>4, <2>5 DEF Is1
  <2>8. cap[c] > 0 /\ c # x.class => class_count'[c] <= cap[c]  BY <2>1, <2>3, <2>4 DEF Is1
  <2> QED  BY <1>1, <2>6, <2>7, <2>8
<1> QED  BY <1>7, <1>8, <1>9 DEF ConnsOK, PerClass

\* unlink_connection gives back what was taken.
LEMMA CloseConns ==
    ASSUME ConnsOK, NEW i \in DOMAIN conns, Close(i)
    PROVE  ConnsOK'
<1> DEFINE k == conns[i].key
           o == conns[i].class
<1>1. /\ conns' = Without(conns, i) /\ n_clients' = n_clients - 1
      /\ ip_counts' = [ip_counts EXCEPT ![k] = IF @ > 0 THEN @ - 1 ELSE 0]
      /\ class_count' = Released(class_count, o) /\ cap' = cap
  BY DEF Close
<1>2. /\ Lists /\ PerAddr /\ PerClass /\ i \in 1..Len(conns) /\ conns[i] \in Conn
      /\ o \in Classes \cup {None} /\ k \in Addr
  <2>1. Lists /\ PerAddr /\ PerClass /\ conns \in Seq(Conn)  BY DEF ConnsOK, Lists
  <2>2. i \in 1..Len(conns) /\ conns[i] \in Conn  BY <2>1
  <2>3. o \in Classes \cup {None} /\ k \in Addr  BY <2>2 DEF Conn
  <2> QED  BY <2>1, <2>2, <2>3
<1>3. conns' \in Seq(Conn) /\ Len(conns') = Len(conns) - 1 /\ Len(conns) \in Nat
  BY <1>1, <1>2, WithoutForm DEF Lists
<1>4. \A T : HowMany(conns', T) = HowMany(conns, T) - One(conns[i], T)
  BY <1>1, <1>2, HowManyWithout DEF Lists
<1>5. /\ class_count' \in [Classes -> Nat]
      /\ \A c \in Classes : class_count'[c] = IF c = o /\ class_count[c] > 0 THEN class_count[c] - 1 ELSE class_count[c]
  BY <1>1, <1>2, ReleasedForm DEF Lists
<1>6. \A T : conns[i] \in T => HowMany(conns, T) > 0
  <2> TAKE T
  <2> HAVE conns[i] \in T
  <2>1. i \in Where(conns, T)  BY <1>2 DEF Where
  <2>2. IsFiniteSet(Where(conns, T)) /\ HowMany(conns, T) \in Nat  BY <1>2, HowManyType DEF Lists
  <2>3. HowMany(conns, T) # 0  BY <2>1, <2>2, FS_EmptySet DEF HowMany
  <2> QED  BY <2>2, <2>3
<1>7. ip_counts' \in [Addr -> Nat] /\ ip_counts'[k] = ip_counts[k] - 1 /\ \A b \in Addr \ {k} : ip_counts'[b] = ip_counts[b]
  <2>1. conns[i] \in Keyed(k)  BY <1>2 DEF Keyed
  <2>2. ip_counts[k] \in Nat /\ ip_counts[k] > 0  BY <1>2, <1>6, <2>1 DEF Lists, PerAddr
  <2>3. ip_counts' = [ip_counts EXCEPT ![k] = ip_counts[k] - 1]  BY <1>1, <2>2
  <2>4. ip_counts[k] - 1 \in Nat  BY <2>2
  <2> QED  BY <1>2, <2>3, <2>4 DEF Lists
<1>8. Lists'
  <2>1. n_clients' = Len(conns')  BY <1>1, <1>2, <1>3 DEF Lists
  <2>2. max_connections > 0 => n_clients' <= max_connections  BY <1>1, <1>2, <1>3, Consts DEF Lists
  <2> QED  BY <1>1, <1>2, <1>3, <1>5, <1>7, <2>1, <2>2 DEF Lists
<1>9. ASSUME NEW b \in Addr
      PROVE  /\ ip_counts'[b] = HowMany(conns', Keyed(b))
             /\ PerIp(ClassOf[b]) > 0 => HowMany(conns', Plain(b)) <= PerIp(ClassOf[b])
  <2>1. /\ ip_counts[b] = HowMany(conns, Keyed(b))
        /\ PerIp(ClassOf[b]) > 0 => HowMany(conns, Plain(b)) <= PerIp(ClassOf[b])
    BY <1>2 DEF PerAddr
  <2>2. HowMany(conns, Plain(b)) \in Nat /\ HowMany(conns, Keyed(b)) \in Nat /\ PerIp(ClassOf[b]) \in Nat
    BY <1>2, HowManyType, PerIpType DEF Lists
  <2>3. HowMany(conns', Keyed(b)) = HowMany(conns, Keyed(b)) - One(conns[i], Keyed(b))  BY <1>4
  <2>4. HowMany(conns', Plain(b)) = HowMany(conns, Plain(b)) - One(conns[i], Plain(b))  BY <1>4
  <2>5. One(conns[i], Keyed(b)) = IF b = k THEN 1 ELSE 0  BY <1>2 DEF One, Keyed
  <2>6. One(conns[i], Plain(b)) \in {0, 1}  BY DEF One
  <2> HIDE DEF k
  <2>7. ip_counts'[b] = IF b = k THEN ip_counts[b] - 1 ELSE ip_counts[b]  BY <1>7
  <2> QED  BY <2>1, <2>2, <2>3, <2>4, <2>5, <2>6, <2>7
<1>10. ASSUME NEW c \in Classes
       PROVE  HowMany(conns', InClass(c)) <= class_count'[c] /\ (cap'[c] > 0 => class_count'[c] <= cap'[c])
  <2>1. /\ HowMany(conns, InClass(c)) \in Nat /\ class_count[c] \in Nat /\ cap[c] \in Nat
        /\ HowMany(conns, InClass(c)) <= class_count[c] /\ (cap[c] > 0 => class_count[c] <= cap[c])
    BY <1>2, HowManyType DEF Lists, PerClass
  <2>2. HowMany(conns', InClass(c)) = HowMany(conns, InClass(c)) - One(conns[i], InClass(c))  BY <1>4
  <2>3. One(conns[i], InClass(c)) = IF c = o THEN 1 ELSE 0  BY <1>2 DEF One, InClass
  <2>4. c = o => HowMany(conns, InClass(c)) > 0  BY <1>2, <1>6 DEF InClass
  <2> HIDE DEF o
  <2> QED  BY <1>1, <1>5, <2>1, <2>2, <2>3, <2>4
<1> QED  BY <1>8, <1>9, <1>10 DEF ConnsOK, PerAddr, PerClass

\* server_rehash: the classes are counted anew under the new limits.
LEMMA RehashConns ==
    ASSUME ConnsOK, NEW caps \in Caps, Rehash(caps)
    PROVE  ConnsOK'
<1> DEFINE p == Reclassed(caps)
<1>1. cap' = caps /\ class_count' = p.count /\ conns' = p.list /\ UNCHANGED <<n_clients, ip_counts>>
  BY DEF Rehash
<1>2. Lists /\ PerAddr /\ caps \in [Classes -> Nat]  BY Consts DEF ConnsOK
<1>3. Walked(caps, conns, Len(conns), p)  BY <1>2, ReclassedForm DEF Lists
<1> HIDE DEF p
<1>4. /\ conns' \in Seq(Conn) /\ Len(conns) = Len(conns')
      /\ \A j \in 1..Len(conns) : conns'[j].key = conns[j].key /\ conns'[j].relay = conns[j].relay
  BY <1>1, <1>3 DEF Walked
<1>5. \A i \in 1..Len(conns) : conns[i] \in Conn /\ conns'[i] \in Conn  BY <1>2, <1>4 DEF Lists
<1>6. \A b : HowMany(conns, Keyed(b)) = HowMany(conns', Keyed(b))  BY <1>4, <1>5, HowManySame DEF Keyed
<1>7. \A b : HowMany(conns, Plain(b)) = HowMany(conns', Plain(b))  BY <1>4, <1>5, HowManySame DEF Plain
<1>8. Lists'  BY <1>1, <1>2, <1>3, <1>4 DEF Lists, Walked
<1>9. PerAddr'  BY <1>1, <1>2, <1>6, <1>7 DEF PerAddr
<1>10. PerClass'
  <2>1. \A c \in Classes : class_count'[c] = HowMany(conns', InClass(c)) /\ (cap'[c] > 0 => class_count'[c] <= cap'[c])
    BY <1>1, <1>3 DEF Walked
  <2>2. \A c \in Classes : class_count'[c] \in Nat  BY <1>1, <1>3 DEF Walked
  <2> QED  BY <2>1, <2>2 DEF PerClass
<1> QED  BY <1>8, <1>9, <1>10 DEF ConnsOK

(***************************************************************************)
(* The probes in flight.                                                   *)
(***************************************************************************)
InFlight(f) == {p \in Addr \X (1..Probes) : p[2] <= f[p[1]]}
ScansOK == scans \in [Addr -> 0..Probes] /\ Cardinality(InFlight(scans)) <= scan_max_concurrent

LEMMA InFlightFinite == \A f : IsFiniteSet(InFlight(f)) /\ Cardinality(InFlight(f)) \in Nat
<1> TAKE f
<1>1. IsFiniteSet(1..Probes)  BY Consts, FS_Interval
<1>2. IsFiniteSet(Addr \X (1..Probes))  BY <1>1, Consts, FS_Product
<1>3. InFlight(f) \in SUBSET (Addr \X (1..Probes))  BY DEF InFlight
<1> QED  BY <1>2, <1>3, FS_Subset, FS_CardinalityType

LEMMA InFlightFewer ==
    ASSUME NEW f \in [Addr -> 0..Probes], NEW g \in [Addr -> 0..Probes], \A a \in Addr : g[a] <= f[a]
    PROVE  Cardinality(InFlight(g)) <= Cardinality(InFlight(f))
<1>1. ASSUME NEW p \in InFlight(g)  PROVE p \in InFlight(f)
  <2>1. p \in Addr \X (1..Probes) /\ p[2] <= g[p[1]]  BY DEF InFlight
  <2>2. p[1] \in Addr /\ p[2] \in Int  BY <2>1
  <2>3. g[p[1]] <= f[p[1]] /\ g[p[1]] \in Int /\ f[p[1]] \in Int  BY <2>2, Consts
  <2>4. p[2] <= f[p[1]]  BY <2>1, <2>2, <2>3
  <2> QED  BY <2>1, <2>4 DEF InFlight
<1>2. InFlight(g) \in SUBSET InFlight(f)  BY <1>1
<1> QED  BY <1>2, InFlightFinite, FS_Subset

LEMMA InFlightStarted ==
    ASSUME NEW f \in [Addr -> 0..Probes], NEW a \in Addr, f[a] = 0
    PROVE  Cardinality(InFlight([f EXCEPT ![a] = Probes])) <= Cardinality(InFlight(f)) + Probes
<1> DEFINE g == [f EXCEPT ![a] = Probes]
           new == {a} \X (1..Probes)
<1>1. IsFiniteSet(1..Probes) /\ Cardinality(1..Probes) = Probes  BY Consts, FS_Interval
<1>2. IsFiniteSet({a}) /\ Cardinality({a}) = 1  BY FS_Singleton
<1>3. IsFiniteSet(new) /\ Cardinality(new) = Probes
  <2>1. IsFiniteSet(new) /\ Cardinality(new) = Cardinality({a}) * Cardinality(1..Probes)
    BY <1>1, <1>2, FS_Product, Zenon
  <2>2. Cardinality(new) = 1 * Probes  BY <1>1, <1>2, <2>1, Zenon
  <2> QED  BY <2>1, <2>2, Consts
<1>4. ASSUME NEW p \in InFlight(g)  PROVE p \in InFlight(f) \cup new
  <2>1. p \in Addr \X (1..Probes) /\ p[2] <= g[p[1]]  BY DEF InFlight
  <2>2. CASE p[1] = a  BY <2>1, <2>2
  <2>3. CASE p[1] # a
    <3>1. g[p[1]] = f[p[1]]  BY <2>1, <2>3
    <3> QED  BY <2>1, <3>1 DEF InFlight
  <2> QED  BY <2>2, <2>3
<1> HIDE DEF g, new
<1>5. InFlight(g) \in SUBSET (InFlight(f) \cup new)  BY <1>4
<1>6. /\ IsFiniteSet(InFlight(f) \cup new) /\ Cardinality(InFlight(f) \cup new) \in Nat
      /\ Cardinality(InFlight(f) \cup new) <= Cardinality(InFlight(f)) + Probes
  <2>1. IsFiniteSet(InFlight(f)) /\ Cardinality(InFlight(f)) \in Nat  BY InFlightFinite
  <2>2. /\ IsFiniteSet(InFlight(f) \cup new)
        /\ Cardinality(InFlight(f) \cup new) = Cardinality(InFlight(f)) + Cardinality(new) - Cardinality(InFlight(f) \cap new)
    BY <2>1, <1>3, FS_Union
  <2>3. InFlight(f) \cap new \in SUBSET new  OBVIOUS
  <2>4. Cardinality(InFlight(f) \cap new) \in Nat  BY <1>3, <2>3, FS_Subset, FS_CardinalityType
  <2>5. Cardinality(InFlight(f) \cup new) \in Nat  BY <2>2, FS_CardinalityType
  <2> QED  BY <1>3, <2>1, <2>2, <2>4, <2>5, Consts
<1>7. Cardinality(InFlight(g)) \in Nat /\ Cardinality(InFlight(g)) <= Cardinality(InFlight(f) \cup new)
  BY <1>5, <1>6, InFlightFinite, FS_Subset
<1>8. Cardinality(InFlight(g)) <= Cardinality(InFlight(f)) + Probes  BY <1>6, <1>7, InFlightFinite, Consts
<1> QED  BY <1>8 DEF g

LEMMA ScansCount == n_scans = Cardinality(InFlight(scans))
  BY DEF n_scans, InFlight

LEMMA InitScans == Init => ScansOK
<1> SUFFICES ASSUME Init PROVE ScansOK  OBVIOUS
<1>1. scans = [a \in Addr |-> 0]  BY DEF Init
<1>2. scans \in [Addr -> 0..Probes]  BY <1>1, Consts
<1>3. ASSUME NEW p \in InFlight(scans)  PROVE FALSE
  <2>1. p \in Addr \X (1..Probes) /\ p[2] <= scans[p[1]]  BY DEF InFlight
  <2> QED  BY <1>1, <2>1
<1>4. InFlight(scans) = {}  BY <1>3
<1> QED  BY <1>2, <1>4, FS_EmptySet, Consts DEF ScansOK

\* protection_scan_start: the new ones are counted before they are started.
LEMMA AdmitScans ==
    ASSUME ScansOK, NEW a \in Addr, Admit(a)
    PROVE  ScansOK'
<1>1. CASE Scans(a)
  <2>1. scans' = [scans EXCEPT ![a] = Probes]  BY <1>1 DEF Admit
  <2>2. scans[a] = 0 /\ Cardinality(InFlight(scans)) + Probes <= scan_max_concurrent  BY <1>1, ScansCount DEF Scans
  <2>3. Cardinality(InFlight(scans')) <= Cardinality(InFlight(scans)) + Probes
    BY <2>1, <2>2, InFlightStarted DEF ScansOK
  <2>4. Cardinality(InFlight(scans')) <= scan_max_concurrent  BY <2>2, <2>3, InFlightFinite, Consts
  <2>5. scans' \in [Addr -> 0..Probes]  BY <2>1, Consts DEF ScansOK
  <2> QED  BY <2>4, <2>5 DEF ScansOK, InFlight
<1>2. CASE ~Scans(a)
  <2>1. scans' = scans  BY <1>2 DEF Admit
  <2> QED  BY <2>1 DEF ScansOK, InFlight
<1> QED  BY <1>1, <1>2

\* A probe that ends, with or without a hit.
LEMMA ProbeScans ==
    ASSUME ScansOK, NEW a \in Addr, ProbeClean(a) \/ ProbeHit(a)
    PROVE  ScansOK'
<1>1. scans[a] \in 0..Probes /\ scans[a] > 0  BY DEF ScansOK, ProbeClean, ProbeHit
<1>2. scans' = [scans EXCEPT ![a] = scans[a] - 1] \/ scans' = [scans EXCEPT ![a] = 0]
  BY DEF ProbeClean, ProbeHit
<1>3. scans[a] - 1 \in 0..Probes /\ 0 \in 0..Probes /\ scans[a] - 1 <= scans[a] /\ 0 <= scans[a]  BY <1>1, Consts
<1>4. scans \in [Addr -> 0..Probes] /\ \A b \in Addr : scans[b] <= scans[b]  BY Consts DEF ScansOK
<1>5. scans' \in [Addr -> 0..Probes]  BY <1>2, <1>3, <1>4
<1>6. \A b \in Addr : scans'[b] <= scans[b]  BY <1>2, <1>3, <1>4
<1>7. Cardinality(InFlight(scans')) <= Cardinality(InFlight(scans))  BY <1>4, <1>5, <1>6, InFlightFewer
<1>8. Cardinality(InFlight(scans')) <= scan_max_concurrent  BY <1>7, InFlightFinite, Consts DEF ScansOK
<1> QED  BY <1>5, <1>8 DEF ScansOK, InFlight

(***************************************************************************)
(* The connect-flood table: one slot for an address, that holds what its   *)
(* counter does; an address whose slot was taken was outrun.               *)
(***************************************************************************)
FloodOK ==
    /\ tracks \in [1..FloodSlots -> Track] /\ seen \in [Addr -> Track] /\ now \in Nat
    /\ \A a \in Addr : seen[a].ip \in {None, a} /\ seen[a].start <= now
    /\ \A i, j \in 1..FloodSlots : tracks[i].ip = tracks[j].ip /\ tracks[i].ip # None => i = j
    /\ \A i \in 1..FloodSlots : tracks[i].ip # None => tracks[i] = seen[tracks[i].ip]
    /\ \A a \in Addr : seen[a].ip = a => Entered(a) \/ Cardinality(Outrun(a)) >= FloodSlots

LEMMA Least == ASSUME NEW T \in SUBSET Nat, T # {} PROVE \E x \in T : \A y \in T : x <= y
<1>1. PICK x \in T : \A y \in T : ~(<<y, x>> \in OpToRel(<, Nat))  BY NatLessThanWellFounded, WFMin
<1>2. ASSUME NEW y \in T  PROVE x <= y
  <2>1. x \in Nat /\ y \in Nat  OBVIOUS
  <2>2. y < x => <<y, x>> \in OpToRel(<, Nat)  BY <2>1 DEF OpToRel
  <2>3. ~(y < x)  BY <1>1, <2>2
  <2> QED  BY <2>1, <2>3
<1> QED  BY <1>2

\* Of the slots of a full table there is a first one among those whose window began first.
LEMMA OldestSlot ==
    ASSUME FloodOK
    PROVE  \E i \in 1..FloodSlots : \A j \in (1..FloodSlots) \ {i} : Older(i, j)
<1> DEFINE starts == {tracks[i].start : i \in 1..FloodSlots}
<1>1. \A i \in 1..FloodSlots : tracks[i].start \in Nat  BY DEF FloodOK, Track
<1>2. 1 \in 1..FloodSlots  BY Consts
<1>3. PICK x \in starts : \A y \in starts : x <= y  BY <1>1, <1>2, Least
<1> DEFINE them == {i \in 1..FloodSlots : tracks[i].start = x}
<1>4. them \in SUBSET Nat /\ them # {}  BY <1>3
<1>5. PICK i \in them : \A j \in them : i <= j  BY <1>4, Least
<1>6. ASSUME NEW j \in (1..FloodSlots) \ {i}  PROVE Older(i, j)
  <2>1. tracks[i].start = x /\ x <= tracks[j].start /\ x \in Nat /\ tracks[j].start \in Nat  BY <1>1, <1>3, <1>5
  <2>2. CASE tracks[j].start = x
    <3>1. i <= j /\ i # j /\ i \in Nat /\ j \in Nat  BY <1>4, <1>5, <1>6, <2>2
    <3> QED  BY <2>1, <2>2, <3>1 DEF Older
  <2>3. CASE tracks[j].start # x  BY <2>1, <2>3 DEF Older
  <2> QED  BY <2>2, <2>3
<1> QED  BY <1>5, <1>6

\* The slot of an address, or else an empty one, or else, in a full table, one whose window began first.
LEMMA SlotForm ==
    ASSUME FloodOK, NEW a \in Addr
    PROVE  /\ SlotFor(a) \in 1..FloodSlots
           /\ IF Entered(a) THEN tracks[SlotFor(a)].ip = a
              ELSE \/ tracks[SlotFor(a)].ip = None
                   \/ \A j \in 1..FloodSlots : tracks[j].ip # None /\ tracks[SlotFor(a)].start <= tracks[j].start
<1> DEFINE mine == {i \in 1..FloodSlots : tracks[i].ip = a}
           free == {i \in 1..FloodSlots : tracks[i].ip = None}
<1>1. DOMAIN tracks = 1..FloodSlots  BY DEF FloodOK
<1>2. CASE mine # {}
  <2>1. SlotFor(a) = CHOOSE i \in mine : TRUE  BY <1>1, <1>2 DEF SlotFor
  <2>2. SlotFor(a) \in mine  BY <1>2, <2>1
  <2> QED  BY <1>1, <2>2 DEF Entered
<1>3. CASE mine = {} /\ free # {}
  <2>1. SlotFor(a) = CHOOSE i \in free : \A j \in free : i <= j  BY <1>1, <1>3 DEF SlotFor
  <2>2. free \in SUBSET Nat  OBVIOUS
  <2>3. \E i \in free : \A j \in free : i <= j  BY <1>3, <2>2, Least
  <2>4. SlotFor(a) \in free  BY <2>1, <2>3
  <2> QED  BY <1>1, <1>3, <2>4 DEF Entered
<1>4. CASE mine = {} /\ free = {}
  <2>1. SlotFor(a) = CHOOSE i \in 1..FloodSlots : \A j \in (1..FloodSlots) \ {i} : Older(i, j)
    BY <1>1, <1>4 DEF SlotFor
  <2>2. SlotFor(a) \in 1..FloodSlots /\ \A j \in (1..FloodSlots) \ {SlotFor(a)} : Older(SlotFor(a), j)
    BY <2>1, OldestSlot
  <2>3. \A i \in 1..FloodSlots : tracks[i].start \in Nat  BY DEF FloodOK, Track
  <2>4. \A j \in 1..FloodSlots : tracks[SlotFor(a)].start <= tracks[j].start  BY <2>2, <2>3 DEF Older
  <2> QED  BY <1>1, <1>4, <2>2, <2>4 DEF Entered
<1> QED  BY <1>2, <1>3, <1>4

LEMMA CountForm ==
    ASSUME NEW t \in Track, NEW a \in Addr, now \in Nat
    PROVE  Count(t, a) \in Track /\ Count(t, a).ip = a
<1>1. CASE t.ip # a \/ now - t.start > connect_flood_window
  <2>1. Count(t, a) = [ip |-> a, start |-> now, count |-> 1]  BY <1>1 DEF Count
  <2> QED  BY <2>1 DEF Track
<1>2. CASE ~(t.ip # a \/ now - t.start > connect_flood_window)
  <2>1. Count(t, a) = [t EXCEPT !.count = t.count + 1]  BY <1>2 DEF Count
  <2>2. t.count + 1 \in Nat /\ t.ip = a  BY <1>2 DEF Track
  <2> QED  BY <2>1, <2>2 DEF Track
<1> QED  BY <1>1, <1>2

LEMMA InitFlood == Init => FloodOK
<1> SUFFICES ASSUME Init PROVE FloodOK  OBVIOUS
<1>1. Empty \in Track /\ Empty.ip = None /\ Empty.start = 0  BY DEF Empty, Track
<1>2. tracks = [i \in 1..FloodSlots |-> Empty] /\ seen = [a \in Addr |-> Empty] /\ now = 0  BY DEF Init
<1> HIDE DEF Empty
<1> QED  BY <1>1, <1>2, Consts DEF FloodOK

LEMMA OutrunFinite == ASSUME NEW a \in Addr PROVE IsFiniteSet(Outrun(a)) /\ Cardinality(Outrun(a)) \in Nat
<1>1. Outrun(a) \in SUBSET Addr  BY DEF Outrun
<1> QED  BY <1>1, Consts, FS_Subset, FS_CardinalityType

\* A full table of which no slot began before the window of an address, and whose own slot another
\* address takes now: with that one, as many began since as there are slots.
LEMMA TakenOutran ==
    ASSUME FloodOK, NEW a \in Addr, NEW b \in Addr, a # b, NEW s \in 1..FloodSlots, tracks[s].ip = b, ~Entered(a),
           \A j \in 1..FloodSlots : tracks[j].ip # None /\ tracks[s].start <= tracks[j].start,
           NEW T, IsFiniteSet(T), a \in T,
           \A x \in Addr \ {a, b} : seen[x].ip = x /\ seen[x].start >= seen[b].start => x \in T
    PROVE  Cardinality(T) >= FloodSlots
<1> DEFINE f == [i \in 1..FloodSlots |-> IF i = s THEN a ELSE tracks[i].ip]
<1>1. \A i \in 1..FloodSlots : tracks[i] \in Track /\ tracks[i].ip \in Addr \ {a} /\ tracks[i] = seen[tracks[i].ip]
  BY DEF FloodOK, Track, Entered
<1>2. ASSUME NEW i \in 1..FloodSlots  PROVE f[i] \in T
  <2>1. CASE i = s  BY <2>1
  <2>2. CASE i # s
    <3>1. tracks[i].ip # b  BY <1>1, <2>2, Consts DEF FloodOK
    <3>2. seen[tracks[i].ip].ip = tracks[i].ip /\ seen[tracks[i].ip].start >= seen[b].start
      <4>1. tracks[s] = seen[b]  BY <1>1
      <4>2. tracks[i].start \in Nat /\ tracks[s].start \in Nat  BY <1>1 DEF Track
      <4> QED  BY <1>1, <4>1, <4>2
    <3> QED  BY <1>1, <2>2, <3>1, <3>2
  <2> QED  BY <2>1, <2>2
<1>3. \A i, j \in 1..FloodSlots : f[i] = f[j] => i = j  BY <1>1 DEF FloodOK
<1>4. f \in Injection(1..FloodSlots, T)  BY <1>2, <1>3 DEF Injection, IsInjective
<1>5. Cardinality(1..FloodSlots) <= Cardinality(T)
  <2> HIDE DEF f
  <2> QED  BY <1>4, FS_Injection
<1>6. Cardinality(1..FloodSlots) = FloodSlots  BY Consts, FS_Interval
<1>7. Cardinality(T) \in Nat  BY FS_CardinalityType
<1> QED  BY <1>5, <1>6, <1>7, Consts

\* net_connect_flood_hit, on the table and on the counter of the address.
LEMMA HitFlood ==
    ASSUME FloodOK, NEW a \in Addr, tracks' = Tracked(a), seen' = Counter(a), now' = now
    PROVE  FloodOK'
<1> DEFINE s == SlotFor(a)
           t == Count(tracks[s], a)
<1>1. /\ tracks \in [1..FloodSlots -> Track] /\ seen \in [Addr -> Track] /\ now \in Nat
      /\ s \in 1..FloodSlots /\ tracks[s] \in Track /\ seen[a] \in Track /\ DOMAIN tracks = 1..FloodSlots
  BY SlotForm DEF FloodOK
<1>2. t \in Track /\ t.ip = a  BY <1>1, CountForm
<1>3. t = IF Entered(a) THEN Count(seen[a], a) ELSE [ip |-> a, start |-> now, count |-> 1]
  <2>1. CASE Entered(a)
    <3>1. tracks[s].ip = a /\ a # None  BY <2>1, SlotForm, Consts
    <3>2. tracks[s] = seen[a]  BY <1>1, <3>1 DEF FloodOK
    <3> QED  BY <2>1, <3>2
  <2>2. CASE ~Entered(a)
    <3>1. tracks[s].ip # a  BY <1>1, <2>2 DEF Entered
    <3> QED  BY <2>2, <3>1 DEF Count
  <2> QED  BY <2>1, <2>2
<1>4. tracks' = [tracks EXCEPT ![s] = t] /\ seen' = [seen EXCEPT ![a] = t]  BY <1>3 DEF Tracked, Counter
<1>5. t.start <= now /\ (seen[a].ip = a => t.start >= seen[a].start)
  <2>1. seen[a].start <= now /\ seen[a].start \in Nat  BY <1>1 DEF FloodOK, Track
  <2>2. t = [ip |-> a, start |-> now, count |-> 1] \/ t = [seen[a] EXCEPT !.count = @ + 1]  BY <1>3 DEF Count
  <2>3. CASE t = [ip |-> a, start |-> now, count |-> 1]  BY <1>1, <2>1, <2>3
  <2>4. CASE t = [seen[a] EXCEPT !.count = @ + 1]
    <3>1. t.start = seen[a].start  BY <1>1, <2>4 DEF Track
    <3> QED  BY <2>1, <3>1
  <2> QED  BY <2>2, <2>3, <2>4
<1>6. \A i \in 1..FloodSlots : tracks[i].ip = a => i = s
  <2> TAKE i \in 1..FloodSlots
  <2> HAVE tracks[i].ip = a
  <2>1. tracks[s].ip = a  BY <1>1, SlotForm DEF Entered
  <2> QED  BY <1>1, <2>1, Consts DEF FloodOK
<1>7. ~Entered(a) => t.start = now  BY <1>3
<1>8. \/ tracks[s].ip \in {None, a}
      \/ ~Entered(a) /\ \A j \in 1..FloodSlots : tracks[j].ip # None /\ tracks[s].start <= tracks[j].start
  BY SlotForm
<1> HIDE DEF s, t
<1>9. /\ tracks'[s] = t /\ \A i \in 1..FloodSlots : i # s => tracks'[i] = tracks[i] /\ tracks[i].ip # a
      /\ seen'[a] = t /\ \A b \in Addr : b # a => seen'[b] = seen[b]
  BY <1>1, <1>4, <1>6
<1>10. tracks' \in [1..FloodSlots -> Track] /\ seen' \in [Addr -> Track] /\ now' \in Nat /\ DOMAIN tracks' = 1..FloodSlots
  BY <1>1, <1>2, <1>4
<1>11. ASSUME NEW b \in Addr  PROVE seen'[b].ip \in {None, b} /\ seen'[b].start <= now'
  BY <1>2, <1>5, <1>9 DEF FloodOK
<1>12. ASSUME NEW i \in 1..FloodSlots, NEW j \in 1..FloodSlots, tracks'[i].ip = tracks'[j].ip, tracks'[i].ip # None
       PROVE  i = j
  BY <1>2, <1>9, <1>12 DEF FloodOK
<1>13. ASSUME NEW i \in 1..FloodSlots, tracks'[i].ip # None  PROVE tracks'[i] = seen'[tracks'[i].ip]
  <2>1. CASE i = s  BY <1>2, <1>9, <2>1
  <2>2. CASE i # s
    <3>1. tracks'[i] = tracks[i] /\ tracks[i].ip # a  BY <1>9, <2>2
    <3>2. tracks[i] \in Track  BY <1>1
    <3>3. tracks[i].ip \in Addr  BY <1>13, <3>1, <3>2 DEF Track
    <3>4. tracks[i] = seen[tracks[i].ip]  BY <1>13, <3>1 DEF FloodOK
    <3> QED  BY <1>9, <3>1, <3>3, <3>4
  <2> QED  BY <2>1, <2>2
<1>14. ASSUME NEW b \in Addr, seen'[b].ip = b, b # a, Cardinality(Outrun(b)) >= FloodSlots
       PROVE  Cardinality(Outrun(b)') >= FloodSlots
  <2>1. Outrun(b) \subseteq Outrun(b)'
    <3> SUFFICES ASSUME NEW x \in Outrun(b) PROVE x \in Outrun(b)'  OBVIOUS
    <3>1. x \in Addr \ {b} /\ seen[x].ip = x /\ seen[x].start >= seen[b].start /\ seen'[b] = seen[b]  BY <1>9, <1>14 DEF Outrun
    <3>2. CASE x # a  BY <1>9, <3>1, <3>2 DEF Outrun
    <3>3. CASE x = a
      <4>1. t.start \in Nat /\ seen[a].start \in Nat /\ seen[b].start \in Nat  BY <1>1, <1>2 DEF Track
      <4>2. t.start >= seen[b].start  BY <1>5, <3>1, <3>3, <4>1
      <4> QED  BY <1>2, <1>9, <3>1, <3>3, <4>2 DEF Outrun
    <3> QED  BY <3>2, <3>3
  <2>2. Outrun(b)' \in SUBSET Addr  BY DEF Outrun
  <2>3. IsFiniteSet(Outrun(b)') /\ Cardinality(Outrun(b)') \in Nat  BY <2>2, Consts, FS_Subset, FS_CardinalityType
  <2>4. Cardinality(Outrun(b)) <= Cardinality(Outrun(b)') /\ Cardinality(Outrun(b)) \in Nat
    BY <2>1, <2>3, FS_Subset, OutrunFinite
  <2> QED  BY <1>14, <2>3, <2>4, Consts
<1>15. ASSUME NEW b \in Addr, seen'[b].ip = b  PROVE Entered(b)' \/ Cardinality(Outrun(b)') >= FloodSlots
  <2>1. CASE b = a  BY <1>1, <1>2, <1>9, <1>10, <2>1 DEF Entered
  <2>2. CASE b # a
    <3>1. seen[b].ip = b /\ seen'[b] = seen[b] /\ b # None  BY <1>9, <1>15, <2>2, Consts
    <3>2. CASE Cardinality(Outrun(b)) >= FloodSlots  BY <1>14, <1>15, <2>2, <3>2
    <3>3. CASE \E i \in 1..FloodSlots : tracks[i].ip = b /\ i # s  BY <1>9, <1>10, <3>3 DEF Entered
    <3>4. CASE tracks[s].ip = b
      <4>1. ~Entered(a) /\ \A j \in 1..FloodSlots : tracks[j].ip # None /\ tracks[s].start <= tracks[j].start
        BY <1>8, <2>2, <3>1, <3>4
      <4>2. Outrun(b)' \in SUBSET Addr  BY DEF Outrun
      <4>3. IsFiniteSet(Outrun(b)')  BY <4>2, Consts, FS_Subset
      <4>4. a \in Outrun(b)'
        <5>1. seen[b].start <= now  BY DEF FloodOK
        <5>2. seen'[a].start >= seen'[b].start  BY <1>1, <1>7, <1>9, <2>2, <4>1, <5>1 DEF Track
        <5> QED  BY <1>2, <1>9, <2>2, <5>2 DEF Outrun
      <4>5. \A x \in Addr \ {a, b} : seen[x].ip = x /\ seen[x].start >= seen[b].start => x \in Outrun(b)'
        BY <1>9, <3>1 DEF Outrun
      <4> QED  BY <1>1, <2>2, <3>4, <4>1, <4>3, <4>4, <4>5, TakenOutran
    <3>5. Entered(b) \/ Cardinality(Outrun(b)) >= FloodSlots  BY <3>1 DEF FloodOK
    <3> QED  BY <1>1, <3>2, <3>3, <3>4, <3>5 DEF Entered
  <2> QED  BY <2>1, <2>2
<1> QED  BY <1>10, <1>11, <1>12, <1>13, <1>15 DEF FloodOK

LEMMA FloodShows == FloodOK => FloodCounted
<1> SUFFICES ASSUME FloodOK, NEW a \in Addr, seen[a].ip = a, ~(Cardinality(Outrun(a)) >= FloodSlots)
             PROVE  \E i \in DOMAIN tracks : tracks[i] = seen[a]
  BY DEF FloodCounted
<1>1. PICK i \in DOMAIN tracks : tracks[i].ip = a  BY DEF FloodOK, Entered
<1>2. tracks[i] = seen[a]  BY <1>1, Consts DEF FloodOK
<1> QED  BY <1>2

(***************************************************************************)
(* Every step.                                                             *)
(***************************************************************************)
LEMMA ConnsStay == ASSUME ConnsOK, UNCHANGED <<conns, counts, cap>> PROVE ConnsOK'
<1>1. /\ conns' = conns /\ cap' = cap /\ n_clients' = n_clients /\ ip_counts' = ip_counts /\ class_count' = class_count
  BY DEF counts
<1> QED  BY <1>1 DEF ConnsOK, Lists, PerAddr, PerClass

LEMMA ScansStay == ASSUME ScansOK, scans' = scans PROVE ScansOK'
  BY DEF ScansOK, InFlight

LEMMA FloodStay == ASSUME FloodOK, UNCHANGED <<tracks, seen>>, now' \in {now, now + 1} PROVE FloodOK'
<1>1. now' \in Nat /\ now' >= now /\ now \in Nat  BY DEF FloodOK
<1>2. \A a \in Addr : seen[a].start \in Nat  BY DEF FloodOK, Track
<1>3. \A a \in Addr : seen'[a].start <= now'  BY <1>1, <1>2 DEF FloodOK
<1> QED  BY <1>1, <1>3 DEF FloodOK, Entered, Outrun

LEMMA PassFlood == ASSUME FloodOK, NEW a \in Addr, Passed(a), now' = now PROVE FloodOK'
<1>1. now' \in {now, now + 1}  OBVIOUS
<1>2. CASE Related(a) \/ connect_flood_max = 0  BY <1>1, <1>2, FloodStay DEF Passed
<1>3. CASE ~(Related(a) \/ connect_flood_max = 0)  BY <1>3, HitFlood DEF Passed
<1> QED  BY <1>2, <1>3

\* Disconnecting marks, and frees nothing before the end of the pass.
LEMMA EnforcedConns ==
    ASSUME ConnsOK, NEW a, conns' = Enforced(a), UNCHANGED <<counts, cap>>
    PROVE  ConnsOK'
<1>1. conns \in Seq(Conn)  BY DEF ConnsOK, Lists
<1>2. DOMAIN conns = 1..Len(conns) /\ Len(conns) \in Nat /\ \A i \in 1..Len(conns) : conns[i] \in Conn  BY <1>1
<1> DEFINE e(i) == IF conns[i].ip = a THEN [conns[i] EXCEPT !.quit = TRUE] ELSE conns[i]
<1>3. \A i \in 1..Len(conns) : /\ e(i) \in Conn /\ e(i).key = conns[i].key
                               /\ e(i).relay = conns[i].relay /\ e(i).class = conns[i].class
  BY <1>2 DEF Conn
<1>4. conns' = [i \in 1..Len(conns) |-> e(i)]  BY <1>2 DEF Enforced
<1> HIDE DEF e
<1>5. conns' \in [1..Len(conns) -> Conn]  BY <1>3, <1>4
<1>6. conns' \in Seq(Conn) /\ Len(conns') = Len(conns)  BY <1>2, <1>5
<1>7. \A i \in 1..Len(conns) : conns'[i] = e(i)  BY <1>4
<1> QED  BY <1>3, <1>6, <1>7, MarksChange

LEMMA LeaveConns ==
    ASSUME ConnsOK, NEW i \in DOMAIN conns, Leave(i)
    PROVE  ConnsOK'
<1> DEFINE y == [conns[i] EXCEPT !.quit = TRUE]
<1>1. conns \in Seq(Conn)  BY DEF ConnsOK, Lists
<1>2. i \in 1..Len(conns) /\ conns[i] \in Conn  BY <1>1
<1>3. y \in Conn /\ y.key = conns[i].key /\ y.relay = conns[i].relay /\ y.class = conns[i].class  BY <1>2 DEF Conn
<1>4. conns' = [conns EXCEPT ![i] = y] /\ UNCHANGED <<counts, cap>>  BY DEF Leave
<1> HIDE DEF y
<1>5. /\ conns' \in Seq(Conn) /\ Len(conns') = Len(conns) /\ conns'[i] = y
      /\ \A j \in 1..Len(conns) : j # i => conns'[j] = conns[j]
  BY <1>1, <1>2, <1>3, <1>4, ExceptSeq
<1>6. \A j \in 1..Len(conns) : /\ conns'[j].key = conns[j].key /\ conns'[j].relay = conns[j].relay
                               /\ conns'[j].class = conns[j].class
  BY <1>3, <1>5
<1> QED  BY <1>4, <1>5, <1>6, MarksChange

Inv == ConnsOK /\ ScansOK /\ FloodOK

LEMMA InitInv == Init => Inv
  BY InitConns, InitScans, InitFlood DEF Inv

LEMMA StepInv == Inv /\ [Next]_vars => Inv'
<1> SUFFICES ASSUME ConnsOK, ScansOK, FloodOK, [Next]_vars PROVE ConnsOK' /\ ScansOK' /\ FloodOK'
  BY DEF Inv
<1>1. ASSUME NEW a \in Addr, RefuseEarly(a)  PROVE ConnsOK' /\ ScansOK' /\ FloodOK'
  <2>1. UNCHANGED <<conns, counts, cap>> /\ scans' = scans /\ UNCHANGED <<tracks, seen>> /\ now' \in {now, now + 1}
    BY <1>1 DEF RefuseEarly, prot
  <2> QED  BY <2>1, ConnsStay, ScansStay, FloodStay
<1>2. ASSUME NEW a \in Addr, RefuseFlood(a)  PROVE ConnsOK' /\ ScansOK' /\ FloodOK'
  <2>1. UNCHANGED <<conns, counts, cap>> /\ scans' = scans  BY <1>2 DEF RefuseFlood, prot
  <2>2. FloodOK'  BY <1>2, HitFlood DEF RefuseFlood
  <2> QED  BY <2>1, <2>2, ConnsStay, ScansStay
<1>3. ASSUME NEW a \in Addr, RefuseClass(a)  PROVE ConnsOK' /\ ScansOK' /\ FloodOK'
  <2>1. UNCHANGED <<conns, counts, cap>> /\ scans' = scans  BY <1>3 DEF RefuseClass
  <2>2. FloodOK'  BY <1>3, PassFlood DEF RefuseClass
  <2> QED  BY <2>1, <2>2, ConnsStay, ScansStay
<1>4. ASSUME NEW a \in Addr, RefuseHost(a)  PROVE ConnsOK' /\ ScansOK' /\ FloodOK'
  <2>1. ConnsOK'  BY <1>4, RefuseConns
  <2>2. scans' = scans  BY <1>4 DEF RefuseHost
  <2>3. FloodOK'  BY <1>4, PassFlood DEF RefuseHost
  <2> QED  BY <2>1, <2>2, <2>3, ScansStay
<1>5. ASSUME NEW a \in Addr, Admit(a)  PROVE ConnsOK' /\ ScansOK' /\ FloodOK'
  <2>1. FloodOK'  BY <1>5, PassFlood DEF Admit
  <2> QED  BY <1>5, <2>1, AdmitConns, AdmitScans
<1>6. ASSUME NEW a \in Addr, ProbeClean(a)  PROVE ConnsOK' /\ ScansOK' /\ FloodOK'
  <2>1. UNCHANGED <<conns, counts, cap>> /\ UNCHANGED <<tracks, seen>> /\ now' \in {now, now + 1}
    BY <1>6 DEF ProbeClean
  <2>2. ScansOK'  BY <1>6, ProbeScans
  <2> QED  BY <2>1, <2>2, ConnsStay, FloodStay
<1>7. ASSUME NEW a \in Addr, ProbeHit(a)  PROVE ConnsOK' /\ ScansOK' /\ FloodOK'
  <2>1. /\ conns' = Enforced(a) /\ UNCHANGED <<counts, cap>> /\ UNCHANGED <<tracks, seen>> /\ now' \in {now, now + 1}
    BY <1>7 DEF ProbeHit
  <2>2. ScansOK'  BY <1>7, ProbeScans
  <2>3. ConnsOK'  BY <2>1, EnforcedConns
  <2> QED  BY <2>1, <2>2, <2>3, FloodStay
<1>8. ASSUME NEW a \in Addr, Unban(a)  PROVE ConnsOK' /\ ScansOK' /\ FloodOK'
  <2>1. UNCHANGED <<conns, counts, cap>> /\ scans' = scans /\ UNCHANGED <<tracks, seen>> /\ now' \in {now, now + 1}
    BY <1>8 DEF Unban, prot
  <2> QED  BY <2>1, ConnsStay, ScansStay, FloodStay
<1>9. ASSUME NEW i \in DOMAIN conns, Listed(i)  PROVE ConnsOK' /\ ScansOK' /\ FloodOK'
  <2>1. /\ conns' = Enforced(conns[i].ip) /\ UNCHANGED <<counts, cap>> /\ scans' = scans
        /\ UNCHANGED <<tracks, seen>> /\ now' \in {now, now + 1}
    BY <1>9 DEF Listed, prot
  <2>2. ConnsOK'  BY <2>1, EnforcedConns
  <2> QED  BY <2>1, <2>2, ScansStay, FloodStay
<1>10. ASSUME NEW i \in DOMAIN conns, Leave(i) \/ Close(i) \/ \E a \in Addr \ Gateways : RealAddress(i, a)
       PROVE  ConnsOK' /\ ScansOK' /\ FloodOK'
  <2>1. ConnsOK'  BY <1>10, LeaveConns, CloseConns, AddressConns
  <2>2. scans' = scans /\ UNCHANGED <<tracks, seen>> /\ now' \in {now, now + 1}
    BY <1>10 DEF Leave, Close, RealAddress, prot
  <2> QED  BY <2>1, <2>2, ScansStay, FloodStay
<1>11. ASSUME NEW caps \in Caps, Rehash(caps)  PROVE ConnsOK' /\ ScansOK' /\ FloodOK'
  <2>1. ConnsOK'  BY <1>11, RehashConns
  <2>2. scans' = scans /\ UNCHANGED <<tracks, seen>> /\ now' \in {now, now + 1}  BY <1>11 DEF Rehash, prot
  <2> QED  BY <2>1, <2>2, ScansStay, FloodStay
<1>12. CASE Tick
  <2>1. UNCHANGED <<conns, counts, cap>> /\ scans' = scans /\ UNCHANGED <<tracks, seen>> /\ now' \in {now, now + 1}
    BY <1>12 DEF Tick, prot
  <2> QED  BY <2>1, ConnsStay, ScansStay, FloodStay
<1>13. CASE UNCHANGED vars
  <2>1. UNCHANGED <<conns, counts, cap>> /\ scans' = scans /\ UNCHANGED <<tracks, seen>> /\ now' \in {now, now + 1}
    BY <1>13 DEF vars, prot
  <2> QED  BY <2>1, ConnsStay, ScansStay, FloodStay
<1> QED  BY <1>1, <1>2, <1>3, <1>4, <1>5, <1>6, <1>7, <1>8, <1>9, <1>10, <1>11, <1>12, <1>13 DEF Next

LEMMA InvShows == Inv => Counted /\ Capped
<1> SUFFICES ASSUME ConnsOK, ScansOK, FloodOK PROVE Counted /\ Capped  BY DEF Inv
<1>1. CountsExact /\ Capped /\ conns \in Seq(Conn) /\ (max_connections > 0 => Len(conns) <= max_connections)
  BY ConnsShow
<1>2. scans \in [Addr -> 0..Probes] /\ n_scans <= scan_max_concurrent  BY ScansCount DEF ScansOK
<1>3. TypeOK  BY <1>1, <1>2 DEF TypeOK, Conn
<1> QED  BY <1>1, <1>3, FloodShows DEF Counted

\* Every count is what it stands for, whatever comes between a connection and its end: the connections
\* of an address (server_add_connection, unlink_connection), also of one whose address a gateway
\* replaced, the probes in flight (protection_scan_start), and the attempts of an address in the fixed
\* table (net_connect_flood_hit), for any number of addresses: a full table forgets only an address
\* that as many others as it has slots have outrun.
THEOREM CountedHolds == Spec => []Counted
<1>1. Spec => []Inv  BY InitInv, StepInv, PTL DEF Spec
<1> QED  BY <1>1, InvShows, PTL

\* No class and no address passes its limit, in any order of admissions, gateways, rehashes and
\* teardowns (net_assign_class, net_reclass_all, accept_common): a count may stay too high, for a
\* refusal that forgets to give its place back, and is never too low.
THEOREM CappedHolds == Spec => []Capped
<1>1. Spec => []Inv  BY InitInv, StepInv, PTL DEF Spec
<1> QED  BY <1>1, InvShows, PTL
=============================================================================
