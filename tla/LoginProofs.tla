----------------------------- MODULE LoginProofs ----------------------------
(***************************************************************************)
(* Proofs about Login, for any connections, nicks, accounts and workloads: *)
(* nobody is logged in to an account he has not shown to be his, the       *)
(* picture NickServ has is the hub's once the link is quiet, and whoever   *)
(* then sits on somebody's nick has a deadline.                            *)
(*                                                                         *)
(* A command is credited to whom the picture shows under its sender's      *)
(* nick.  That it is the sender rests on the order of the lines: what      *)
(* NickServ will have heard when it reads a command is what the hub said   *)
(* before the command was typed.                                           *)
(*                                                                         *)
(* That a squatter gets his deadline rests on Watched: until NickServ has  *)
(* looked at his nick, a line that makes it look, or an order that changes *)
(* his nick or his account, is on its way.                                 *)
(***************************************************************************)
EXTENDS Login, FiniteSetTheorems, SequenceTheorems, WellFoundedInduction, TLAPS

(***************************************************************************)
(* What is on the link.                                                    *)
(***************************************************************************)
Anyone == Nick \cup {None}
Mechs == {"PLAIN"} \cup UNION {UNION {p.mech[c] : c \in Conn} : p \in Plays}
NsLine ==
    [k : {"SVCUSER"}, c : Conn, nick : Nick, acct : Anyone] \cup [k : {"SVCNICK"}, c : Conn, nick : Nick]
    \cup [k : {"SVCQUIT"}, c : Conn] \cup [k : {"SVCACCOUNT"}, c : Conn, acct : Anyone]
    \cup [k : {"START"}, c : Conn, mech : Mechs] \cup [k : {"DATA"}, c : Conn, data : Data]
    \cup [k : {"ABORT"}, c : Conn] \cup [k : {"SVCREGISTER"}, c : Conn, name : Nick, pw : Password]
    \cup [k : {"PRIVMSG"}, nick : Nick, t : Typed]
IrcLine ==
    [k : {"SVCWATCH"}] \cup [k : {"SVSLOGIN"}, c : Conn, acct : Anyone] \cup [k : {"SVSNICK"}, c : Conn, nick : Nick]
    \cup [k : {"KILL", "CHALLENGE", "SVCREGRESULT"}, c : Conn] \cup [k : {"VERDICT"}, c : Conn, ok : BOOLEAN]

LEMMA NsForm ==
    ASSUME NEW m \in NsLine
    PROVE  /\ m.k = "SVCUSER" => m.c \in Conn /\ m.nick \in Nick /\ m.acct \in Anyone
           /\ m.k = "SVCNICK" => m.c \in Conn /\ m.nick \in Nick
           /\ m.k = "SVCQUIT" => m.c \in Conn
           /\ m.k = "SVCACCOUNT" => m.c \in Conn /\ m.acct \in Anyone
           /\ m.k = "START" => m.c \in Conn /\ m.mech \in Mechs
           /\ m.k = "DATA" => m.c \in Conn /\ m.data \in Data
           /\ m.k = "ABORT" => m.c \in Conn
           /\ m.k = "SVCREGISTER" => m.c \in Conn /\ m.name \in Nick /\ m.pw \in Password
           /\ m.k = "PRIVMSG" => m.nick \in Nick /\ m.t \in Typed
  BY DEF NsLine

LEMMA IrcForm ==
    ASSUME NEW m \in IrcLine
    PROVE  /\ m.k # "SVCWATCH" => m.c \in Conn
           /\ m.k = "SVSLOGIN" => m.acct \in Anyone
           /\ m.k = "SVSNICK" => m.nick \in Nick
           /\ m.k = "VERDICT" => m.ok \in BOOLEAN
  BY DEF IrcLine

(***************************************************************************)
(* Who has which nick, as lines are heard one after the other.             *)
(***************************************************************************)
Pictures == [Conn -> Anyone]
Nobody == [c \in Conn |-> None]
Moved(p, m) ==
    IF m.k = "SVCUSER" \/ (m.k = "SVCNICK" /\ p[m.c] # None) THEN [p EXCEPT ![m.c] = m.nick]
    ELSE IF m.k = "SVCQUIT" THEN [p EXCEPT ![m.c] = None] ELSE p
\* Whoever has the nick a command comes from is the one who typed it.
Claims(p, m) == m.k = "PRIVMSG" => \A c \in Conn : p[c] = m.nick => c = m.t.c
Passes(h, p, q, r) ==
    /\ h \in [0..Len(q) -> Pictures] /\ h[0] = p /\ h[Len(q)] = r
    /\ \A i \in 1..Len(q) : h[i] = Moved(h[i - 1], q[i]) /\ Claims(h[i - 1], q[i])
\* The lines q lead from the picture p to the picture r.
Leads(p, q, r) == \E h : Passes(h, p, q, r)

LEMMA MovedType == ASSUME NEW p \in Pictures, NEW m \in NsLine PROVE Moved(p, m) \in Pictures
<1>1. m.k \in {"SVCUSER", "SVCNICK"} => m.nick \in Anyone  BY NsForm DEF Anyone
<1>2. CASE m.k = "SVCUSER" \/ (m.k = "SVCNICK" /\ p[m.c] # None)  BY <1>1, <1>2 DEF Moved, Pictures
<1>3. CASE ~(m.k = "SVCUSER" \/ (m.k = "SVCNICK" /\ p[m.c] # None))  BY <1>3 DEF Moved, Pictures, Anyone
<1> QED  BY <1>2, <1>3

LEMMA LeadsNowhere == ASSUME NEW p \in Pictures PROVE Leads(p, << >>, p)
<1> DEFINE h == [i \in 0..0 |-> p]
<1>1. Len(<< >>) = 0 /\ 0..Len(<< >>) = {0} /\ 1..Len(<< >>) = {}  OBVIOUS
<1>2. h \in [0..Len(<< >>) -> Pictures] /\ h[0] = p  BY <1>1
<1>3. Passes(h, p, << >>, p)  BY <1>1, <1>2 DEF Passes
<1> QED  BY <1>3 DEF Leads

LEMMA LeadsEnds ==
    ASSUME NEW p, NEW q \in Seq(NsLine), NEW r, Leads(p, q, r)
    PROVE  r \in Pictures /\ (q = << >> => p = r)
<1>1. PICK h : Passes(h, p, q, r)  BY DEF Leads
<1>2. Len(q) \in Nat /\ Len(q) \in 0..Len(q)  OBVIOUS
<1> QED  BY <1>1, <1>2 DEF Passes

LEMMA LeadsOn ==
    ASSUME NEW p, NEW q \in Seq(NsLine), NEW r, Leads(p, q, r), NEW m \in NsLine, Claims(r, m)
    PROVE  Leads(p, Append(q, m), Moved(r, m))
<1>1. PICK h : Passes(h, p, q, r)  BY DEF Leads
<1> DEFINE n == Len(q)
           s == Append(q, m)
           g == [i \in 0..(n + 1) |-> IF i = n + 1 THEN Moved(r, m) ELSE h[i]]
<1>2. n \in Nat /\ Len(s) = n + 1 /\ s[n + 1] = m /\ \A i \in 1..n : s[i] = q[i]
  BY AppendProperties
<1>3. Moved(r, m) \in Pictures  BY LeadsEnds, MovedType
<1>4. /\ \A i \in 0..n : h[i] \in Pictures /\ g[i] = h[i]
      /\ g[n + 1] = Moved(r, m) /\ h[0] = p /\ h[n] = r
  BY <1>1, <1>2 DEF Passes
<1>5. g \in [0..Len(s) -> Pictures]  BY <1>1, <1>2, <1>3 DEF Passes
<1> HIDE DEF g, s
<1>6. ASSUME NEW i \in 1..Len(s)  PROVE g[i] = Moved(g[i - 1], s[i]) /\ Claims(g[i - 1], s[i])
  <2>1. CASE i = n + 1
    <3>1. i - 1 = n /\ n \in 0..n  BY <1>2, <2>1
    <3> QED  BY <1>2, <1>4, <2>1, <3>1
  <2>2. CASE i # n + 1
    <3>1. i \in 1..n /\ i \in 0..n /\ i - 1 \in 0..n  BY <1>2, <2>2
    <3>2. h[i] = Moved(h[i - 1], q[i]) /\ Claims(h[i - 1], q[i])  BY <1>1, <3>1 DEF Passes
    <3> QED  BY <1>2, <1>4, <3>1, <3>2
  <2> QED  BY <2>1, <2>2
<1>7. g[0] = p /\ g[Len(s)] = Moved(r, m)  BY <1>2, <1>4
<1>8. Passes(g, p, s, Moved(r, m))  BY <1>5, <1>6, <1>7 DEF Passes
<1> QED  BY <1>8 DEF Leads, s

LEMMA LeadsFrom ==
    ASSUME NEW p, NEW q \in Seq(NsLine), q # << >>, NEW r, Leads(p, q, r)
    PROVE  Leads(Moved(p, Head(q)), Tail(q), r) /\ Claims(p, Head(q))
<1>1. PICK h : Passes(h, p, q, r)  BY DEF Leads
<1> DEFINE n == Len(q)
           g == [i \in 0..(n - 1) |-> h[i + 1]]
<1>2. /\ n \in Nat /\ n > 0 /\ Head(q) = q[1] /\ Tail(q) \in Seq(NsLine) /\ Len(Tail(q)) = n - 1
      /\ \A i \in 1..(n - 1) : Tail(q)[i] = q[i + 1]
  BY HeadTailProperties
<1>3. \A i \in 0..(n - 1) : i + 1 \in 0..n /\ i + 1 \in 1..n /\ (i + 1) - 1 = i  BY <1>2
<1>4. h[1] = Moved(p, q[1]) /\ Claims(p, q[1])
  <2>1. 1 \in 1..Len(q) /\ 1 - 1 = 0  BY <1>2
  <2> QED  BY <1>1, <2>1 DEF Passes
<1>5. g \in [0..Len(Tail(q)) -> Pictures]  BY <1>1, <1>2, <1>3 DEF Passes
<1>6. g[0] = h[1] /\ g[n - 1] = r  BY <1>1, <1>2 DEF Passes
<1>7. ASSUME NEW i \in 1..(n - 1)  PROVE g[i] = Moved(g[i - 1], Tail(q)[i]) /\ Claims(g[i - 1], Tail(q)[i])
  <2>1. i + 1 \in 1..Len(q) /\ (i + 1) - 1 = i /\ i \in 0..(n - 1) /\ i - 1 \in 0..(n - 1) /\ (i - 1) + 1 = i  BY <1>2
  <2>2. h[i + 1] = Moved(h[i], q[i + 1]) /\ Claims(h[i], q[i + 1])  BY <1>1, <2>1 DEF Passes
  <2> QED  BY <1>2, <2>1, <2>2
<1> HIDE DEF g
<1>8. Passes(g, Moved(p, Head(q)), Tail(q), r)  BY <1>2, <1>4, <1>5, <1>6, <1>7 DEF Passes
<1> QED  BY <1>2, <1>4, <1>8 DEF Leads

\* Everyone again (SVCWATCH): f is who has which nick at the hub.
Shown(r, f, s, n) == [c \in Conn |-> IF \E j \in 1..n : s[j].c = c THEN f[c] ELSE r[c]]
LEMMA LeadsBurst ==
    ASSUME NEW p, NEW q \in Seq(NsLine), NEW r, Leads(p, q, r), NEW f \in Pictures, NEW s \in Seq(NsLine),
           \A i \in 1..Len(s) : s[i].k = "SVCUSER" /\ s[i].nick = f[s[i].c]
    PROVE  Leads(p, q \o s, Shown(r, f, s, Len(s)))
<1>1. PICK h : Passes(h, p, q, r)  BY DEF Leads
<1> DEFINE n == Len(q)
           g == [i \in 0..(n + Len(s)) |-> IF i <= n THEN h[i] ELSE Shown(r, f, s, i - n)]
<1>2. /\ n \in Nat /\ Len(s) \in Nat /\ Len(q \o s) = n + Len(s)
      /\ \A i \in 1..(n + Len(s)) : (q \o s)[i] = IF i <= n THEN q[i] ELSE s[i - n]
  BY ConcatProperties
<1>3. r \in Pictures /\ h[n] = r /\ h[0] = p /\ \A i \in 0..n : h[i] \in Pictures
  BY <1>1, <1>2, LeadsEnds DEF Passes
<1>4. \A j \in 0..Len(s) : Shown(r, f, s, j) \in Pictures  BY <1>3 DEF Shown, Pictures
<1>5. Shown(r, f, s, 0) = r  BY <1>3 DEF Shown, Pictures
<1>6. ASSUME NEW j \in 1..Len(s)  PROVE Shown(r, f, s, j) = Moved(Shown(r, f, s, j - 1), s[j])
  <2>1. s[j] \in NsLine /\ s[j].k = "SVCUSER" /\ s[j].c \in Conn /\ s[j].nick = f[s[j].c]  BY NsForm
  <2>2. Moved(Shown(r, f, s, j - 1), s[j]) = [Shown(r, f, s, j - 1) EXCEPT ![s[j].c] = f[s[j].c]]  BY <2>1 DEF Moved
  <2>3. 1..j = 1..(j - 1) \cup {j}  BY <1>2
  <2> QED  BY <2>1, <2>2, <2>3 DEF Shown
<1>7. g \in [0..(n + Len(s)) -> Pictures]
  <2>1. \A i \in 0..(n + Len(s)) : IF i <= n THEN i \in 0..n ELSE i - n \in 0..Len(s)  BY <1>2
  <2> QED  BY <1>3, <1>4, <2>1
<1>8. \A i \in 0..n : i \in 0..(n + Len(s)) /\ g[i] = h[i]  BY <1>2
<1>9. \A i \in n..(n + Len(s)) : g[i] = Shown(r, f, s, i - n)
  <2>1. n - n = 0  BY <1>2
  <2>2. g[n] = Shown(r, f, s, n - n)  BY <1>2, <1>3, <1>5, <1>8, <2>1
  <2>3. \A i \in n..(n + Len(s)) : i # n => i \in 0..(n + Len(s)) /\ ~(i <= n)  BY <1>2
  <2> QED  BY <2>2, <2>3
<1> HIDE DEF g
<1>10. ASSUME NEW i \in 1..(n + Len(s))
       PROVE  g[i] = Moved(g[i - 1], (q \o s)[i]) /\ Claims(g[i - 1], (q \o s)[i])
  <2>1. CASE i <= n
    <3>1. i \in 1..n /\ i \in 0..n /\ i - 1 \in 0..n  BY <1>2, <2>1
    <3>2. h[i] = Moved(h[i - 1], q[i]) /\ Claims(h[i - 1], q[i])  BY <1>1, <3>1 DEF Passes
    <3> QED  BY <1>2, <1>8, <2>1, <3>1, <3>2
  <2>2. CASE ~(i <= n)
    <3>1. i - n \in 1..Len(s) /\ i \in n..(n + Len(s)) /\ i - 1 \in n..(n + Len(s)) /\ (i - 1) - n = (i - n) - 1  BY <1>2, <2>2
    <3>2. (q \o s)[i] = s[i - n] /\ s[i - n].k = "SVCUSER"  BY <1>2, <2>2, <3>1
    <3>3. g[i] = Shown(r, f, s, i - n) /\ g[i - 1] = Shown(r, f, s, (i - n) - 1)  BY <1>9, <3>1
    <3> QED  BY <1>6, <3>1, <3>2, <3>3 DEF Claims
  <2> QED  BY <2>1, <2>2
<1>11. g[0] = p /\ g[n + Len(s)] = Shown(r, f, s, Len(s))
  <2>1. 0 \in 0..n /\ n + Len(s) \in n..(n + Len(s)) /\ (n + Len(s)) - n = Len(s)  BY <1>2
  <2> QED  BY <1>3, <1>8, <1>9, <2>1
<1>12. Passes(g, p, q \o s, Shown(r, f, s, Len(s)))  BY <1>2, <1>7, <1>10, <1>11 DEF Passes
<1> QED  BY <1>12 DEF Leads

LEMMA LeadsStill ==
    ASSUME NEW p, NEW q \in Seq(NsLine), NEW r, Leads(p, q, r), NEW s \in Seq(NsLine),
           \A i \in 1..Len(s) : Moved(r, s[i]) = r /\ Claims(r, s[i])
    PROVE  Leads(p, q \o s, r)
<1>1. PICK h : Passes(h, p, q, r)  BY DEF Leads
<1> DEFINE n == Len(q)
           g == [i \in 0..(n + Len(s)) |-> IF i <= n THEN h[i] ELSE r]
<1>2. /\ n \in Nat /\ Len(s) \in Nat /\ Len(q \o s) = n + Len(s)
      /\ \A i \in 1..(n + Len(s)) : (q \o s)[i] = IF i <= n THEN q[i] ELSE s[i - n]
  BY ConcatProperties
<1>3. r \in Pictures /\ h[n] = r /\ h[0] = p /\ \A i \in 0..n : h[i] \in Pictures
  BY <1>1, <1>2, LeadsEnds DEF Passes
<1>4. g \in [0..(n + Len(s)) -> Pictures]
  <2>1. \A i \in 0..(n + Len(s)) : i <= n => i \in 0..n  BY <1>2
  <2> QED  BY <1>3, <2>1
<1>5. \A i \in 0..n : i \in 0..(n + Len(s)) /\ g[i] = h[i]  BY <1>2
<1>6. \A i \in n..(n + Len(s)) : g[i] = r
  <2>1. \A i \in n..(n + Len(s)) : i \in 0..(n + Len(s)) /\ (i <= n => i = n)  BY <1>2
  <2> QED  BY <1>3, <2>1
<1> HIDE DEF g
<1>7. ASSUME NEW i \in 1..(n + Len(s))
      PROVE  g[i] = Moved(g[i - 1], (q \o s)[i]) /\ Claims(g[i - 1], (q \o s)[i])
  <2>1. CASE i <= n
    <3>1. i \in 1..n /\ i \in 0..n /\ i - 1 \in 0..n  BY <1>2, <2>1
    <3>2. h[i] = Moved(h[i - 1], q[i]) /\ Claims(h[i - 1], q[i])  BY <1>1, <3>1 DEF Passes
    <3> QED  BY <1>2, <1>5, <2>1, <3>1, <3>2
  <2>2. CASE ~(i <= n)
    <3>1. i - n \in 1..Len(s) /\ i \in n..(n + Len(s)) /\ i - 1 \in n..(n + Len(s))  BY <1>2, <2>2
    <3>2. (q \o s)[i] = s[i - n] /\ g[i] = r /\ g[i - 1] = r  BY <1>2, <1>6, <2>2, <3>1
    <3> QED  BY <3>1, <3>2
  <2> QED  BY <2>1, <2>2
<1>8. g[0] = p /\ g[n + Len(s)] = r
  <2>1. 0 \in 0..n /\ n + Len(s) \in n..(n + Len(s))  BY <1>2
  <2> QED  BY <1>3, <1>5, <1>6, <2>1
<1>9. Passes(g, p, q \o s, r)  BY <1>2, <1>4, <1>7, <1>8 DEF Passes
<1> QED  BY <1>9 DEF Leads

(***************************************************************************)
(* What NickServ will have heard of an account.                            *)
(***************************************************************************)
Sets(m, c) == m.k \in {"SVCUSER", "SVCACCOUNT"} /\ m.c = c
Introduced(q, c) == \E i \in 1..Len(q) : q[i].k = "SVCUSER" /\ q[i].c = c
\* The last line about the account says a; without one the picture does.
Right(v, q, c, a) ==
    \/ \E i \in 1..Len(q) : Sets(q[i], c) /\ q[i].acct = a /\ \A j \in (i + 1)..Len(q) : ~Sets(q[j], c)
    \/ (\A j \in 1..Len(q) : ~Sets(q[j], c)) /\ v[c].acct = a
\* A login is on its way to the hub, that will carry it out and say so.
Coming(q, c, a) == \E i \in 1..Len(q) : q[i].k = "SVSLOGIN" /\ q[i].c = c /\ (q[i].acct # None \/ a # None)

LEMMA QueueJoined ==
    ASSUME NEW S, NEW q \in Seq(S), NEW s \in Seq(S)
    PROVE  /\ q \o s \in Seq(S) /\ Len(q \o s) = Len(q) + Len(s) /\ Len(q) \in Nat /\ Len(s) \in Nat
           /\ \A i \in 1..Len(q) : i \in 1..Len(q \o s) /\ (q \o s)[i] = q[i]
           /\ \A i \in 1..Len(s) : i + Len(q) \in 1..Len(q \o s) /\ (q \o s)[i + Len(q)] = s[i]
           /\ \A i \in 1..Len(q \o s) :
                \/ i \in 1..Len(q) /\ (q \o s)[i] = q[i]
                \/ i - Len(q) \in 1..Len(s) /\ (q \o s)[i] = s[i - Len(q)]
<1>1. /\ q \o s \in Seq(S) /\ Len(q \o s) = Len(q) + Len(s) /\ Len(q) \in Nat /\ Len(s) \in Nat
      /\ \A i \in 1..(Len(q) + Len(s)) : (q \o s)[i] = IF i <= Len(q) THEN q[i] ELSE s[i - Len(q)]
  BY ConcatProperties
<1>2. ASSUME NEW i \in 1..Len(q)  PROVE i \in 1..(Len(q) + Len(s)) /\ i <= Len(q)  BY <1>1
<1>3. ASSUME NEW i \in 1..Len(s)
      PROVE  i + Len(q) \in 1..(Len(q) + Len(s)) /\ ~(i + Len(q) <= Len(q)) /\ (i + Len(q)) - Len(q) = i
  BY <1>1
<1>4. ASSUME NEW i \in 1..(Len(q) + Len(s))
      PROVE  IF i <= Len(q) THEN i \in 1..Len(q) ELSE i - Len(q) \in 1..Len(s)
  BY <1>1
<1> QED  BY <1>1, <1>2, <1>3, <1>4

LEMMA OneLine ==
    ASSUME NEW S
    PROVE  /\ << >> \in Seq(S)
           /\ \A m \in S : <<m>> \in Seq(S) /\ Len(<<m>>) = 1 /\ <<m>>[1] = m /\ \A i \in 1..Len(<<m>>) : <<m>>[i] = m
           /\ \A m \in S, n \in S : /\ <<m, n>> \in Seq(S) /\ Len(<<m, n>>) = 2 /\ <<m, n>>[1] = m /\ <<m, n>>[2] = n
                                    /\ \A i \in 1..Len(<<m, n>>) : <<m, n>>[i] \in {m, n}
<1>1. \A m \in S : <<m>> \in Seq(S) /\ Len(<<m>>) = 1 /\ <<m>>[1] = m  OBVIOUS
<1>2. \A m \in S, n \in S : <<m, n>> \in Seq(S) /\ Len(<<m, n>>) = 2 /\ <<m, n>>[1] = m /\ <<m, n>>[2] = n  OBVIOUS
<1>3. 1..1 = {1} /\ 1..2 = {1, 2}  OBVIOUS
<1> QED  BY <1>1, <1>2, <1>3

LEMMA TwoLines == ASSUME NEW S, NEW m \in S, NEW n \in S PROVE <<m>> \o <<n>> = <<m, n>>
<1> DEFINE s == <<m>> \o <<n>>
<1>1. <<m>> \in Seq(S) /\ <<n>> \in Seq(S) /\ Len(<<m>>) = 1 /\ Len(<<n>>) = 1 /\ <<m>>[1] = m /\ <<n>>[1] = n  OBVIOUS
<1>2. s \in Seq(S) /\ Len(s) = 2 /\ s[1] = m /\ s[2] = n
  <2>1. s \in Seq(S) /\ Len(s) = 1 + 1 /\ \A i \in 1..(1 + 1) : s[i] = IF i <= 1 THEN <<m>>[i] ELSE <<n>>[i - 1]
    BY <1>1, ConcatProperties
  <2> HIDE DEF s
  <2> QED  BY <1>1, <2>1
<1> HIDE DEF s
<1>3. s = <<m, n>>  BY <1>2
<1> QED  BY <1>3 DEF s

LEMMA QueueRest ==
    ASSUME NEW S, NEW q \in Seq(S), q # << >>
    PROVE  /\ Tail(q) \in Seq(S) /\ Head(q) \in S /\ Head(q) = q[1] /\ 1 \in 1..Len(q) /\ Len(q) \in Nat
           /\ Len(Tail(q)) = Len(q) - 1
           /\ \A i \in 1..Len(Tail(q)) : i + 1 \in 1..Len(q) /\ Tail(q)[i] = q[i + 1]
           /\ \A i \in 1..Len(q) : i = 1 \/ (i - 1 \in 1..Len(Tail(q)) /\ Tail(q)[i - 1] = q[i])
<1>1. /\ Len(q) \in Nat /\ Len(q) > 0 /\ Head(q) = q[1] /\ Tail(q) \in Seq(S) /\ Len(Tail(q)) = Len(q) - 1
      /\ \A i \in 1..(Len(q) - 1) : Tail(q)[i] = q[i + 1]
  BY HeadTailProperties
<1>2. 1 \in 1..Len(q) /\ q[1] \in S  BY <1>1
<1>3. \A i \in 1..(Len(q) - 1) : i + 1 \in 1..Len(q)  BY <1>1
<1>4. \A i \in 1..Len(q) : i = 1 \/ (i - 1 \in 1..(Len(q) - 1) /\ (i - 1) + 1 = i)  BY <1>1
<1> QED  BY <1>1, <1>2, <1>3, <1>4

LEMMA RightStill ==
    ASSUME NEW q \in Seq(NsLine), NEW s \in Seq(NsLine), NEW c, NEW a, NEW v, Right(v, q, c, a),
           \A i \in 1..Len(s) : ~Sets(s[i], c)
    PROVE  Right(v, q \o s, c, a)
<1> DEFINE t == q \o s
<1>1. /\ Len(t) = Len(q) + Len(s) /\ Len(q) \in Nat /\ Len(s) \in Nat
      /\ \A i \in 1..Len(q) : i \in 1..Len(t) /\ t[i] = q[i]
      /\ \A i \in 1..Len(t) : \/ i \in 1..Len(q) /\ t[i] = q[i]
                              \/ i - Len(q) \in 1..Len(s) /\ t[i] = s[i - Len(q)]
  BY QueueJoined
<1> HIDE DEF t
<1>2. CASE \E i \in 1..Len(q) : Sets(q[i], c) /\ q[i].acct = a /\ \A j \in (i + 1)..Len(q) : ~Sets(q[j], c)
  <2>1. PICK i \in 1..Len(q) : Sets(q[i], c) /\ q[i].acct = a /\ \A j \in (i + 1)..Len(q) : ~Sets(q[j], c)  BY <1>2
  <2>2. ASSUME NEW j \in (i + 1)..Len(t)  PROVE ~Sets(t[j], c)
    <3>1. j \in 1..Len(t) /\ j > i  BY <1>1
    <3>2. CASE j \in 1..Len(q) /\ t[j] = q[j]
      <4>1. j \in (i + 1)..Len(q)  BY <1>1, <3>1, <3>2
      <4> QED  BY <2>1, <3>2, <4>1
    <3>3. CASE j - Len(q) \in 1..Len(s) /\ t[j] = s[j - Len(q)]  BY <3>3
    <3> QED  BY <1>1, <3>1, <3>2, <3>3
  <2> QED  BY <1>1, <2>1, <2>2 DEF Right, t
<1>3. CASE (\A j \in 1..Len(q) : ~Sets(q[j], c)) /\ v[c].acct = a
  <2>1. \A j \in 1..Len(t) : ~Sets(t[j], c)  BY <1>1, <1>3
  <2> QED  BY <1>3, <2>1 DEF Right, t
<1> QED  BY <1>2, <1>3 DEF Right

LEMMA RightSaid ==
    ASSUME NEW q \in Seq(NsLine), NEW s \in Seq(NsLine), NEW c, NEW a, NEW v,
           NEW i \in 1..Len(s), Sets(s[i], c), s[i].acct = a, \A j \in 1..Len(s) : Sets(s[j], c) => j = i
    PROVE  Right(v, q \o s, c, a)
<1> DEFINE t == q \o s
           n == Len(q)
<1>1. /\ Len(t) = n + Len(s) /\ n \in Nat /\ Len(s) \in Nat
      /\ i + n \in 1..Len(t) /\ t[i + n] = s[i]
      /\ \A j \in 1..Len(t) : \/ j \in 1..n /\ t[j] = q[j]
                              \/ j - n \in 1..Len(s) /\ t[j] = s[j - n]
  BY QueueJoined
<1> HIDE DEF t, n
<1>2. ASSUME NEW j \in (i + n + 1)..Len(t)  PROVE ~Sets(t[j], c)
  <2>1. j \in 1..Len(t) /\ j \notin 1..n /\ j - n # i  BY <1>1
  <2>2. j - n \in 1..Len(s) /\ t[j] = s[j - n]  BY <1>1, <2>1
  <2> QED  BY <2>1, <2>2
<1>3. Sets(t[i + n], c) /\ t[i + n].acct = a /\ \A j \in ((i + n) + 1)..Len(t) : ~Sets(t[j], c)  BY <1>1, <1>2
<1> QED  BY <1>1, <1>3 DEF Right, t

LEMMA RightRest ==
    ASSUME NEW q \in Seq(NsLine), q # << >>, NEW c, NEW a, NEW v, NEW w, Right(v, q, c, a),
           (Sets(Head(q), c) /\ \A i \in 1..Len(Tail(q)) : ~Sets(Tail(q)[i], c)) => w[c].acct = Head(q).acct,
           ~Sets(Head(q), c) => w[c].acct = v[c].acct
    PROVE  Right(w, Tail(q), c, a)
<1> DEFINE t == Tail(q)
<1>1. /\ Head(q) = q[1] /\ Len(q) \in Nat /\ Len(t) = Len(q) - 1 /\ 1 \in 1..Len(q)
      /\ \A i \in 1..Len(t) : i + 1 \in 1..Len(q) /\ t[i] = q[i + 1]
      /\ \A i \in 1..Len(q) : i = 1 \/ (i - 1 \in 1..Len(t) /\ t[i - 1] = q[i])
  BY QueueRest
<1> HIDE DEF t
<1>2. CASE \E i \in 1..Len(q) : Sets(q[i], c) /\ q[i].acct = a /\ \A j \in (i + 1)..Len(q) : ~Sets(q[j], c)
  <2>1. PICK i \in 1..Len(q) : Sets(q[i], c) /\ q[i].acct = a /\ \A j \in (i + 1)..Len(q) : ~Sets(q[j], c)  BY <1>2
  <2>2. CASE i = 1
    <3>1. ASSUME NEW j \in 1..Len(t)  PROVE ~Sets(t[j], c)
      <4>1. j + 1 \in (i + 1)..Len(q) /\ t[j] = q[j + 1]  BY <1>1, <2>2
      <4> QED  BY <2>1, <4>1
    <3>2. w[c].acct = a  BY <1>1, <2>1, <2>2, <3>1 DEF t
    <3> QED  BY <3>1, <3>2 DEF Right, t
  <2>3. CASE i # 1
    <3>1. i - 1 \in 1..Len(t) /\ t[i - 1] = q[i]  BY <1>1, <2>3
    <3>2. ASSUME NEW j \in ((i - 1) + 1)..Len(t)  PROVE ~Sets(t[j], c)
      <4>1. j \in 1..Len(t) /\ j + 1 \in (i + 1)..Len(q)  BY <1>1
      <4> QED  BY <1>1, <2>1, <4>1
    <3> QED  BY <2>1, <3>1, <3>2 DEF Right, t
  <2> QED  BY <2>2, <2>3
<1>3. CASE (\A j \in 1..Len(q) : ~Sets(q[j], c)) /\ v[c].acct = a
  <2>1. \A j \in 1..Len(t) : ~Sets(t[j], c)  BY <1>1, <1>3
  <2>2. w[c].acct = a  BY <1>1, <1>3
  <2> QED  BY <2>1, <2>2 DEF Right, t
<1> QED  BY <1>2, <1>3 DEF Right

(***************************************************************************)
(* The invariant.                                                          *)
(***************************************************************************)
KConn ==
    [st : {"none", "open", "user", "gone"}, nick : Anyone, acct : Anyone, mech : Mechs \cup {None},
     style : {"legacy", "pass"}, held : BOOLEAN, pass : Data \cup {None}, ready : BOOLEAN, regs : Nat]
Exchange == [c : Conn, mech : Mechs, step : 0..2, acct : {None} \cup (Nick \X Password)]
Picture(v) == [c \in Conn |-> IF v[c] = None THEN None ELSE v[c].nick]
\* Who has which nick by the hub, if it tells.
AtHub(k, w) == IF w THEN [c \in Conn |-> IF k[c].st = "user" THEN k[c].nick ELSE None] ELSE Nobody

HubTyped ==
    /\ conn \in [Conn -> KConn]
    /\ \A c \in Conn : conn[c].st \in {"open", "user"} => conn[c].nick \in Nick
LinkTyped ==
    /\ up \in BOOLEAN /\ watch \in BOOLEAN /\ toNs \in Seq(NsLine) /\ toIrc \in Seq(IrcLine)
    /\ ~up => ~watch /\ toNs = << >> /\ toIrc = << >>
NsTyped == store \in [Nick -> Account \cup {None}] /\ view \in [Conn -> Seen \cup {None}]
SlotsTyped ==
    /\ slot \in Seq(Exchange) /\ Len(slot) <= SlotMax
    /\ \A i, j \in 1..Len(slot) : slot[i].c = slot[j].c => i = j
    /\ \A i \in 1..Len(slot) : slot[i].step > 0 => slot[i].acct \in Nick \X Password
\* Whoever is logged in, will be logged in or has ended a SCRAM exchange well has shown it.
Earning ==
    /\ \A c \in Conn : conn[c].acct # None => <<c, conn[c].acct>> \in proved
    /\ \A i \in 1..Len(toIrc) : toIrc[i].k = "SVSLOGIN" /\ toIrc[i].acct # None => <<toIrc[i].c, toIrc[i].acct>> \in proved
    /\ \A i \in 1..Len(slot) : slot[i].step = 2 => <<slot[i].c, slot[i].acct[1]>> \in proved
Named == up => Leads(Picture(view), toNs, AtHub(conn, watch))
Gone == \A i \in 1..Len(toNs) : toNs[i].k = "SVCQUIT" => conn[toNs[i].c].st = "gone"
Accounts == watch => \A c \in Conn : conn[c].st = "user" =>
    /\ view[c] # None \/ Introduced(toNs, c)
    /\ Right(view, toNs, c, conn[c].acct) \/ Coming(toIrc, c, conn[c].acct)
Inv ==
    /\ play \in Plays /\ HubTyped /\ LinkTyped /\ NsTyped /\ SlotsTyped
    /\ Earning /\ Named /\ Gone /\ NicksApart /\ Accounts

LEMMA Consts ==
    /\ IsFiniteSet(Conn) /\ Guest \subseteq Nick /\ Guest # {} /\ FirstNick \in [Conn -> Nick \ Guest]
    /\ None \notin Conn /\ None \notin Nick /\ None \notin Password /\ None \notin Account /\ None \notin Seen
    /\ SlotMax \in Nat \ {0}
  BY Types

LEMMA PlayForm ==
    ASSUME NEW p \in Plays
    PROVE  /\ p.start \in [Conn -> {"none", "open", "user"}] /\ p.acct \in [Conn -> Anyone]
           /\ p.store \in [Nick -> Account \cup {None}] /\ p.typed \subseteq Typed
           /\ \A c \in Conn : p.data[c] \subseteq Data /\ p.pass[c] \subseteq Data /\ p.mech[c] \subseteq Mechs
           /\ \A c \in Conn : p.acct[c] # None => p.start[c] = "user"
           /\ \A c, d \in Conn : p.start[c] # "none" /\ p.start[d] # "none" /\ FirstNick[c] = FirstNick[d] => c = d
<1>1. \A c \in Conn : p.mech[c] \subseteq Mechs  BY DEF Mechs
<1>2. \A c \in Conn : p.data[c] \cup p.pass[c] \subseteq Data  BY Types
<1> QED  BY <1>1, <1>2, Types DEF Anyone

LEMMA SeenForm ==
    ASSUME NEW v \in [Conn -> Seen \cup {None}]
    PROVE  /\ Picture(v) \in Pictures
           /\ \A c \in Conn : /\ (v[c] = None) <=> (Picture(v)[c] = None)
                              /\ v[c] # None => v[c] \in Seen /\ Picture(v)[c] = v[c].nick
<1>1. \A c \in Conn : v[c] # None => v[c] \in Seen /\ v[c].nick \in Nick  BY DEF Seen
<1> QED  BY <1>1, Consts DEF Picture, Pictures, Anyone

(***************************************************************************)
(* Steps that tell nothing new of nicks, accounts and connections.         *)
(***************************************************************************)
\* A line of the hub is read that logs nobody in.
IrcRead == toIrc' = toIrc \/ (toIrc # << >> /\ toIrc' = Tail(toIrc) /\ Head(toIrc).k # "SVSLOGIN")
QuietHub(c, k, out) ==
    /\ c \in Conn /\ k \in KConn /\ k.st = conn[c].st /\ k.nick = conn[c].nick /\ k.acct = conn[c].acct
    /\ out \in Seq(NsLine) /\ (up \/ out = << >>)
    /\ \A i \in 1..Len(out) : out[i].k \notin {"SVCUSER", "SVCNICK", "SVCQUIT", "SVCACCOUNT"}
                              /\ Claims(AtHub(conn, watch), out[i])
    /\ conn' = [conn EXCEPT ![c] = k] /\ toNs' = toNs \o out /\ IrcRead
    /\ UNCHANGED <<play, up, watch, store, view, slot, proved>>

LEMMA IrcReadForm ==
    ASSUME LinkTyped, IrcRead
    PROVE  /\ toIrc' \in Seq(IrcLine) /\ (toIrc = << >> => toIrc' = << >>)
           /\ \A P : (\A i \in 1..Len(toIrc) : toIrc[i] \in P) => \A i \in 1..Len(toIrc') : toIrc'[i] \in P
           /\ \A c, a : Coming(toIrc, c, a) => Coming(toIrc', c, a)
<1>1. toIrc \in Seq(IrcLine)  BY DEF LinkTyped
<1>2. CASE toIrc' = toIrc  BY <1>1, <1>2
<1>3. CASE toIrc # << >> /\ toIrc' = Tail(toIrc) /\ Head(toIrc).k # "SVSLOGIN"
  <2>1. /\ Tail(toIrc) \in Seq(IrcLine) /\ Head(toIrc) = toIrc[1]
        /\ \A i \in 1..Len(Tail(toIrc)) : i + 1 \in 1..Len(toIrc) /\ Tail(toIrc)[i] = toIrc[i + 1]
        /\ \A i \in 1..Len(toIrc) : i = 1 \/ (i - 1 \in 1..Len(Tail(toIrc)) /\ Tail(toIrc)[i - 1] = toIrc[i])
    BY <1>1, <1>3, QueueRest
  <2>2. ASSUME NEW c, NEW a, Coming(toIrc, c, a)  PROVE Coming(toIrc', c, a)
    <3>1. PICK i \in 1..Len(toIrc) : toIrc[i].k = "SVSLOGIN" /\ toIrc[i].c = c /\ (toIrc[i].acct # None \/ a # None)
      BY <2>2 DEF Coming
    <3>2. i # 1  BY <1>3, <2>1, <3>1
    <3> QED  BY <1>3, <2>1, <3>1, <3>2 DEF Coming
  <2> QED  BY <1>3, <2>1, <2>2
<1> QED  BY <1>2, <1>3 DEF IrcRead

LEMMA EarningRead ==
    ASSUME LinkTyped, Earning, IrcRead, proved' = proved, slot' = slot,
           \A c \in Conn : conn'[c].acct = conn[c].acct
    PROVE  Earning'
<1> DEFINE P == {m \in IrcLine : m.k = "SVSLOGIN" /\ m.acct # None => <<m.c, m.acct>> \in proved}
<1>1. \A i \in 1..Len(toIrc) : toIrc[i] \in P  BY DEF LinkTyped, Earning
<1>2. \A i \in 1..Len(toIrc') : toIrc'[i] \in P
  <2> HIDE DEF P
  <2> QED  BY <1>1, IrcReadForm
<1>3. \A i \in 1..Len(toIrc') : toIrc'[i].k = "SVSLOGIN" /\ toIrc'[i].acct # None => <<toIrc'[i].c, toIrc'[i].acct>> \in proved
  BY <1>2
<1> QED  BY <1>3 DEF Earning

LEMMA QuietHubInv ==
    ASSUME Inv, NEW c, NEW k, NEW out, QuietHub(c, k, out)
    PROVE  Inv'
<1> USE DEF Inv
<1>1. /\ conn \in [Conn -> KConn] /\ c \in Conn /\ conn' = [conn EXCEPT ![c] = k] /\ k \in KConn
      /\ k.st = conn[c].st /\ k.nick = conn[c].nick /\ k.acct = conn[c].acct
  BY DEF QuietHub, HubTyped
<1>2. conn' \in [Conn -> KConn]  BY <1>1
<1>3. \A d \in Conn : conn'[d].st = conn[d].st /\ conn'[d].nick = conn[d].nick /\ conn'[d].acct = conn[d].acct
  BY <1>1
<1>4. HubTyped'  BY <1>2, <1>3 DEF HubTyped
<1>5. toNs \in Seq(NsLine) /\ out \in Seq(NsLine) /\ toNs' = toNs \o out /\ toNs' \in Seq(NsLine)
  BY QueueJoined DEF QuietHub, LinkTyped
<1>6. LinkTyped'
  <2>1. toIrc' \in Seq(IrcLine) /\ (toIrc = << >> => toIrc' = << >>)  BY IrcReadForm DEF QuietHub
  <2>2. up' = up /\ watch' = watch  BY DEF QuietHub
  <2>3. ~up => toNs' = << >>
    <3>1. ~up => out = << >> /\ toNs = << >>  BY DEF QuietHub, LinkTyped
    <3> QED  BY <1>5, <3>1
  <2> QED  BY <1>5, <2>1, <2>2, <2>3 DEF LinkTyped
<1>7. NsTyped' /\ SlotsTyped' /\ play' \in Plays  BY DEF QuietHub, NsTyped, SlotsTyped
<1>8. Earning'  BY <1>3, EarningRead DEF QuietHub
<1>9. Named'
  <2> SUFFICES ASSUME up  PROVE Named'  BY DEF Named, QuietHub
  <2>1. AtHub(conn', watch') = AtHub(conn, watch)  BY <1>3 DEF AtHub, QuietHub
  <2>2. \A i \in 1..Len(out) : Moved(AtHub(conn, watch), out[i]) = AtHub(conn, watch) /\ Claims(AtHub(conn, watch), out[i])
    BY DEF QuietHub, Moved
  <2>3. Leads(Picture(view), toNs \o out, AtHub(conn, watch))  BY <1>5, <2>2, LeadsStill DEF Named
  <2>4. view' = view  BY DEF QuietHub
  <2> QED  BY <1>5, <2>1, <2>3, <2>4 DEF Named
<1>10. /\ \A i \in 1..Len(toNs) : i \in 1..Len(toNs') /\ toNs'[i] = toNs[i]
       /\ \A i \in 1..Len(toNs') : \/ i \in 1..Len(toNs) /\ toNs'[i] = toNs[i]
                                   \/ i - Len(toNs) \in 1..Len(out) /\ toNs'[i] = out[i - Len(toNs)]
  BY <1>5, QueueJoined
<1>11. Gone'
  <2>1. \A i \in 1..Len(toNs') : toNs'[i].k = "SVCQUIT" => i \in 1..Len(toNs) /\ toNs'[i] = toNs[i]
    BY <1>10 DEF QuietHub
  <2>2. \A i \in 1..Len(toNs) : toNs[i].k = "SVCQUIT" => toNs[i].c \in Conn  BY <1>5, NsForm
  <2> QED  BY <1>3, <2>1, <2>2 DEF Gone
<1>12. NicksApart'  BY <1>3 DEF NicksApart, Here
<1>13. Accounts'
  <2>1. SUFFICES ASSUME watch', NEW d \in Conn, conn'[d].st = "user"
                 PROVE  /\ view'[d] # None \/ Introduced(toNs', d)
                        /\ Right(view', toNs', d, conn'[d].acct) \/ Coming(toIrc', d, conn'[d].acct)
    BY DEF Accounts
  <2>2. view' = view /\ conn'[d].acct = conn[d].acct /\ watch  BY <1>3, <2>1 DEF QuietHub
  <2>3. /\ view[d] # None \/ Introduced(toNs, d)
        /\ Right(view, toNs, d, conn[d].acct) \/ Coming(toIrc, d, conn[d].acct)
    BY <1>3, <2>1, <2>2 DEF Accounts
  <2>4. Introduced(toNs, d) => Introduced(toNs', d)  BY <1>10 DEF Introduced
  <2>5. \A i \in 1..Len(out) : ~Sets(out[i], d)  BY DEF QuietHub, Sets
  <2>6. Right(view, toNs, d, conn[d].acct) => Right(view, toNs', d, conn[d].acct)  BY <1>5, <2>5, RightStill
  <2>7. Coming(toIrc, d, conn[d].acct) => Coming(toIrc', d, conn[d].acct)  BY IrcReadForm DEF QuietHub
  <2> QED  BY <2>2, <2>3, <2>4, <2>6, <2>7
<1> QED  BY <1>4, <1>6, <1>7, <1>8, <1>9, <1>11, <1>12, <1>13

\* NickServ reads a line that is not about the users, or a timer of its own fires: whoever it
\* takes for logged in or out anew, it tells the hub.
Feeds == {"SVCUSER", "SVCNICK", "SVCQUIT", "SVCACCOUNT"}
NsRead == toNs' = toNs \/ (toNs # << >> /\ toNs' = Tail(toNs) /\ Head(toNs).k \notin Feeds)
Orders(out, c, a) == \E i \in 1..Len(out) : out[i].k = "SVSLOGIN" /\ out[i].c = c /\ out[i].acct = a
QuietNs(out) ==
    /\ out \in Seq(IrcLine) /\ (up \/ out = << >>)
    /\ toIrc' = toIrc \o out /\ NsRead /\ UNCHANGED <<play, conn, up, watch>>
    /\ proved \subseteq proved'
    /\ \A i \in 1..Len(out) : out[i].k = "SVSLOGIN" /\ out[i].acct # None => <<out[i].c, out[i].acct>> \in proved'
    /\ NsTyped' /\ SlotsTyped'
    /\ \A i \in 1..Len(slot') : slot'[i].step = 2 => <<slot'[i].c, slot'[i].acct[1]>> \in proved'
    /\ Picture(view') = Picture(view)
    /\ \A c \in Conn : view[c] # None /\ view'[c].acct # view[c].acct => Orders(out, c, view'[c].acct)

LEMMA NsReadForm ==
    ASSUME LinkTyped, NsRead
    PROVE  /\ toNs' \in Seq(NsLine) /\ (toNs = << >> => toNs' = << >>)
           /\ \A p, r : Leads(p, toNs, r) => Leads(p, toNs', r)
           /\ \A i \in 1..Len(toNs') : \E j \in 1..Len(toNs) : toNs'[i] = toNs[j]
           /\ \A c : Introduced(toNs, c) => Introduced(toNs', c)
           /\ \A v, w, c, a : Right(v, toNs, c, a) /\ w[c].acct = v[c].acct => Right(w, toNs', c, a)
<1>1. toNs \in Seq(NsLine)  BY DEF LinkTyped
<1>2. CASE toNs' = toNs
  <2>1. \A v, w, c, a : Right(v, toNs, c, a) /\ w[c].acct = v[c].acct => Right(w, toNs, c, a)  BY DEF Right
  <2> QED  BY <1>1, <1>2, <2>1
<1>3. CASE toNs # << >> /\ toNs' = Tail(toNs) /\ Head(toNs).k \notin Feeds
  <2>1. /\ Tail(toNs) \in Seq(NsLine) /\ Head(toNs) = toNs[1]
        /\ \A i \in 1..Len(Tail(toNs)) : i + 1 \in 1..Len(toNs) /\ Tail(toNs)[i] = toNs[i + 1]
        /\ \A i \in 1..Len(toNs) : i = 1 \/ (i - 1 \in 1..Len(Tail(toNs)) /\ Tail(toNs)[i - 1] = toNs[i])
    BY <1>1, <1>3, QueueRest
  <2>2. \A p : Moved(p, Head(toNs)) = p  BY <1>3 DEF Moved, Feeds
  <2>3. \A p, r : Leads(p, toNs, r) => Leads(p, toNs', r)  BY <1>1, <1>3, <2>2, LeadsFrom
  <2>4. ASSUME NEW c, Introduced(toNs, c)  PROVE Introduced(toNs', c)
    <3>1. PICK i \in 1..Len(toNs) : toNs[i].k = "SVCUSER" /\ toNs[i].c = c  BY <2>4 DEF Introduced
    <3>2. i # 1  BY <1>3, <2>1, <3>1 DEF Feeds
    <3> QED  BY <1>3, <2>1, <3>1, <3>2 DEF Introduced
  <2>5. ASSUME NEW v, NEW w, NEW c, NEW a, Right(v, toNs, c, a), w[c].acct = v[c].acct
        PROVE  Right(w, toNs', c, a)
    <3>1. ~Sets(Head(toNs), c)  BY <1>3 DEF Sets, Feeds
    <3> QED  BY <1>1, <1>3, <2>5, <3>1, RightRest
  <2> QED  BY <1>3, <2>1, <2>3, <2>4, <2>5
<1> QED  BY <1>2, <1>3 DEF NsRead

\* What NickServ orders the hub hears.
LEMMA OrdersComing ==
    ASSUME NEW q \in Seq(IrcLine), NEW out \in Seq(IrcLine), NEW c
    PROVE  /\ \A a : Coming(q, c, a) => Coming(q \o out, c, a)
           /\ \A a, b : Orders(out, c, a) /\ (a # None \/ b # None) => Coming(q \o out, c, b)
<1>1. /\ \A i \in 1..Len(q) : i \in 1..Len(q \o out) /\ (q \o out)[i] = q[i]
      /\ \A i \in 1..Len(out) : i + Len(q) \in 1..Len(q \o out) /\ (q \o out)[i + Len(q)] = out[i]
  BY QueueJoined
<1>2. ASSUME NEW a, Coming(q, c, a)  PROVE Coming(q \o out, c, a)  BY <1>1, <1>2 DEF Coming
<1>3. ASSUME NEW a, NEW b, Orders(out, c, a), a # None \/ b # None  PROVE Coming(q \o out, c, b)
  <2>1. PICK i \in 1..Len(out) : out[i].k = "SVSLOGIN" /\ out[i].c = c /\ out[i].acct = a  BY <1>3 DEF Orders
  <2>2. i + Len(q) \in 1..Len(q \o out) /\ (q \o out)[i + Len(q)] = out[i]  BY <1>1
  <2> QED  BY <1>3, <2>1, <2>2 DEF Coming
<1> QED  BY <1>2, <1>3

LEMMA QuietNsInv ==
    ASSUME Inv, NEW out, QuietNs(out)
    PROVE  Inv'
<1> USE DEF Inv
<1>1. play' \in Plays /\ HubTyped' /\ NsTyped' /\ SlotsTyped' /\ NicksApart'
  BY DEF QuietNs, HubTyped, NicksApart, Here
<1>2. /\ toNs' \in Seq(NsLine) /\ (toNs = << >> => toNs' = << >>)
      /\ (up => Leads(Picture(view), toNs', AtHub(conn, watch)))
      /\ \A i \in 1..Len(toNs') : \E j \in 1..Len(toNs) : toNs'[i] = toNs[j]
      /\ \A c : Introduced(toNs, c) => Introduced(toNs', c)
      /\ \A v, w, c, a : Right(v, toNs, c, a) /\ w[c].acct = v[c].acct => Right(w, toNs', c, a)
  BY NsReadForm DEF QuietNs, Named
<1>3. toIrc \in Seq(IrcLine) /\ out \in Seq(IrcLine) /\ toIrc' = toIrc \o out  BY DEF QuietNs, LinkTyped
<1>4. /\ toIrc' \in Seq(IrcLine)
      /\ \A i \in 1..Len(toIrc') : \/ i \in 1..Len(toIrc) /\ toIrc'[i] = toIrc[i]
                                   \/ i - Len(toIrc) \in 1..Len(out) /\ toIrc'[i] = out[i - Len(toIrc)]
  BY <1>3, QueueJoined
<1>5. LinkTyped'
  <2>1. up' = up /\ watch' = watch /\ up \in BOOLEAN /\ watch \in BOOLEAN  BY DEF QuietNs, LinkTyped
  <2>2. ~up => ~watch /\ toNs' = << >> /\ toIrc' = << >>
    <3>1. ~up => out = << >> /\ toIrc = << >> /\ toNs = << >> /\ ~watch  BY DEF QuietNs, LinkTyped
    <3> QED  BY <1>2, <1>3, <3>1
  <2> QED  BY <1>2, <1>4, <2>1, <2>2 DEF LinkTyped
<1>6. Earning'
  <2>1. \A c \in Conn : conn'[c].acct # None => <<c, conn'[c].acct>> \in proved'  BY DEF QuietNs, Earning
  <2>2. ASSUME NEW i \in 1..Len(toIrc'), toIrc'[i].k = "SVSLOGIN", toIrc'[i].acct # None
        PROVE  <<toIrc'[i].c, toIrc'[i].acct>> \in proved'
    BY <1>4, <2>2 DEF QuietNs, Earning
  <2>3. \A i \in 1..Len(slot') : slot'[i].step = 2 => <<slot'[i].c, slot'[i].acct[1]>> \in proved'  BY DEF QuietNs
  <2> QED  BY <2>1, <2>2, <2>3 DEF Earning
<1>7. Named'  BY <1>2 DEF QuietNs, Named
<1>8. Gone'  BY <1>2 DEF QuietNs, Gone
<1>9. Accounts'
  <2>1. conn' = conn /\ watch' = watch  BY DEF QuietNs
  <2>2. SUFFICES ASSUME watch, NEW c \in Conn, conn[c].st = "user"
                 PROVE  /\ view'[c] # None \/ Introduced(toNs', c)
                        /\ Right(view', toNs', c, conn[c].acct) \/ Coming(toIrc', c, conn[c].acct)
    BY <2>1 DEF Accounts
  <2>3. /\ view[c] # None \/ Introduced(toNs, c)
        /\ Right(view, toNs, c, conn[c].acct) \/ Coming(toIrc, c, conn[c].acct)
    BY <2>2 DEF Accounts
  <2>4. view'[c] = None <=> view[c] = None
    <3>1. (view[c] = None) <=> (Picture(view)[c] = None)  BY SeenForm DEF NsTyped
    <3>2. (view'[c] = None) <=> (Picture(view')[c] = None)  BY <1>1, SeenForm DEF NsTyped
    <3>3. Picture(view')[c] = Picture(view)[c]  BY DEF QuietNs
    <3> QED  BY <3>1, <3>2, <3>3
  <2>5. view'[c] # None \/ Introduced(toNs', c)  BY <1>2, <2>3, <2>4
  <2>6. Coming(toIrc, c, conn[c].acct) => Coming(toIrc', c, conn[c].acct)  BY <1>3, OrdersComing
  <2>7. ASSUME Right(view, toNs, c, conn[c].acct)
        PROVE  Right(view', toNs', c, conn[c].acct) \/ Coming(toIrc', c, conn[c].acct)
    <3>1. CASE view'[c].acct = view[c].acct  BY <1>2, <2>7, <3>1
    <3>2. CASE view'[c].acct # view[c].acct /\ view[c] # None
      <4>1. Orders(out, c, view'[c].acct)  BY <3>2 DEF QuietNs
      <4>2. CASE view'[c].acct # None \/ conn[c].acct # None  BY <1>3, <4>1, <4>2, OrdersComing
      <4>3. CASE view'[c].acct = None /\ conn[c].acct = None
        \* The last line about it says None already.
        <5>1. ~((\A j \in 1..Len(toNs) : ~Sets(toNs[j], c)) /\ view[c].acct = conn[c].acct)  BY <3>2, <4>3
        <5>2. PICK i \in 1..Len(toNs) : Sets(toNs[i], c) /\ toNs[i].acct = conn[c].acct
                                        /\ \A j \in (i + 1)..Len(toNs) : ~Sets(toNs[j], c)
          BY <2>7, <5>1 DEF Right
        <5>3. Right(view', toNs, c, conn[c].acct)  BY <5>2 DEF Right
        <5> QED  BY <1>2, <5>3
      <4> QED  BY <4>2, <4>3
    <3>3. CASE view[c] = None
      <4>1. Introduced(toNs, c)  BY <2>3, <3>3
      <4>2. PICK i \in 1..Len(toNs) : Sets(toNs[i], c)  BY <4>1 DEF Introduced, Sets
      <4>3. PICK j \in 1..Len(toNs) : Sets(toNs[j], c) /\ toNs[j].acct = conn[c].acct
                                      /\ \A l \in (j + 1)..Len(toNs) : ~Sets(toNs[l], c)
        BY <2>7, <4>2 DEF Right
      <4>4. Right(view', toNs, c, conn[c].acct)  BY <4>3 DEF Right
      <4> QED  BY <1>2, <4>4
    <3> QED  BY <3>1, <3>2, <3>3
  <2> QED  BY <2>3, <2>5, <2>6, <2>7
<1> QED  BY <1>1, <1>5, <1>6, <1>7, <1>8, <1>9

\* Somebody comes, goes or changes nick, and the feed says so.
Telling(c, k, out) ==
    \/ out = << >> /\ AtHub(conn', watch) = AtHub(conn, watch)
    \/ \E m \in NsLine :
         /\ out = <<m>> /\ up /\ m.k \in {"SVCUSER", "SVCNICK", "SVCQUIT"} /\ m.c = c
         /\ AtHub(conn', watch) = Moved(AtHub(conn, watch), m)
         /\ (m.k = "SVCQUIT" => k.st = "gone") /\ (m.k = "SVCUSER" => m.acct = k.acct)
LoudHub(c, k, out) ==
    /\ c \in Conn /\ k \in KConn /\ (k.st \in {"open", "user"} => k.nick \in Nick) /\ k.acct = conn[c].acct
    /\ (conn[c].st = "gone" => k.st = "gone")
    /\ conn' = [conn EXCEPT ![c] = k] /\ toNs' = toNs \o out /\ IrcRead
    /\ Telling(c, k, out)
    /\ watch /\ k.st = "user" /\ conn[c].st # "user" => \E m \in NsLine : out = <<m>> /\ m.k = "SVCUSER"
    /\ NicksApart' /\ UNCHANGED <<play, up, watch, store, view, slot, proved>>

LEMMA LoudHubInv ==
    ASSUME Inv, NEW c, NEW k, NEW out, LoudHub(c, k, out)
    PROVE  Inv'
<1> USE DEF Inv
<1>1. conn \in [Conn -> KConn] /\ c \in Conn /\ conn' = [conn EXCEPT ![c] = k] /\ k \in KConn /\ k.acct = conn[c].acct
  BY DEF LoudHub, HubTyped
<1>2. conn' \in [Conn -> KConn] /\ conn'[c] = k /\ \A d \in Conn \ {c} : conn'[d] = conn[d]  BY <1>1
<1>3. \A d \in Conn : conn'[d].acct = conn[d].acct  BY <1>1, <1>2
<1>4. HubTyped'  BY <1>2 DEF HubTyped, LoudHub
<1>5. toNs \in Seq(NsLine) /\ out \in Seq(NsLine) /\ toNs' = toNs \o out /\ toNs' \in Seq(NsLine)
  <2>1. out = << >> \/ \E m \in NsLine : out = <<m>>  BY DEF LoudHub, Telling
  <2>2. << >> \in Seq(NsLine) /\ \A m \in NsLine : <<m>> \in Seq(NsLine)  BY OneLine
  <2>3. out \in Seq(NsLine)  BY <2>1, <2>2
  <2> QED  BY <2>3, QueueJoined DEF LoudHub, LinkTyped
<1>6. LinkTyped'
  <2>1. toIrc' \in Seq(IrcLine) /\ (toIrc = << >> => toIrc' = << >>)  BY IrcReadForm DEF LoudHub
  <2>2. up' = up /\ watch' = watch  BY DEF LoudHub
  <2>3. ~up => toNs' = << >>
    <3>1. ~up => out = << >> /\ toNs = << >>  BY DEF LoudHub, Telling, LinkTyped
    <3> QED  BY <1>5, <3>1
  <2> QED  BY <1>5, <2>1, <2>2, <2>3 DEF LinkTyped
<1>7. NsTyped' /\ SlotsTyped' /\ play' \in Plays /\ NicksApart'  BY DEF LoudHub, NsTyped, SlotsTyped
<1>8. Earning'  BY <1>3, EarningRead DEF LoudHub
<1>9. view' = view /\ watch' = watch  BY DEF LoudHub
<1>10. /\ \A i \in 1..Len(toNs) : i \in 1..Len(toNs') /\ toNs'[i] = toNs[i]
       /\ \A i \in 1..Len(out) : i + Len(toNs) \in 1..Len(toNs') /\ toNs'[i + Len(toNs)] = out[i]
       /\ \A i \in 1..Len(toNs') : \/ i \in 1..Len(toNs) /\ toNs'[i] = toNs[i]
                                   \/ i - Len(toNs) \in 1..Len(out) /\ toNs'[i] = out[i - Len(toNs)]
  BY <1>5, QueueJoined
<1>11. CASE out = << >> /\ AtHub(conn', watch) = AtHub(conn, watch)
  <2>1. toNs' = toNs  BY <1>5, <1>11
  <2>2. Named'  BY <1>9, <1>11, <2>1 DEF Named, LoudHub
  <2>3. \A m : out # <<m>>  BY <1>11
  <2>4. Gone'
    <3>1. \A i \in 1..Len(toNs) : toNs[i].k = "SVCQUIT" => toNs[i].c \in Conn  BY <1>5, NsForm
    <3> QED  BY <1>2, <2>1, <3>1 DEF Gone, LoudHub
  <2>5. Accounts'
    <3>1. SUFFICES ASSUME watch, NEW d \in Conn, conn'[d].st = "user"
                   PROVE  /\ view[d] # None \/ Introduced(toNs, d)
                          /\ Right(view, toNs, d, conn[d].acct) \/ Coming(toIrc', d, conn[d].acct)
      BY <1>3, <1>9, <2>1 DEF Accounts
    <3>2. conn[d].st = "user"  BY <1>2, <2>3, <3>1 DEF LoudHub
    <3>3. Coming(toIrc, d, conn[d].acct) => Coming(toIrc', d, conn[d].acct)  BY IrcReadForm DEF LoudHub
    <3> QED  BY <3>1, <3>2, <3>3 DEF Accounts
  <2> QED  BY <1>4, <1>6, <1>7, <1>8, <2>2, <2>4, <2>5
<1>12. CASE \E m \in NsLine :
         /\ out = <<m>> /\ up /\ m.k \in {"SVCUSER", "SVCNICK", "SVCQUIT"} /\ m.c = c
         /\ AtHub(conn', watch) = Moved(AtHub(conn, watch), m)
         /\ (m.k = "SVCQUIT" => k.st = "gone") /\ (m.k = "SVCUSER" => m.acct = k.acct)
  <2>1. PICK m \in NsLine :
         /\ out = <<m>> /\ up /\ m.k \in {"SVCUSER", "SVCNICK", "SVCQUIT"} /\ m.c = c
         /\ AtHub(conn', watch) = Moved(AtHub(conn, watch), m)
         /\ (m.k = "SVCQUIT" => k.st = "gone") /\ (m.k = "SVCUSER" => m.acct = k.acct)
    BY <1>12
  <2>2. Len(out) = 1 /\ out[1] = m /\ 1 \in 1..Len(out) /\ \A i \in 1..Len(out) : i = 1  BY <2>1
  <2>3. toNs' = Append(toNs, m)  BY <1>5, <2>1
  <2>4. Named'
    <3>1. Claims(AtHub(conn, watch), m)  BY <2>1 DEF Claims
    <3>2. Leads(Picture(view), Append(toNs, m), Moved(AtHub(conn, watch), m))  BY <1>5, <2>1, <3>1, LeadsOn DEF Named
    <3> QED  BY <1>9, <2>1, <2>3, <3>2 DEF Named
  <2>5. Gone'
    <3>1. \A i \in 1..Len(toNs) : toNs[i].k = "SVCQUIT" => toNs[i].c \in Conn  BY <1>5, NsForm
    <3>2. \A i \in 1..Len(toNs') : (i \in 1..Len(toNs) /\ toNs'[i] = toNs[i]) \/ toNs'[i] = m  BY <1>10, <2>2
    <3>3. \A d \in Conn : conn[d].st = "gone" => conn'[d].st = "gone"  BY <1>2 DEF LoudHub
    <3>4. m.k = "SVCQUIT" => conn'[m.c].st = "gone"  BY <1>2, <2>1
    <3> QED  BY <3>1, <3>2, <3>3, <3>4 DEF Gone
  <2>6. Accounts'
    <3>1. SUFFICES ASSUME watch, NEW d \in Conn, conn'[d].st = "user"
                   PROVE  /\ view[d] # None \/ Introduced(toNs', d)
                          /\ Right(view, toNs', d, conn[d].acct) \/ Coming(toIrc', d, conn[d].acct)
      BY <1>3, <1>9 DEF Accounts
    <3>2. CASE m.k = "SVCUSER" /\ d = c
      <4>1. Introduced(toNs', d)  BY <1>10, <2>1, <2>2, <3>2 DEF Introduced
      <4>2. Sets(out[1], d) /\ out[1].acct = conn[d].acct  BY <1>1, <2>1, <2>2, <3>2 DEF Sets
      <4>3. Right(view, toNs \o out, d, conn[d].acct)  BY <1>5, <2>2, <4>2, RightSaid
      <4> QED  BY <1>5, <4>1, <4>3
    <3>3. CASE ~(m.k = "SVCUSER" /\ d = c)
      <4>1. conn[d].st = "user"
        <5>1. CASE d = c
          <6>1. \A x : out = <<x>> => x = m  BY <2>1
          <6> QED  BY <1>2, <3>1, <3>3, <5>1, <6>1 DEF LoudHub
        <5> QED  BY <1>2, <3>1, <5>1
      <4>2. /\ view[d] # None \/ Introduced(toNs, d)
            /\ Right(view, toNs, d, conn[d].acct) \/ Coming(toIrc, d, conn[d].acct)
        BY <3>1, <4>1 DEF Accounts
      <4>3. Introduced(toNs, d) => Introduced(toNs', d)  BY <1>10 DEF Introduced
      <4>4. \A i \in 1..Len(out) : ~Sets(out[i], d)  BY <2>1, <2>2, <3>3 DEF Sets
      <4>5. Right(view, toNs, d, conn[d].acct) => Right(view, toNs', d, conn[d].acct)  BY <1>5, <4>4, RightStill
      <4>6. Coming(toIrc, d, conn[d].acct) => Coming(toIrc', d, conn[d].acct)  BY IrcReadForm DEF LoudHub
      <4> QED  BY <4>2, <4>3, <4>5, <4>6
    <3> QED  BY <3>2, <3>3
  <2> QED  BY <1>4, <1>6, <1>7, <1>8, <2>4, <2>5, <2>6
<1> QED  BY <1>11, <1>12 DEF LoudHub, Telling

(***************************************************************************)
(* The hub.                                                                *)
(***************************************************************************)
LEMMA NsLines ==
    ASSUME NEW c \in Conn
    PROVE  /\ \A n \in Nick, a \in Anyone : [k |-> "SVCUSER", c |-> c, nick |-> n, acct |-> a] \in NsLine
           /\ \A n \in Nick : [k |-> "SVCNICK", c |-> c, nick |-> n] \in NsLine
           /\ [k |-> "SVCQUIT", c |-> c] \in NsLine /\ [k |-> "ABORT", c |-> c] \in NsLine
           /\ \A a \in Anyone : [k |-> "SVCACCOUNT", c |-> c, acct |-> a] \in NsLine
           /\ \A m \in Mechs : [k |-> "START", c |-> c, mech |-> m] \in NsLine
           /\ \A d \in Data : [k |-> "DATA", c |-> c, data |-> d] \in NsLine
           /\ \A n \in Nick, p \in Password : [k |-> "SVCREGISTER", c |-> c, name |-> n, pw |-> p] \in NsLine
<1>1. \A n \in Nick, a \in Anyone : [k |-> "SVCUSER", c |-> c, nick |-> n, acct |-> a] \in NsLine  BY DEF NsLine
<1>2. \A n \in Nick : [k |-> "SVCNICK", c |-> c, nick |-> n] \in NsLine  BY DEF NsLine
<1>3. [k |-> "SVCQUIT", c |-> c] \in NsLine /\ [k |-> "ABORT", c |-> c] \in NsLine  BY DEF NsLine
<1>4. \A a \in Anyone : [k |-> "SVCACCOUNT", c |-> c, acct |-> a] \in NsLine  BY DEF NsLine
<1>5. \A m \in Mechs : [k |-> "START", c |-> c, mech |-> m] \in NsLine  BY DEF NsLine
<1>6. \A d \in Data : [k |-> "DATA", c |-> c, data |-> d] \in NsLine  BY DEF NsLine
<1>7. \A n \in Nick, p \in Password : [k |-> "SVCREGISTER", c |-> c, name |-> n, pw |-> p] \in NsLine  BY DEF NsLine
<1> QED  BY <1>1, <1>2, <1>3, <1>4, <1>5, <1>6, <1>7

SameNs == UNCHANGED <<play, up, watch, store, view, slot, proved>>

\* A line of the hub that is not about its users.
Plain(m) == m.k \in {"START", "DATA", "ABORT", "SVCREGISTER"}
LEMMA HubPlain ==
    ASSUME Inv, NEW c \in Conn, NEW k \in KConn, NEW out \in Seq(NsLine),
           k.st = conn[c].st, k.nick = conn[c].nick, k.acct = conn[c].acct, up \/ out = << >>,
           \A i \in 1..Len(out) : Plain(out[i]),
           conn' = [conn EXCEPT ![c] = k], toNs' = toNs \o out, IrcRead, SameNs
    PROVE  Inv'
<1>1. \A i \in 1..Len(out) : out[i].k \notin {"SVCUSER", "SVCNICK", "SVCQUIT", "SVCACCOUNT"}
                             /\ Claims(AtHub(conn, watch), out[i])
  BY DEF Claims, Plain
<1>2. QuietHub(c, k, out)  BY <1>1 DEF QuietHub, SameNs
<1> QED  BY <1>2, QuietHubInv

LEMMA WelcomeInv ==
    ASSUME Inv, NEW c \in Conn, NEW k \in KConn,
           k.st = conn[c].st, k.nick = conn[c].nick, k.acct = conn[c].acct,
           Put(c, Welcome(c, k)), IrcRead, SameNs
    PROVE  Inv'
<1> DEFINE asks == k.pass # None /\ k.acct = None /\ k.mech = None /\ up /\ ~HubThrottled
           w == Welcome(c, k)
<1> USE DEF Inv
<1>1. conn' = [conn EXCEPT ![c] = w.conn] /\ toNs' = toNs \o w.out  BY DEF Put, Tell
<1>2. CASE k.st # "open" \/ ~k.ready \/ k.held
  <2>1. w.conn = k /\ w.out = << >>  BY <1>2 DEF Welcome
  <2>2. << >> \in Seq(NsLine) /\ Len(<< >>) = 0 /\ 1..Len(<< >>) = {}  BY OneLine
  <2> QED  BY <1>1, <2>1, <2>2, HubPlain
<1>3. CASE ~(k.st # "open" \/ ~k.ready \/ k.held) /\ asks
  <2> DEFINE x == [k EXCEPT !.pass = None, !.held = TRUE, !.style = "pass", !.mech = "PLAIN"]
             m == [k |-> "START", c |-> c, mech |-> "PLAIN"]
             n == [k |-> "DATA", c |-> c, data |-> k.pass]
  <2>1. w.conn = x /\ w.out = <<m, n>>  BY <1>3 DEF Welcome
  <2>2. "PLAIN" \in Mechs /\ k.pass \in Data  BY <1>3 DEF Mechs, KConn
  <2>3. x \in KConn /\ x.st = k.st /\ x.nick = k.nick /\ x.acct = k.acct  BY <2>2 DEF KConn
  <2>4. m \in NsLine /\ n \in NsLine /\ Plain(m) /\ Plain(n)  BY <2>2, NsLines DEF Plain
  <2> HIDE DEF x, m, n
  <2>5. <<m, n>> \in Seq(NsLine) /\ \A i \in 1..Len(<<m, n>>) : Plain(<<m, n>>[i])
    <3>1. \A i \in 1..Len(<<m, n>>) : <<m, n>>[i] \in {m, n}  BY <2>4, OneLine
    <3> QED  BY <2>4, <3>1, OneLine
  <2> QED  BY <1>1, <1>3, <2>1, <2>3, <2>5, HubPlain
<1>4. CASE ~(k.st # "open" \/ ~k.ready \/ k.held) /\ ~asks
  <2> DEFINE x == Registered(k)
             m == User(c, k)
             out == IF watch THEN <<m>> ELSE << >>
  <2>1. w.conn = x /\ w.out = out  BY <1>4 DEF Welcome
  <2>2. k.nick \in Nick /\ k.acct \in Anyone  BY <1>4 DEF HubTyped, KConn
  <2>3. x \in KConn /\ x.st = "user" /\ x.nick = k.nick /\ x.acct = k.acct  BY DEF Registered, KConn
  <2>4. m \in NsLine /\ m.k = "SVCUSER" /\ m.c = c /\ m.acct = k.acct /\ m.nick = k.nick  BY <2>2, NsLines DEF User
  <2>5. /\ conn' = [conn EXCEPT ![c] = x] /\ conn \in [Conn -> KConn] /\ conn'[c] = x
        /\ \A d \in Conn \ {c} : conn'[d] = conn[d]
    BY <1>1, <2>1 DEF HubTyped
  <2>6. watch => AtHub(conn', watch) = Moved(AtHub(conn, watch), m)
    <3>1. ASSUME watch  PROVE AtHub(conn', watch) = [AtHub(conn, watch) EXCEPT ![c] = k.nick]
      BY <2>3, <2>5, <3>1 DEF AtHub
    <3> QED  BY <2>4, <3>1 DEF Moved
  <2>7. ~watch => AtHub(conn', watch) = AtHub(conn, watch)  BY DEF AtHub
  <2>8. Telling(c, x, out)
    <3>1. CASE watch
      <4>1. up  BY <3>1 DEF LinkTyped
      <4>2. out = <<m>>  BY <3>1
      <4> QED  BY <2>3, <2>4, <2>6, <3>1, <4>1, <4>2 DEF Telling
    <3>2. CASE ~watch  BY <2>7, <3>2 DEF Telling
    <3> QED  BY <3>1, <3>2
  <2>9. NicksApart'
    <3>1. \A d \in Conn : conn'[d].nick = conn[d].nick /\ (d \in Here' => d \in Here)  BY <1>4, <2>3, <2>5 DEF Here
    <3> QED  BY <3>1 DEF NicksApart, Here
  <2>10. watch => \E n \in NsLine : out = <<n>> /\ n.k = "SVCUSER"  BY <2>4
  <2>11. conn[c].st # "gone"  BY <1>4
  <2> HIDE DEF x, m, out, w
  <2>12. toNs' = toNs \o out  BY <1>1, <2>1
  <2>13. LoudHub(c, x, out)  BY <2>2, <2>3, <2>5, <2>8, <2>9, <2>10, <2>11, <2>12 DEF LoudHub, SameNs
  <2> QED  BY <2>13, LoudHubInv
<1> QED  BY <1>2, <1>3, <1>4

\* NICK and SVSNICK.
LEMMA NickInv ==
    ASSUME Inv, NEW c \in Users, NEW n \in Nick, ~Taken(n) \/ conn[c].nick = n,
           conn' = [conn EXCEPT ![c].nick = n], Tell(Feed(c, [k |-> "SVCNICK", c |-> c, nick |-> n])), IrcRead, SameNs
    PROVE  Inv'
<1> DEFINE k == [conn[c] EXCEPT !.nick = n]
           m == [k |-> "SVCNICK", c |-> c, nick |-> n]
           out == IF watch THEN <<m>> ELSE << >>
<1> USE DEF Inv
<1>1. c \in Conn /\ conn[c].st = "user" /\ conn \in [Conn -> KConn] /\ conn[c] \in KConn /\ conn[c].nick \in Nick
  BY DEF Users, HubTyped
<1>2. k \in KConn /\ k.st = "user" /\ k.nick = n /\ k.acct = conn[c].acct  BY <1>1 DEF KConn, Anyone
<1>3. conn' = [conn EXCEPT ![c] = k] /\ conn'[c] = k /\ \A d \in Conn \ {c} : conn'[d] = conn[d]  BY <1>1
<1>4. toNs' = toNs \o out  BY <1>1 DEF Tell, Feed
<1>5. m \in NsLine /\ m.k = "SVCNICK" /\ m.c = c /\ m.nick = n  BY <1>1, NsLines
<1>6. watch => AtHub(conn', watch) = Moved(AtHub(conn, watch), m)
  <2>1. ASSUME watch  PROVE AtHub(conn', watch) = [AtHub(conn, watch) EXCEPT ![c] = n]  BY <1>1, <1>2, <1>3, <2>1 DEF AtHub
  <2>2. watch => AtHub(conn, watch)[c] # None  BY <1>1, Consts DEF AtHub
  <2> QED  BY <1>5, <2>1, <2>2 DEF Moved
<1>7. ~watch => AtHub(conn', watch) = AtHub(conn, watch)  BY DEF AtHub
<1> HIDE DEF k, m
<1>8. Telling(c, k, out)
  <2>1. CASE watch
    <3>1. up  BY <2>1 DEF LinkTyped
    <3>2. out = <<m>>  BY <2>1
    <3> QED  BY <1>5, <1>6, <2>1, <3>1, <3>2 DEF Telling
  <2>2. CASE ~watch  BY <1>7, <2>2 DEF Telling
  <2> QED  BY <2>1, <2>2
<1>9. NicksApart'
  <2>1. \A d \in Conn : d \in Here' <=> d \in Here  BY <1>1, <1>2, <1>3 DEF Here
  <2>2. \A d \in Here : d # c => conn[d].nick # n
    <3>1. c \in Here  BY <1>1 DEF Here
    <3> QED  BY <3>1 DEF Taken, NicksApart
  <2>3. \A d \in Conn : d # c => conn'[d].nick = conn[d].nick  BY <1>3
  <2>4. \A d \in Here : d \in Conn  BY DEF Here
  <2>5. \A d \in Here' : d \in Here  BY <2>1 DEF Here
  <2> QED  BY <1>2, <1>3, <2>2, <2>3, <2>4, <2>5 DEF NicksApart
<1>10. LoudHub(c, k, out)  BY <1>1, <1>2, <1>3, <1>4, <1>8, <1>9 DEF LoudHub, SameNs
<1> QED  BY <1>10, LoudHubInv

\* QUIT and KILL.
LEMMA GoneInv ==
    ASSUME Inv, NEW c \in Here,
           conn' = [conn EXCEPT ![c].st = "gone", ![c].mech = None, ![c].held = FALSE],
           Tell(Feed(c, [k |-> "SVCQUIT", c |-> c])), IrcRead, SameNs
    PROVE  Inv'
<1> DEFINE k == [conn[c] EXCEPT !.st = "gone", !.mech = None, !.held = FALSE]
           m == [k |-> "SVCQUIT", c |-> c]
           out == IF watch /\ conn[c].st = "user" THEN <<m>> ELSE << >>
<1> USE DEF Inv
<1>1. c \in Conn /\ conn \in [Conn -> KConn] /\ conn[c] \in KConn  BY DEF Here, HubTyped
<1>2. k \in KConn /\ k.st = "gone" /\ k.acct = conn[c].acct  BY <1>1 DEF KConn
<1>3. conn' = [conn EXCEPT ![c] = k] /\ conn'[c] = k /\ \A d \in Conn \ {c} : conn'[d] = conn[d]  BY <1>1
<1>4. toNs' = toNs \o out  BY DEF Tell, Feed
<1>5. m \in NsLine /\ m.k = "SVCQUIT" /\ m.c = c  BY <1>1, NsLines
<1>6. watch => AtHub(conn', watch) = Moved(AtHub(conn, watch), m)
  <2>1. ASSUME watch  PROVE AtHub(conn', watch) = [AtHub(conn, watch) EXCEPT ![c] = None]  BY <1>1, <1>2, <1>3, <2>1 DEF AtHub
  <2> QED  BY <1>5, <2>1 DEF Moved
<1>7. ~(watch /\ conn[c].st = "user") => AtHub(conn', watch) = AtHub(conn, watch)  BY <1>2, <1>3 DEF AtHub
<1> HIDE DEF k, m
<1>8. Telling(c, k, out)
  <2>1. CASE watch /\ conn[c].st = "user"
    <3>1. up  BY <2>1 DEF LinkTyped
    <3>2. out = <<m>>  BY <2>1
    <3> QED  BY <1>2, <1>5, <1>6, <2>1, <3>1, <3>2 DEF Telling
  <2>2. CASE ~(watch /\ conn[c].st = "user")  BY <1>7, <2>2 DEF Telling
  <2> QED  BY <2>1, <2>2
<1>9. NicksApart'
  <2>1. \A d \in Conn : d \in Here' => d \in Here /\ conn'[d] = conn[d]  BY <1>2, <1>3 DEF Here
  <2>2. \A d \in Here' : d \in Conn  BY DEF Here
  <2> QED  BY <2>1, <2>2 DEF NicksApart
<1>10. LoudHub(c, k, out)  BY <1>1, <1>2, <1>3, <1>4, <1>8, <1>9 DEF LoudHub, SameNs
<1> QED  BY <1>10, LoudHubInv

LEMMA ConnectInv ==
    ASSUME Inv, UNCHANGED play, NEW c \in Conn, NEW p \in play.pass[c] \cup {None}, Connect(c, p)
    PROVE  Inv'
<1> DEFINE n == IF \E d \in Here : conn[d].nick = FirstNick[c] THEN None ELSE FirstNick[c]
           k == [conn[c] EXCEPT !.st = "open", !.pass = p, !.nick = n]
<1> USE DEF Inv
<1>1. conn[c].st = "none" /\ conn \in [Conn -> KConn] /\ conn[c] \in KConn  BY DEF Connect, HubTyped
<1>2. conn' = [conn EXCEPT ![c] = k] /\ conn'[c] = k /\ \A d \in Conn \ {c} : conn'[d] = conn[d]  BY <1>1 DEF Connect
<1>3. n = FirstNick[c] /\ n \in Nick /\ \A d \in Here : conn[d].nick # n
  <2>1. n # None  BY <1>1, <1>2 DEF Connect, KConn
  <2> QED  BY <2>1, Consts
<1>4. p \in Data \cup {None}  BY PlayForm
<1> HIDE DEF n
<1>5. k \in KConn /\ k.st = "open" /\ k.nick = n /\ k.acct = conn[c].acct  BY <1>1, <1>3, <1>4 DEF KConn, Anyone
<1> HIDE DEF k
<1>6. AtHub(conn', watch) = AtHub(conn, watch)  BY <1>1, <1>2, <1>5 DEF AtHub
<1>7. NicksApart'
  <2>1. \A d \in Conn : d \in Here' => d = c \/ (d \in Here /\ conn'[d] = conn[d])  BY <1>2 DEF Here
  <2>2. \A d \in Here' : d \in Conn  BY DEF Here
  <2> QED  BY <1>2, <1>3, <1>5, <2>1, <2>2 DEF NicksApart
<1>8. toNs' = toNs \o << >> /\ IrcRead /\ SameNs  BY DEF Connect, ByUser, ns, IrcRead, SameNs, LinkTyped
<1>9. LoudHub(c, k, << >>)  BY <1>1, <1>2, <1>3, <1>5, <1>6, <1>7, <1>8 DEF LoudHub, SameNs, Telling
<1> QED  BY <1>9, LoudHubInv

LEMMA SayInv ==
    ASSUME Inv, UNCHANGED play, NEW t \in play.typed, Say(t)
    PROVE  Inv'
<1> DEFINE m == [k |-> "PRIVMSG", nick |-> conn[t.c].nick, t |-> t]
<1> USE DEF Inv
<1>1. t \in Typed /\ t.c \in Conn /\ conn[t.c].st = "user" /\ up  BY PlayForm DEF Say, Users, Typed
<1>2. conn \in [Conn -> KConn] /\ conn[t.c] \in KConn /\ conn[t.c].nick \in Nick  BY <1>1 DEF HubTyped
<1>3. m \in NsLine /\ m.k = "PRIVMSG" /\ m.nick = conn[t.c].nick /\ m.t = t  BY <1>1, <1>2 DEF NsLine
<1>4. Claims(AtHub(conn, watch), m)
  <2>1. SUFFICES ASSUME NEW c \in Conn, AtHub(conn, watch)[c] = conn[t.c].nick  PROVE c = t.c  BY <1>3 DEF Claims
  <2>2. watch /\ conn[c].st = "user" /\ conn[c].nick = conn[t.c].nick  BY <1>2, <2>1, Consts DEF AtHub, Nobody
  <2>3. c \in Here /\ t.c \in Here  BY <1>1, <2>2 DEF Here
  <2> QED  BY <2>2, <2>3 DEF NicksApart
<1>5. conn' = [conn EXCEPT ![t.c] = conn[t.c]] /\ toNs' = toNs \o <<m>> /\ IrcRead /\ SameNs
  BY <1>1, <1>2 DEF Say, Tell, ByUser, ns, IrcRead, SameNs
<1> HIDE DEF m
<1>6. <<m>> \in Seq(NsLine) /\ \A i \in 1..Len(<<m>>) : <<m>>[i] = m  BY <1>3, OneLine
<1>7. QuietHub(t.c, conn[t.c], <<m>>)  BY <1>1, <1>2, <1>3, <1>4, <1>5, <1>6 DEF QuietHub, SameNs
<1> QED  BY <1>7, QuietHubInv

LEMMA ByUsersInv ==
    ASSUME Inv, UNCHANGED play, ByUsers
    PROVE  Inv'
<1> USE DEF Inv
<1>1. conn \in [Conn -> KConn] /\ \A c \in Conn : conn[c] \in KConn /\ conn[c].acct \in Anyone  BY DEF HubTyped, KConn
<1>2. << >> \in Seq(NsLine) /\ Len(<< >>) = 0 /\ 1..Len(<< >>) = {}  BY OneLine
<1>3. ASSUME NEW m \in NsLine, Plain(m)
      PROVE  /\ <<m>> \in Seq(NsLine) /\ \A i \in 1..Len(<<m>>) : Plain(<<m>>[i])
             /\ ToServices(<<m>>) \in Seq(NsLine) /\ (up \/ ToServices(<<m>>) = << >>)
             /\ \A i \in 1..Len(ToServices(<<m>>)) : Plain(ToServices(<<m>>)[i])
  <2>1. <<m>> \in Seq(NsLine) /\ \A i \in 1..Len(<<m>>) : Plain(<<m>>[i])  BY <1>3, OneLine
  <2> QED  BY <1>2, <2>1 DEF ToServices
<1>4. ByUser => IrcRead /\ SameNs  BY DEF ByUser, ns, IrcRead, SameNs
<1>5. ASSUME NEW t \in play.typed, Say(t)  PROVE Inv'  BY <1>5, SayInv
<1>6. ASSUME NEW c \in Conn, Ready(c)  PROVE Inv'
  <2> DEFINE k == [conn[c] EXCEPT !.ready = TRUE]
  <2>1. k \in KConn /\ k.st = conn[c].st /\ k.nick = conn[c].nick /\ k.acct = conn[c].acct  BY <1>1 DEF KConn
  <2>2. Put(c, Welcome(c, k)) /\ ByUser  BY <1>6 DEF Ready
  <2> HIDE DEF k
  <2> QED  BY <1>4, <2>1, <2>2, WelcomeInv
<1>7. ASSUME NEW c \in Conn, AuthAbort(c)  PROVE Inv'
  <2> DEFINE k == NoSasl(conn[c])
             m == [k |-> "ABORT", c |-> c]
  <2>1. k \in KConn /\ k.st = conn[c].st /\ k.nick = conn[c].nick /\ k.acct = conn[c].acct  BY <1>1 DEF KConn, NoSasl
  <2>2. m \in NsLine /\ Plain(m)  BY NsLines DEF Plain
  <2>3. conn' = [conn EXCEPT ![c] = k] /\ toNs' = toNs \o ToServices(<<m>>) /\ ByUser  BY <1>1, <1>7 DEF AuthAbort, Tell
  <2> HIDE DEF k, m
  <2> QED  BY <1>3, <1>4, <2>1, <2>2, <2>3, HubPlain
<1>8. ASSUME NEW c \in Conn, Leave(c)  PROVE Inv'
  BY <1>4, <1>8, GoneInv DEF Leave
<1>9. ASSUME NEW c \in Conn, NEW p \in play.pass[c] \cup {None}, Connect(c, p)  PROVE Inv'  BY <1>9, ConnectInv
<1>10. ASSUME NEW c \in Conn, NEW a \in play.mech[c], Authenticate(c, a)  PROVE Inv'
  <2> DEFINE k == [conn[c] EXCEPT !.mech = a, !.style = "legacy"]
             m == [k |-> "START", c |-> c, mech |-> a]
  <2>1. a \in Mechs  BY PlayForm
  <2>2. k \in KConn /\ k.st = conn[c].st /\ k.nick = conn[c].nick /\ k.acct = conn[c].acct  BY <1>1, <2>1 DEF KConn
  <2>3. m \in NsLine /\ Plain(m)  BY <2>1, NsLines DEF Plain
  <2>4. conn' = [conn EXCEPT ![c] = k] /\ toNs' = toNs \o <<m>> /\ up /\ ByUser  BY <1>1, <1>10 DEF Authenticate, Tell
  <2> HIDE DEF k, m
  <2> QED  BY <1>3, <1>4, <2>2, <2>3, <2>4, HubPlain
<1>11. ASSUME NEW c \in Conn, NEW d \in play.data[c], AuthData(c, d)  PROVE Inv'
  <2> DEFINE m == [k |-> "DATA", c |-> c, data |-> d]
  <2>1. d \in Data  BY PlayForm
  <2>2. m \in NsLine /\ Plain(m)  BY <2>1, NsLines DEF Plain
  <2>3. conn' = [conn EXCEPT ![c] = conn[c]] /\ toNs' = toNs \o ToServices(<<m>>) /\ ByUser  BY <1>1, <1>11 DEF AuthData, Tell
  <2> HIDE DEF m
  <2> QED  BY <1>1, <1>3, <1>4, <2>2, <2>3, HubPlain
<1>12. ASSUME NEW c \in Conn, NEW p \in Password, Register(c, p)  PROVE Inv'
  <2> DEFINE k == [conn[c] EXCEPT !.regs = @ + 1, !.style = "legacy"]
             m == [k |-> "SVCREGISTER", c |-> c, name |-> conn[c].nick, pw |-> p]
  <2>1. conn[c].nick \in Nick /\ up  BY <1>12 DEF Register, Users, HubTyped
  <2>2. k \in KConn /\ k.st = conn[c].st /\ k.nick = conn[c].nick /\ k.acct = conn[c].acct
    <3>1. conn[c] \in KConn /\ conn[c].regs + 1 \in Nat  BY <1>1 DEF KConn
    <3>2. "legacy" \in {"legacy", "pass"}  OBVIOUS
    <3>3. k = [[conn[c] EXCEPT !.regs = conn[c].regs + 1] EXCEPT !.style = "legacy"]  BY <3>1 DEF KConn
    <3> DEFINE n == conn[c].regs + 1
    <3> HIDE DEF n
    <3>4. k = [[conn[c] EXCEPT !.regs = n] EXCEPT !.style = "legacy"] /\ n \in Nat  BY <3>1, <3>3 DEF n
    <3> HIDE DEF k
    <3> QED  BY <3>1, <3>2, <3>4 DEF KConn
  <2>3. m \in NsLine /\ Plain(m)  BY <2>1, NsLines DEF Plain
  <2>4. conn' = [conn EXCEPT ![c] = k] /\ toNs' = toNs \o <<m>> /\ ByUser  BY <1>1, <1>12 DEF Register, Tell
  <2> HIDE DEF k, m
  <2> QED  BY <1>3, <1>4, <2>1, <2>2, <2>3, <2>4, HubPlain
<1>13. ASSUME NEW c \in Conn, NEW n \in Nick, ChangeNick(c, n)  PROVE Inv'
  BY <1>4, <1>13, NickInv DEF ChangeNick
<1> QED  BY <1>5, <1>6, <1>7, <1>8, <1>9, <1>10, <1>11, <1>12, <1>13 DEF ByUsers

LEMMA LineRead ==
    ASSUME Inv, NEW k, Line(k)
    PROVE  /\ up /\ toIrc \in Seq(IrcLine) /\ Head(toIrc) \in IrcLine /\ Head(toIrc).k = k
           /\ (k # "SVCWATCH" => Target \in Conn) /\ (k # "SVSLOGIN" => IrcRead)
<1>1. up /\ toIrc # << >> /\ toIrc \in Seq(IrcLine) /\ Head(toIrc).k = k /\ toIrc' = Tail(toIrc)  BY DEF Line, Inv, LinkTyped
<1>2. Head(toIrc) \in IrcLine  BY <1>1, QueueRest
<1>3. k # "SVCWATCH" => Target \in Conn  BY <1>1, <1>2, IrcForm DEF Target
<1> QED  BY <1>1, <1>2, <1>3 DEF IrcRead

\* SASL is over on the hub's side, by a verdict or without one.
LEMMA FinishInv ==
    ASSUME Inv, NEW c \in Here, NEW ok, Put(c, SaslFinish(c, ok)), IrcRead, SameNs
    PROVE  Inv'
<1> DEFINE k == [NoSasl(conn[c]) EXCEPT !.style = "legacy"]
           x == [k EXCEPT !.held = FALSE]
<1>1. c \in Conn /\ conn[c] \in KConn  BY DEF Here, Inv, HubTyped
<1>2. k \in KConn /\ k.st = conn[c].st /\ k.nick = conn[c].nick /\ k.acct = conn[c].acct  BY <1>1 DEF KConn, NoSasl
<1>3. x \in KConn /\ x.st = conn[c].st /\ x.nick = conn[c].nick /\ x.acct = conn[c].acct  BY <1>2 DEF KConn
<1>4. SaslFinish(c, ok) = IF conn[c].style # "pass" THEN [conn |-> k, out |-> << >>] ELSE Welcome(c, x)  BY DEF SaslFinish
<1> HIDE DEF k, x
<1>5. CASE conn[c].style # "pass"
  <2>1. conn' = [conn EXCEPT ![c] = k] /\ toNs' = toNs \o << >>  BY <1>4, <1>5 DEF Put, Tell
  <2>2. << >> \in Seq(NsLine) /\ Len(<< >>) = 0 /\ 1..Len(<< >>) = {}  BY OneLine
  <2> QED  BY <1>1, <1>2, <2>1, <2>2, HubPlain
<1>6. CASE ~(conn[c].style # "pass")
  <2>1. Put(c, Welcome(c, x))  BY <1>4, <1>6
  <2> QED  BY <1>1, <1>3, <2>1, WelcomeInv
<1> QED  BY <1>5, <1>6

\* Whoever is told that he is logged in, or out, is, and NickServ hears it back.
LEMMA HubLoginInv ==
    ASSUME Inv, UNCHANGED play, HubLogin
    PROVE  Inv'
<1> USE DEF Inv
<1> DEFINE a == Head(toIrc).acct
           c == Target
           acts == c \in Here /\ (a # None \/ conn[c].acct # None)
           m == [k |-> "SVCACCOUNT", c |-> c, acct |-> a]
           out == IF acts /\ watch /\ conn[c].st = "user" THEN <<m>> ELSE << >>
<1>1. /\ up /\ toIrc \in Seq(IrcLine) /\ Head(toIrc) \in IrcLine /\ Head(toIrc).k = "SVSLOGIN" /\ c \in Conn
      /\ toIrc # << >> /\ toIrc' = Tail(toIrc)
  BY LineRead DEF HubLogin, Line
<1>2. a \in Anyone  BY <1>1, IrcForm
<1>3. /\ toIrc' \in Seq(IrcLine) /\ Head(toIrc) = toIrc[1] /\ 1 \in 1..Len(toIrc)
      /\ \A i \in 1..Len(toIrc') : i + 1 \in 1..Len(toIrc) /\ toIrc'[i] = toIrc[i + 1]
      /\ \A i \in 1..Len(toIrc) : i = 1 \/ (i - 1 \in 1..Len(toIrc') /\ toIrc'[i - 1] = toIrc[i])
  BY <1>1, QueueRest
<1>4. conn \in [Conn -> KConn] /\ conn' = IF acts THEN [conn EXCEPT ![c].acct = a] ELSE conn
  BY DEF HubLogin, HubTyped
<1>5. /\ conn' \in [Conn -> KConn]
      /\ \A d \in Conn : conn'[d].st = conn[d].st /\ conn'[d].nick = conn[d].nick
      /\ \A d \in Conn : d # c \/ ~acts => conn'[d].acct = conn[d].acct
      /\ acts => conn'[c].acct = a
  <2>1. CASE acts
    <3>1. conn[c] \in KConn  BY <1>1, <1>4
    <3>2. [conn[c] EXCEPT !.acct = a] \in KConn  BY <1>2, <3>1 DEF KConn
    <3>3. conn' = [conn EXCEPT ![c] = [conn[c] EXCEPT !.acct = a]]  BY <1>1, <1>4, <2>1
    <3> QED  BY <1>1, <1>4, <2>1, <3>1, <3>2, <3>3 DEF KConn
  <2>2. CASE ~acts  BY <1>4, <2>2
  <2> QED  BY <2>1, <2>2
<1>6. UNCHANGED <<up, watch, store, view, slot, proved>>  BY DEF HubLogin, ByHub, ns
<1>7. m \in NsLine /\ m.k = "SVCACCOUNT" /\ m.c = c /\ m.acct = a  BY <1>1, <1>2, NsLines
<1>8. toNs' = toNs \o out  BY DEF HubLogin, Tell, Feed
<1> HIDE DEF m
<1>9. out \in Seq(NsLine) /\ \A i \in 1..Len(out) : out[i] = m
  <2>1. << >> \in Seq(NsLine) /\ Len(<< >>) = 0 /\ 1..Len(<< >>) = {}  BY OneLine
  <2>2. <<m>> \in Seq(NsLine) /\ \A i \in 1..Len(<<m>>) : <<m>>[i] = m  BY <1>7, OneLine
  <2> QED  BY <2>1, <2>2
<1>10. acts /\ watch /\ conn[c].st = "user" => out = <<m>>  OBVIOUS
<1>11. c \in Here => conn[c].st \in {"open", "user"}  BY DEF Here
<1> HIDE DEF out
<1>12. HubTyped'  BY <1>5 DEF HubTyped
<1>13. toNs \in Seq(NsLine)  BY DEF LinkTyped
<1>14. LinkTyped' /\ toNs' \in Seq(NsLine)
  <2>1. toNs' \in Seq(NsLine)  BY <1>8, <1>9, <1>13, QueueJoined
  <2> QED  BY <1>1, <1>3, <1>6, <2>1 DEF LinkTyped
<1>15. play' \in Plays /\ NsTyped' /\ SlotsTyped'  BY <1>6 DEF NsTyped, SlotsTyped
<1>16. Earning'
  <2>1. ASSUME NEW d \in Conn, conn'[d].acct # None  PROVE <<d, conn'[d].acct>> \in proved
    <3>1. CASE d = c /\ acts
      <4>1. toIrc[1].k = "SVSLOGIN" /\ toIrc[1].c = c /\ toIrc[1].acct = a /\ 1 \in 1..Len(toIrc)  BY <1>1, <1>3 DEF Target
      <4>2. a # None => <<c, a>> \in proved  BY <4>1 DEF Earning
      <4> QED  BY <1>5, <2>1, <3>1, <4>2
    <3>2. CASE ~(d = c /\ acts)  BY <1>5, <2>1, <3>2 DEF Earning
    <3> QED  BY <3>1, <3>2
  <2>2. \A i \in 1..Len(toIrc') : toIrc'[i].k = "SVSLOGIN" /\ toIrc'[i].acct # None => <<toIrc'[i].c, toIrc'[i].acct>> \in proved
    BY <1>3 DEF Earning
  <2> QED  BY <1>6, <2>1, <2>2 DEF Earning
<1>17. Named'
  <2>1. AtHub(conn', watch') = AtHub(conn, watch)  BY <1>5, <1>6 DEF AtHub
  <2>2. \A i \in 1..Len(out) : Moved(AtHub(conn, watch), out[i]) = AtHub(conn, watch) /\ Claims(AtHub(conn, watch), out[i])
    BY <1>7, <1>9 DEF Moved, Claims
  <2>3. Leads(Picture(view), toNs \o out, AtHub(conn, watch))  BY <1>1, <1>9, <1>13, <2>2, LeadsStill DEF Named
  <2> QED  BY <1>6, <1>8, <2>1, <2>3 DEF Named
<1>18. /\ \A i \in 1..Len(toNs) : i \in 1..Len(toNs') /\ toNs'[i] = toNs[i]
       /\ \A i \in 1..Len(toNs') : (i \in 1..Len(toNs) /\ toNs'[i] = toNs[i]) \/ toNs'[i] = m
  <2>1. \A i \in 1..Len(toNs') : \/ i \in 1..Len(toNs) /\ toNs'[i] = toNs[i]
                                 \/ i - Len(toNs) \in 1..Len(out) /\ toNs'[i] = out[i - Len(toNs)]
    BY <1>8, <1>9, <1>13, QueueJoined
  <2>2. \A i \in 1..Len(toNs) : i \in 1..Len(toNs') /\ toNs'[i] = toNs[i]  BY <1>8, <1>9, <1>13, QueueJoined
  <2> QED  BY <1>9, <2>1, <2>2
<1>19. Gone'
  <2>1. \A i \in 1..Len(toNs) : toNs[i].k = "SVCQUIT" => toNs[i].c \in Conn  BY <1>13, NsForm
  <2> QED  BY <1>5, <1>7, <1>18, <2>1 DEF Gone
<1>20. NicksApart'  BY <1>5 DEF NicksApart, Here
<1>21. Accounts'
  <2>1. SUFFICES ASSUME watch, NEW d \in Conn, conn[d].st = "user"
                 PROVE  /\ view[d] # None \/ Introduced(toNs', d)
                        /\ Right(view, toNs', d, conn'[d].acct) \/ Coming(toIrc', d, conn'[d].acct)
    BY <1>5, <1>6 DEF Accounts
  <2>2. /\ view[d] # None \/ Introduced(toNs, d)
        /\ Right(view, toNs, d, conn[d].acct) \/ Coming(toIrc, d, conn[d].acct)
    BY <2>1 DEF Accounts
  <2>3. Introduced(toNs, d) => Introduced(toNs', d)  BY <1>18 DEF Introduced
  <2>4. CASE d = c /\ acts
    <3>1. out = <<m>>  BY <1>10, <2>1, <2>4
    <3>2. Len(out) = 1 /\ out[1] = m /\ 1 \in 1..Len(out) /\ \A i \in 1..Len(out) : i = 1  BY <3>1
    <3>3. Sets(out[1], d) /\ out[1].acct = a  BY <1>7, <2>4, <3>2 DEF Sets
    <3>4. Right(view, toNs \o out, d, a)  BY <1>9, <1>13, <3>2, <3>3, RightSaid
    <3> QED  BY <1>5, <1>8, <2>2, <2>3, <2>4, <3>4
  <2>5. CASE ~(d = c /\ acts)
    <3>1. conn'[d].acct = conn[d].acct  BY <1>5, <2>5
    <3>2. \A i \in 1..Len(out) : ~Sets(out[i], d)
      <4>1. CASE d = c
        <5>1. out = << >>  BY <2>5, <4>1 DEF out
        <5> QED  BY <5>1
      <4>2. CASE d # c  BY <1>7, <1>9, <4>2 DEF Sets
      <4> QED  BY <4>1, <4>2
    <3>3. Right(view, toNs, d, conn[d].acct) => Right(view, toNs', d, conn[d].acct)  BY <1>8, <1>9, <1>13, <3>2, RightStill
    <3>4. ASSUME Coming(toIrc, d, conn[d].acct)  PROVE Coming(toIrc', d, conn[d].acct)
      <4>1. PICK i \in 1..Len(toIrc) : toIrc[i].k = "SVSLOGIN" /\ toIrc[i].c = d /\ (toIrc[i].acct # None \/ conn[d].acct # None)
        BY <3>4 DEF Coming
      <4>2. i # 1
        <5>1. SUFFICES ASSUME i = 1  PROVE FALSE  OBVIOUS
        <5>2. c = d /\ (a # None \/ conn[c].acct # None)  BY <1>3, <4>1, <5>1 DEF Target
        <5>3. c \in Here  BY <2>1, <5>2 DEF Here
        <5> QED  BY <2>5, <5>2, <5>3
      <4> QED  BY <1>3, <4>1, <4>2 DEF Coming
    <3> QED  BY <2>2, <2>3, <3>1, <3>3, <3>4
  <2> QED  BY <2>4, <2>5
<1> QED  BY <1>12, <1>14, <1>15, <1>16, <1>17, <1>19, <1>20, <1>21

\* SVCWATCH: every user once, which is the hub's own picture.
LEMMA HubWatchInv ==
    ASSUME Inv, UNCHANGED play, HubWatch
    PROVE  Inv'
<1> USE DEF Inv
<1>1. Line("SVCWATCH") /\ watch' = TRUE /\ UNCHANGED <<conn, up, store, view, slot, proved>>  BY DEF HubWatch, ByHub, ns
<1>2. PICK s \in [1..Cardinality(Users) -> Users] :
        (\A c \in Users : \E i \in DOMAIN s : s[i] = c) /\ Tell([i \in DOMAIN s |-> User(s[i], conn[s[i]])])
  BY DEF HubWatch
<1> DEFINE n == Cardinality(Users)
           out == [i \in 1..n |-> User(s[i], conn[s[i]])]
           f == AtHub(conn, TRUE)
<1>3. n \in Nat /\ \A i, j \in 1..n : s[i] = s[j] => i = j
  <2>1. Users \in SUBSET Conn  BY DEF Users
  <2>2. IsFiniteSet(Users) /\ n \in Nat  BY <2>1, Consts, FS_Subset, FS_CardinalityType
  <2>3. IsFiniteSet(1..n) /\ Cardinality(1..n) = n
    <3>1. 1 \in Int /\ n \in Int /\ IsFiniteSet(1..n) /\ Cardinality(1..n) = IF 1 > n THEN 0 ELSE n - 1 + 1
      BY <2>2, FS_Interval
    <3> HIDE DEF n
    <3> QED  BY <2>2, <3>1
  <2>4. s \in Surjection(1..n, Users)  BY <1>2 DEF Surjection
  <2>5. s \in Injection(1..n, Users)  BY <2>3, <2>4, FS_SurjSameCardinalityImpliesInj
  <2> QED  BY <2>2, <2>5 DEF Injection, IsInjective
<1>4. toNs \in Seq(NsLine) /\ toNs' = toNs \o out  BY <1>2 DEF Tell, LinkTyped
<1>5. \A c \in Conn : conn[c] \in KConn /\ conn[c].acct \in Anyone  BY DEF HubTyped, KConn
<1>6. ASSUME NEW i \in 1..n
      PROVE  /\ s[i] \in Users /\ s[i] \in Conn /\ conn[s[i]].st = "user"
             /\ out[i] \in NsLine /\ out[i].k = "SVCUSER" /\ out[i].c = s[i]
             /\ out[i].nick = conn[s[i]].nick /\ out[i].acct = conn[s[i]].acct
  <2>1. s[i] \in Users /\ s[i] \in Conn /\ conn[s[i]].st = "user"  BY DEF Users
  <2>2. conn[s[i]].nick \in Nick  BY <2>1 DEF HubTyped
  <2> QED  BY <1>5, <2>1, <2>2, NsLines DEF User
<1>7. \A c \in Conn : conn[c].st = "user" => \E i \in 1..n : s[i] = c  BY <1>2 DEF Users
<1>8. out \in Seq(NsLine) /\ Len(out) = n
  <2>1. out \in [1..n -> NsLine]  BY <1>6
  <2> HIDE DEF out, n
  <2> QED  BY <1>3, <2>1
<1> HIDE DEF out, n
<1>9. HubTyped' /\ NsTyped' /\ SlotsTyped' /\ play' \in Plays /\ NicksApart'
  BY <1>1 DEF HubTyped, NsTyped, SlotsTyped, NicksApart, Here
<1>10. LinkTyped'
  <2>1. toNs' \in Seq(NsLine)  BY <1>4, <1>8, QueueJoined
  <2>2. toIrc' \in Seq(IrcLine)  BY <1>1, LineRead, IrcReadForm
  <2> QED  BY <1>1, <2>1, <2>2, LineRead DEF LinkTyped
<1>11. Earning'  BY <1>1, LineRead, EarningRead
<1>12. Named'
  <2>1. f \in Pictures  BY <1>5, HubTyped DEF AtHub, Pictures, HubTyped, Anyone
  <2>2. \A i \in 1..Len(out) : out[i].k = "SVCUSER" /\ out[i].nick = f[out[i].c]  BY <1>6, <1>8 DEF AtHub
  <2>3. Leads(Picture(view), toNs \o out, Shown(AtHub(conn, watch), f, out, Len(out)))
    BY <1>1, <1>4, <1>8, <2>1, <2>2, LineRead, LeadsBurst DEF Named
  <2>4. Shown(AtHub(conn, watch), f, out, Len(out)) = f
    <3>1. ASSUME NEW c \in Conn  PROVE (IF \E j \in 1..n : out[j].c = c THEN f[c] ELSE AtHub(conn, watch)[c]) = f[c]
      <4>1. CASE \E j \in 1..n : out[j].c = c  BY <4>1
      <4>2. CASE ~\E j \in 1..n : out[j].c = c
        <5>1. conn[c].st # "user"  BY <1>6, <1>7, <4>2
        <5> QED  BY <4>2, <5>1 DEF AtHub, Nobody
      <4> QED  BY <4>1, <4>2
    <3>2. f = [c \in Conn |-> f[c]]  BY DEF AtHub
    <3> HIDE DEF f
    <3> QED  BY <1>8, <3>1, <3>2 DEF Shown
  <2> QED  BY <1>1, <1>4, <2>3, <2>4 DEF Named
<1>13. /\ \A i \in 1..n : i + Len(toNs) \in 1..Len(toNs') /\ toNs'[i + Len(toNs)] = out[i]
       /\ \A i \in 1..Len(toNs') : (i \in 1..Len(toNs) /\ toNs'[i] = toNs[i]) \/ toNs'[i].k = "SVCUSER"
  <2>1. \A i \in 1..Len(out) : i + Len(toNs) \in 1..Len(toNs') /\ toNs'[i + Len(toNs)] = out[i]  BY <1>4, <1>8, QueueJoined
  <2>2. \A i \in 1..Len(toNs') : \/ i \in 1..Len(toNs) /\ toNs'[i] = toNs[i]
                                 \/ i - Len(toNs) \in 1..Len(out) /\ toNs'[i] = out[i - Len(toNs)]
    BY <1>4, <1>8, QueueJoined
  <2>3. \A i \in 1..n : out[i].k = "SVCUSER"  BY <1>6
  <2>4. \A i \in 1..Len(toNs') : (i \in 1..Len(toNs) /\ toNs'[i] = toNs[i]) \/ toNs'[i].k = "SVCUSER"  BY <1>8, <2>2, <2>3
  <2> QED  BY <1>8, <2>1, <2>4
<1>14. Gone'  BY <1>1, <1>13 DEF Gone
<1>15. Accounts'
  <2>1. SUFFICES ASSUME NEW c \in Conn, conn[c].st = "user"
                 PROVE  Introduced(toNs', c) /\ Right(view, toNs', c, conn[c].acct)
    BY <1>1 DEF Accounts
  <2>2. PICK i \in 1..n : s[i] = c  BY <1>7, <2>1
  <2>3. Introduced(toNs', c)  BY <1>6, <1>13, <2>2 DEF Introduced
  <2>4. Sets(out[i], c) /\ out[i].acct = conn[c].acct  BY <1>6, <2>2 DEF Sets
  <2>5. \A j \in 1..n : Sets(out[j], c) => j = i  BY <1>3, <1>6, <2>2 DEF Sets
  <2>6. Right(view, toNs \o out, c, conn[c].acct)  BY <1>4, <1>8, <2>4, <2>5, RightSaid
  <2> QED  BY <1>4, <2>3, <2>6
<1> QED  BY <1>9, <1>10, <1>11, <1>12, <1>14, <1>15

LEMMA HubStepInv ==
    ASSUME Inv, UNCHANGED play, HubStep
    PROVE  Inv'
<1> USE DEF Inv
<1>1. conn \in [Conn -> KConn] /\ \A c \in Conn : conn[c] \in KConn  BY DEF HubTyped
<1>2. << >> \in Seq(NsLine) /\ Len(<< >>) = 0 /\ 1..Len(<< >>) = {}  BY OneLine
<1>3. ByHub /\ watch' = watch => SameNs  BY DEF ByHub, ns, SameNs
<1>4. toNs = toNs \o << >>  BY DEF LinkTyped
<1>5. ASSUME NEW c \in Conn, conn' = conn, toNs' = toNs, IrcRead, SameNs  PROVE Inv'
  <2>1. conn' = [conn EXCEPT ![c] = conn[c]]  BY <1>1, <1>5
  <2> QED  BY <1>1, <1>2, <1>4, <1>5, <2>1, HubPlain
<1>6. CASE HubWatch  BY <1>6, HubWatchInv
<1>7. CASE HubLogin  BY <1>7, HubLoginInv
<1>8. CASE HubSvsnick
  <2>1. Line("SVSNICK") /\ SameNs  BY <1>3, <1>8 DEF HubSvsnick
  <2>2. Target \in Conn /\ IrcRead /\ Head(toIrc).nick \in Nick  BY <2>1, LineRead, IrcForm
  <2> DEFINE n == Head(toIrc).nick
  <2>3. CASE Target \in Users /\ (~Taken(n) \/ conn[Target].nick = n)
    <3>1. conn' = [conn EXCEPT ![Target].nick = n] /\ Tell(Feed(Target, [k |-> "SVCNICK", c |-> Target, nick |-> n]))
      BY <1>8, <2>3 DEF HubSvsnick
    <3> QED  BY <2>1, <2>2, <2>3, <3>1, NickInv
  <2>4. CASE ~(Target \in Users /\ (~Taken(n) \/ conn[Target].nick = n))
    <3>1. conn' = conn /\ toNs' = toNs  BY <1>4, <1>8, <2>4 DEF HubSvsnick, Tell
    <3> QED  BY <1>5, <2>1, <2>2, <3>1
  <2> QED  BY <2>3, <2>4
<1>9. CASE HubKill
  <2>1. Line("KILL") /\ SameNs  BY <1>3, <1>9 DEF HubKill
  <2>2. Target \in Conn /\ IrcRead  BY <2>1, LineRead
  <2>3. CASE Target \notin Here  BY <1>5, <1>9, <2>1, <2>2, <2>3 DEF HubKill
  <2>4. CASE Target \in Here  BY <1>9, <2>1, <2>2, <2>4, GoneInv DEF HubKill
  <2> QED  BY <2>3, <2>4
<1>10. CASE HubChallenge
  <2>1. Line("CHALLENGE") /\ SameNs  BY <1>3, <1>10 DEF HubChallenge
  <2>2. Target \in Conn /\ IrcRead  BY <2>1, LineRead
  <2> QED  BY <1>5, <1>10, <2>1, <2>2 DEF HubChallenge
<1>11. CASE HubVerdict
  <2>1. Line("VERDICT") /\ SameNs  BY <1>3, <1>11 DEF HubVerdict
  <2>2. Target \in Conn /\ IrcRead  BY <2>1, LineRead
  <2>3. CASE Target \notin Here \/ conn[Target].mech = None  BY <1>5, <1>11, <2>1, <2>2, <2>3 DEF HubVerdict
  <2>4. CASE ~(Target \notin Here \/ conn[Target].mech = None)  BY <1>11, <2>1, <2>2, <2>4, FinishInv DEF HubVerdict
  <2> QED  BY <2>3, <2>4
<1>12. CASE HubRegResult
  <2>1. Line("SVCREGRESULT") /\ SameNs /\ toNs' = toNs  BY <1>3, <1>12 DEF HubRegResult
  <2>2. Target \in Conn /\ IrcRead  BY <2>1, LineRead
  <2> DEFINE k == IF Target \in Here THEN [conn[Target] EXCEPT !.style = "legacy"] ELSE conn[Target]
  <2>3. k \in KConn /\ k.st = conn[Target].st /\ k.nick = conn[Target].nick /\ k.acct = conn[Target].acct
    BY <1>1, <2>2 DEF KConn
  <2>4. conn' = [conn EXCEPT ![Target] = k]
    <3>1. CASE Target \in Here  BY <1>1, <1>12, <2>2, <3>1 DEF HubRegResult
    <3>2. CASE Target \notin Here  BY <1>1, <1>12, <2>2, <3>2 DEF HubRegResult
    <3> QED  BY <3>1, <3>2
  <2> HIDE DEF k
  <2> QED  BY <1>2, <1>4, <2>1, <2>2, <2>3, <2>4, HubPlain
<1> QED  BY <1>6, <1>7, <1>8, <1>9, <1>10, <1>11, <1>12 DEF HubStep

(***************************************************************************)
(* NickServ reads what the hub says of its users.                          *)
(***************************************************************************)
Feeding(m) ==
    /\ up /\ toNs # << >> /\ m = Head(toNs) /\ toNs' = Tail(toNs) /\ m.k \in Feeds
    /\ UNCHANGED <<play, conn, up, watch, toIrc, store, slot, proved>>
    /\ view' \in [Conn -> Seen \cup {None}] /\ Picture(view') = Moved(Picture(view), m)
    /\ \A c \in Conn :
         /\ Sets(m, c) /\ (view[c] # None \/ m.k = "SVCUSER") => view'[c].acct = m.acct
         /\ ~Sets(m, c) /\ ~(m.k = "SVCQUIT" /\ m.c = c) => view'[c].acct = view[c].acct

LEMMA HeardForm ==
    ASSUME Inv, NEW k, Heard(k)
    PROVE  up /\ toNs # << >> /\ toNs' = Tail(toNs) /\ Msg = Head(toNs) /\ Msg \in NsLine /\ Msg.k = k /\ (k \notin Feeds => NsRead)
<1>1. toNs \in Seq(NsLine) /\ toNs # << >>  BY DEF Inv, LinkTyped, Heard
<1>2. Head(toNs) \in NsLine  BY <1>1, QueueRest
<1> QED  BY <1>2 DEF Heard, Msg, NsRead

LEMMA FeedInv ==
    ASSUME Inv, NEW m, Feeding(m)
    PROVE  Inv'
<1> USE DEF Inv
<1>1. toNs \in Seq(NsLine) /\ toNs # << >> /\ m = Head(toNs) /\ toNs' = Tail(toNs) /\ m.k \in Feeds
  BY DEF Feeding, LinkTyped
<1>2. UNCHANGED <<play, conn, up, watch, toIrc, store, slot, proved>>  BY DEF Feeding
<1>3. /\ toNs' \in Seq(NsLine) /\ m \in NsLine /\ m = toNs[1] /\ 1 \in 1..Len(toNs)
      /\ \A i \in 1..Len(toNs') : i + 1 \in 1..Len(toNs) /\ toNs'[i] = toNs[i + 1]
      /\ \A i \in 1..Len(toNs) : i = 1 \/ (i - 1 \in 1..Len(toNs') /\ toNs'[i - 1] = toNs[i])
  BY <1>1, QueueRest
<1>4. /\ m.c \in Conn /\ (m.k \in {"SVCUSER", "SVCNICK"} => m.nick \in Nick)
  BY <1>1, <1>3, NsForm DEF Feeds
<1>5. play' \in Plays /\ HubTyped' /\ SlotsTyped' /\ NicksApart' /\ Earning'
  BY <1>2 DEF HubTyped, SlotsTyped, NicksApart, Here, Earning
<1>6. LinkTyped' /\ NsTyped'
  <2>1. up  BY DEF Feeding
  <2> QED  BY <1>2, <1>3, <2>1 DEF LinkTyped, NsTyped, Feeding
<1>7. Named'
  <2>1. Leads(Moved(Picture(view), m), toNs', AtHub(conn, watch))  BY <1>1, LeadsFrom DEF Named, Feeding
  <2> QED  BY <1>2, <2>1 DEF Named, Feeding
<1>8. Gone'
  <2>1. ASSUME NEW i \in 1..Len(toNs'), toNs'[i].k = "SVCQUIT"  PROVE conn[toNs'[i].c].st = "gone"
    <3>1. i + 1 \in 1..Len(toNs) /\ toNs'[i] = toNs[i + 1]  BY <1>3
    <3> DEFINE j == i + 1
    <3>2. toNs[j].k = "SVCQUIT" /\ j \in 1..Len(toNs)  BY <2>1, <3>1
    <3> HIDE DEF j
    <3>3. conn[toNs[j].c].st = "gone"  BY <3>2 DEF Gone
    <3> QED  BY <3>1, <3>3 DEF j
  <2> QED  BY <1>2, <2>1 DEF Gone
<1>9. m.k = "SVCQUIT" => conn[m.c].st = "gone"  BY <1>3 DEF Gone
<1>10. Accounts'
  <2>1. SUFFICES ASSUME watch, NEW c \in Conn, conn[c].st = "user"
                 PROVE  /\ view'[c] # None \/ Introduced(toNs', c)
                        /\ Right(view', toNs', c, conn[c].acct) \/ Coming(toIrc, c, conn[c].acct)
    BY <1>2 DEF Accounts
  <2>2. /\ view[c] # None \/ Introduced(toNs, c)
        /\ Right(view, toNs, c, conn[c].acct) \/ Coming(toIrc, c, conn[c].acct)
    BY <2>1 DEF Accounts
  <2>3. ~(m.k = "SVCQUIT" /\ m.c = c)  BY <1>9, <2>1
  <2>4. /\ (view[c] = None) <=> (Picture(view)[c] = None)
        /\ (view'[c] = None) <=> (Picture(view')[c] = None)
        /\ Picture(view') = Moved(Picture(view), m) /\ Picture(view) \in Pictures
    <3>1. view' \in [Conn -> Seen \cup {None}]  BY DEF Feeding
    <3>2. (view'[c] = None) <=> (Picture(view')[c] = None)  BY <3>1, SeenForm
    <3> QED  BY <3>2, SeenForm DEF NsTyped, Feeding
  <2>5. view[c] # None => view'[c] # None
    <3>1. \A x \in Nick : x # None  BY Consts
    <3> QED  BY <1>4, <2>3, <2>4, <3>1 DEF Moved, Pictures
  <2>6. Introduced(toNs, c) => Introduced(toNs', c) \/ (m.k = "SVCUSER" /\ m.c = c)
    <3>1. SUFFICES ASSUME NEW i \in 1..Len(toNs), toNs[i].k = "SVCUSER" /\ toNs[i].c = c
                   PROVE  Introduced(toNs', c) \/ (m.k = "SVCUSER" /\ m.c = c)
      BY DEF Introduced
    <3>2. CASE i = 1  BY <1>3, <3>1, <3>2
    <3>3. CASE i # 1  BY <1>3, <3>1, <3>3 DEF Introduced
    <3> QED  BY <3>2, <3>3
  <2>7. m.k = "SVCUSER" /\ m.c = c => view'[c] # None
    <3>1. \A x \in Nick : x # None  BY Consts
    <3> QED  BY <1>4, <2>4, <3>1 DEF Moved, Pictures
  <2>8. view'[c] # None \/ Introduced(toNs', c)  BY <2>2, <2>5, <2>6, <2>7
  <2>9. ASSUME Right(view, toNs, c, conn[c].acct)  PROVE Right(view', toNs', c, conn[c].acct)
    <3>1. (Sets(Head(toNs), c) /\ \A i \in 1..Len(Tail(toNs)) : ~Sets(Tail(toNs)[i], c)) => view'[c].acct = Head(toNs).acct
      <4>1. SUFFICES ASSUME Sets(m, c), \A i \in 1..Len(toNs') : ~Sets(toNs'[i], c)  PROVE view'[c].acct = m.acct
        BY <1>1
      <4>2. ~Introduced(toNs', c)  BY <4>1 DEF Introduced, Sets
      <4>3. view[c] # None \/ m.k = "SVCUSER"  BY <2>2, <2>6, <4>2
      <4> QED  BY <4>1, <4>3 DEF Feeding
    <3>2. ~Sets(Head(toNs), c) => view'[c].acct = view[c].acct  BY <1>1, <2>3 DEF Feeding
    <3> QED  BY <1>1, <2>9, <3>1, <3>2, RightRest
  <2> QED  BY <2>2, <2>8, <2>9
<1> QED  BY <1>5, <1>6, <1>7, <1>8, <1>10

\* accounts_owner_of_nick
LEMMA OwnerForm ==
    ASSUME store \in [Nick -> Account \cup {None}], NEW n \in Anyone
    PROVE  OwnerOf(n) \in Anyone /\ (OwnerOf(n) # None => store[OwnerOf(n)] \in Account)
<1>1. store \in [Nick -> Account \cup {None}]  OBVIOUS
<1>2. CASE store[n] # None  BY <1>1, <1>2 DEF OwnerOf, Anyone
<1>3. CASE store[n] = None /\ \E a \in Nick : store[a] # None /\ n \in store[a].nicks
  <2> DEFINE b == CHOOSE a \in Nick : store[a] # None /\ n \in store[a].nicks
  <2>1. b \in Nick /\ store[b] # None  BY <1>3
  <2>2. OwnerOf(n) = b  BY <1>3 DEF OwnerOf
  <2> HIDE DEF b
  <2> QED  BY <1>1, <2>1, <2>2 DEF Anyone
<1>4. CASE store[n] = None /\ ~\E a \in Nick : store[a] # None /\ n \in store[a].nicks
  BY <1>4 DEF OwnerOf, Anyone
<1> QED  BY <1>2, <1>3, <1>4

LEMMA DueForm ==
    ASSUME store \in [Nick -> Account \cup {None}], NEW n \in Nick, NEW a
    PROVE  Due(n, a) \in Anyone
<1>1. OwnerOf(n) \in Anyone /\ None \in Anyone  BY OwnerForm DEF Anyone
<1> QED  BY <1>1 DEF Due

LEMMA FeedsInv ==
    ASSUME Inv, UNCHANGED play, NsUser \/ NsNick \/ NsQuit \/ NsAccount
    PROVE  Inv'
<1> DEFINE m == Msg
           c == m.c
<1> USE DEF Inv
<1>1. view \in [Conn -> Seen \cup {None}] /\ toIrc \in Seq(IrcLine) /\ store \in [Nick -> Account \cup {None}]
  BY DEF NsTyped, LinkTyped
<1>2. \A d \in Conn : /\ (view[d] = None) <=> (Picture(view)[d] = None)
                      /\ view[d] # None => view[d] \in Seen /\ Picture(view)[d] = view[d].nick
  BY <1>1, SeenForm
<1>3. \A x \in Seen : x # None /\ x.nick \in Nick /\ x.acct \in Anyone /\ x.due \in Anyone  BY Consts DEF Seen, Anyone
<1>4. \A n \in Nick, a \in Anyone, d \in Anyone : [nick |-> n, acct |-> a, due |-> d] \in Seen  BY DEF Seen, Anyone
<1>5. None \in Anyone  BY DEF Anyone
<1>6. CASE NsUser
  <2>1. Heard("SVCUSER") /\ UNCHANGED <<conn, up, watch, toIrc, store, slot, proved>>
    BY <1>1, <1>6 DEF NsUser, Out, ByNs, hub, ghosts
  <2>2. up /\ toNs # << >> /\ toNs' = Tail(toNs) /\ m = Head(toNs) /\ m \in NsLine /\ m.k = "SVCUSER"  BY <2>1, HeardForm
  <2>3. c \in Conn /\ m.nick \in Nick /\ m.acct \in Anyone  BY <2>2, NsForm
  <2> DEFINE same == view[c] # None /\ view[c].nick = m.nick
             u == [nick |-> m.nick, acct |-> m.acct, due |-> IF same THEN view[c].due ELSE Due(m.nick, m.acct)]
  <2>4. view' = [view EXCEPT ![c] = u]  BY <1>6 DEF NsUser
  <2>5. (IF same THEN view[c].due ELSE Due(m.nick, m.acct)) \in Anyone  BY <1>1, <1>2, <1>3, <2>3, DueForm
  <2>6. u \in Seen /\ u.nick = m.nick /\ u.acct = m.acct  BY <1>4, <2>3, <2>5
  <2> HIDE DEF u, m
  <2>7. view' \in [Conn -> Seen \cup {None}] /\ view'[c] = u /\ \A d \in Conn \ {c} : view'[d] = view[d]  BY <1>1, <2>3, <2>4, <2>6
  <2>8. Picture(view') = Moved(Picture(view), m)
    <3>1. Picture(view') = [Picture(view) EXCEPT ![c] = m.nick]  BY <1>3, <2>3, <2>6, <2>7 DEF Picture
    <3> QED  BY <2>2, <3>1 DEF Moved
  <2>9. Feeding(m)  BY <2>1, <2>2, <2>6, <2>7, <2>8 DEF Feeding, Feeds, Sets
  <2> QED  BY <2>9, FeedInv
<1>7. CASE NsNick
  <2>1. Heard("SVCNICK") /\ UNCHANGED <<conn, up, watch, toIrc, store, slot, proved>>
    BY <1>1, <1>7 DEF NsNick, Out, ByNs, hub, ghosts
  <2>2. up /\ toNs # << >> /\ toNs' = Tail(toNs) /\ m = Head(toNs) /\ m \in NsLine /\ m.k = "SVCNICK"  BY <2>1, HeardForm
  <2>3. c \in Conn /\ m.nick \in Nick  BY <2>2, NsForm
  <2> DEFINE u == [view[c] EXCEPT !.nick = m.nick, !.due = Due(m.nick, view[c].acct)]
  <2>4. view' = IF view[c] = None THEN view ELSE [view EXCEPT ![c] = u]
    <3>1. CASE view[c] = None  BY <1>7, <3>1 DEF NsNick
    <3>2. CASE view[c] # None
      <4>1. view' = [view EXCEPT ![c].nick = m.nick, ![c].due = Due(m.nick, view[c].acct)]  BY <1>7, <3>2 DEF NsNick
      <4> QED  BY <1>1, <2>3, <3>2, <4>1
    <3> QED  BY <3>1, <3>2
  <2>5. view[c] # None => u \in Seen /\ u.nick = m.nick /\ u.acct = view[c].acct
    <3>1. Due(m.nick, view[c].acct) \in Anyone  BY <1>1, <2>3, DueForm
    <3> QED  BY <1>2, <2>3, <3>1 DEF Seen, Anyone
  <2> HIDE DEF u, m
  <2>6. CASE view[c] = None
    <3>1. view' = view /\ Moved(Picture(view), m) = Picture(view)  BY <1>2, <2>2, <2>3, <2>4, <2>6 DEF Moved
    <3>2. Feeding(m)  BY <1>1, <2>1, <2>2, <3>1 DEF Feeding, Feeds, Sets
    <3> QED  BY <3>2, FeedInv
  <2>7. CASE view[c] # None
    <3>1. view' \in [Conn -> Seen \cup {None}] /\ view'[c] = u /\ \A d \in Conn \ {c} : view'[d] = view[d]
      BY <1>1, <2>3, <2>4, <2>5, <2>7
    <3>2. Picture(view') = [Picture(view) EXCEPT ![c] = m.nick]  BY <1>3, <2>3, <2>5, <2>7, <3>1 DEF Picture
    <3>3. Picture(view') = Moved(Picture(view), m)  BY <1>2, <2>2, <2>3, <2>7, <3>2 DEF Moved
    <3>4. \A d \in Conn : view'[d].acct = view[d].acct  BY <2>5, <2>7, <3>1
    <3>5. Feeding(m)  BY <2>1, <2>2, <3>1, <3>3, <3>4 DEF Feeding, Feeds, Sets
    <3> QED  BY <3>5, FeedInv
  <2> QED  BY <2>6, <2>7
<1>8. CASE NsQuit
  <2>1. Heard("SVCQUIT") /\ UNCHANGED <<conn, up, watch, toIrc, store, slot, proved>>
    BY <1>1, <1>8 DEF NsQuit, Out, ByNs, hub, ghosts
  <2>2. up /\ toNs # << >> /\ toNs' = Tail(toNs) /\ m = Head(toNs) /\ m \in NsLine /\ m.k = "SVCQUIT"  BY <2>1, HeardForm
  <2>3. c \in Conn  BY <2>2, NsForm
  <2>4. view' = [view EXCEPT ![c] = None]  BY <1>8 DEF NsQuit
  <2> HIDE DEF m
  <2>5. view' \in [Conn -> Seen \cup {None}] /\ \A d \in Conn \ {c} : view'[d] = view[d]  BY <1>1, <2>3, <2>4
  <2>6. Picture(view') = [Picture(view) EXCEPT ![c] = None]  BY <1>1, <2>3, <2>4 DEF Picture
  <2>7. Picture(view') = Moved(Picture(view), m)  BY <2>2, <2>6 DEF Moved
  <2>8. Feeding(m)  BY <2>1, <2>2, <2>5, <2>7 DEF Feeding, Feeds, Sets
  <2> QED  BY <2>8, FeedInv
<1>9. CASE NsAccount
  <2>1. Heard("SVCACCOUNT") /\ UNCHANGED <<conn, up, watch, toIrc, store, slot, proved>>
    BY <1>1, <1>9 DEF NsAccount, Out, ByNs, hub, ghosts
  <2>2. up /\ toNs # << >> /\ toNs' = Tail(toNs) /\ m = Head(toNs) /\ m \in NsLine /\ m.k = "SVCACCOUNT"  BY <2>1, HeardForm
  <2>3. c \in Conn /\ m.acct \in Anyone  BY <2>2, NsForm
  <2> DEFINE u == [view[c] EXCEPT !.acct = m.acct, !.due = IF m.acct = view[c].due THEN None ELSE view[c].due]
  <2>4. view' = IF view[c] = None THEN view ELSE [view EXCEPT ![c] = u]
    <3>1. CASE view[c] = None  BY <1>9, <3>1 DEF NsAccount
    <3>2. CASE view[c] # None
      <4>1. view' = [view EXCEPT ![c].acct = m.acct, ![c].due = IF m.acct = @ THEN None ELSE @]  BY <1>9, <3>2 DEF NsAccount
      <4>2. view[c] \in Seen  BY <1>2, <2>3, <3>2
      <4> QED  BY <1>1, <2>3, <3>2, <4>1, <4>2 DEF Seen
    <3> QED  BY <3>1, <3>2
  <2>5. view[c] # None => u \in Seen /\ u.nick = view[c].nick /\ u.acct = m.acct
    <3>1. view[c] # None => (IF m.acct = view[c].due THEN None ELSE view[c].due) \in Anyone  BY <1>2, <1>3, <1>5, <2>3
    <3> QED  BY <1>2, <2>3, <3>1 DEF Seen, Anyone
  <2> HIDE DEF u, m
  <2>6. Moved(Picture(view), m) = Picture(view)  BY <2>2 DEF Moved
  <2>7. CASE view[c] = None
    <3>1. view' = view  BY <2>4, <2>7
    <3>2. Feeding(m)  BY <1>1, <2>1, <2>2, <2>6, <2>7, <3>1 DEF Feeding, Feeds, Sets
    <3> QED  BY <3>2, FeedInv
  <2>8. CASE view[c] # None
    <3>1. view' \in [Conn -> Seen \cup {None}] /\ view'[c] = u /\ \A d \in Conn \ {c} : view'[d] = view[d]
      BY <1>1, <2>3, <2>4, <2>5, <2>8
    <3>2. Picture(view') = Picture(view)  BY <1>3, <2>3, <2>5, <2>8, <3>1 DEF Picture
    <3>3. Feeding(m)  BY <2>1, <2>2, <2>5, <2>6, <2>8, <3>1, <3>2 DEF Feeding, Feeds, Sets
    <3> QED  BY <3>3, FeedInv
  <2> QED  BY <2>7, <2>8
<1> QED  BY <1>6, <1>7, <1>8, <1>9

(***************************************************************************)
(* NickServ's slots: one for each connection, and whoever is at the end of *)
(* a SCRAM exchange has shown his account.                                 *)
(***************************************************************************)
Sound(s, P) ==
    /\ s \in Seq(Exchange) /\ Len(s) <= SlotMax /\ \A i, j \in 1..Len(s) : s[i].c = s[j].c => i = j
    /\ \A i \in 1..Len(s) : s[i].step > 0 => s[i].acct \in Nick \X Password
    /\ \A i \in 1..Len(s) : s[i].step = 2 => <<s[i].c, s[i].acct[1]>> \in P

LEMMA SlotsSound ==
    ASSUME Inv
    PROVE  /\ Sound(slot, proved) /\ \A s, P, Q : Sound(s, P) /\ P \subseteq Q => Sound(s, Q)
<1>1. Sound(slot, proved)  BY DEF Inv, SlotsTyped, Earning, Sound
<1>2. \A s, P, Q : Sound(s, P) /\ P \subseteq Q => Sound(s, Q)  BY DEF Sound
<1> QED  BY <1>1, <1>2

\* Some of them go: every slot left is one of before, in the same order.
LEMMA SoundPart ==
    ASSUME NEW s, NEW P, Sound(s, P), NEW t \in Seq(Exchange), Len(t) <= Len(s),
           \E g \in [1..Len(t) -> 1..Len(s)] : /\ \A i \in 1..Len(t) : t[i] = s[g[i]]
                                              /\ \A i, j \in 1..Len(t) : g[i] = g[j] => i = j
    PROVE  Sound(t, P)
<1> PICK g \in [1..Len(t) -> 1..Len(s)] : /\ \A i \in 1..Len(t) : t[i] = s[g[i]]
                                         /\ \A i, j \in 1..Len(t) : g[i] = g[j] => i = j
  OBVIOUS
<1>1. Len(t) <= SlotMax
  <2>1. Len(t) \in Nat /\ Len(s) \in Nat /\ Len(s) <= SlotMax /\ SlotMax \in Nat  BY Consts DEF Sound
  <2> QED  BY <2>1
<1>2. ASSUME NEW i \in 1..Len(t), NEW j \in 1..Len(t), t[i].c = t[j].c  PROVE i = j
  <2>1. g[i] \in 1..Len(s) /\ t[i] = s[g[i]] /\ g[j] \in 1..Len(s) /\ t[j] = s[g[j]]  OBVIOUS
  <2>2. g[i] = g[j]  BY <1>2, <2>1 DEF Sound
  <2> QED  BY <2>2
<1>3. \A j \in 1..Len(s) : (s[j].step > 0 => s[j].acct \in Nick \X Password) /\ (s[j].step = 2 => <<s[j].c, s[j].acct[1]>> \in P)
  BY DEF Sound
<1>4. ASSUME NEW i \in 1..Len(t)
      PROVE  (t[i].step > 0 => t[i].acct \in Nick \X Password) /\ (t[i].step = 2 => <<t[i].c, t[i].acct[1]>> \in P)
  <2>1. g[i] \in 1..Len(s) /\ t[i] = s[g[i]]  OBVIOUS
  <2> QED  BY <1>3, <2>1
<1> QED  BY <1>1, <1>2, <1>4 DEF Sound

LEMMA WithoutForm ==
    ASSUME NEW S, NEW s \in Seq(S), NEW i \in 1..Len(s)
    PROVE  /\ Without(s, i) \in Seq(S) /\ Len(Without(s, i)) = Len(s) - 1
           /\ \A j \in 1..Len(Without(s, i)) : Without(s, i)[j] = IF j < i THEN s[j] ELSE s[j + 1]
<1> DEFINE a == SubSeq(s, 1, i - 1)
           b == SubSeq(s, i + 1, Len(s))
<1>1. Len(s) \in Nat /\ \A j \in 1..Len(s) : s[j] \in S  OBVIOUS
<1>2. /\ a \in Seq(S) /\ Len(a) = IF 1 <= i - 1 THEN (i - 1) - 1 + 1 ELSE 0
      /\ \A j \in 1..((i - 1) - 1 + 1) : a[j] = s[1 + j - 1]
  BY <1>1, SubSeqProperties
<1>3. /\ b \in Seq(S) /\ Len(b) = IF i + 1 <= Len(s) THEN Len(s) - (i + 1) + 1 ELSE 0
      /\ \A j \in 1..(Len(s) - (i + 1) + 1) : b[j] = s[(i + 1) + j - 1]
  BY <1>1, SubSeqProperties
<1> HIDE DEF a, b
<1>4. Len(a) = i - 1 /\ Len(b) = Len(s) - i  BY <1>1, <1>2, <1>3
<1>5. /\ a \o b \in Seq(S) /\ Len(a \o b) = Len(a) + Len(b)
      /\ \A j \in 1..(Len(a) + Len(b)) : (a \o b)[j] = IF j <= Len(a) THEN a[j] ELSE b[j - Len(a)]
  BY <1>2, <1>3, ConcatProperties
<1>6. Len(a \o b) = Len(s) - 1  BY <1>1, <1>4, <1>5
<1>7. ASSUME NEW j \in 1..Len(a \o b)  PROVE (a \o b)[j] = IF j < i THEN s[j] ELSE s[j + 1]
  <2>0. j \in 1..(Len(a) + Len(b))  BY <1>5
  <2>1. CASE j < i
    <3>1. j <= Len(a) /\ j \in 1..((i - 1) - 1 + 1) /\ 1 + j - 1 = j  BY <1>1, <1>4, <2>1
    <3> QED  BY <1>2, <1>5, <2>0, <2>1, <3>1
  <2>2. CASE ~(j < i)
    <3>1. /\ ~(j <= Len(a)) /\ j - Len(a) \in 1..(Len(s) - (i + 1) + 1)
          /\ (i + 1) + (j - Len(a)) - 1 = j + 1
      BY <1>1, <1>4, <1>6, <2>2
    <3> QED  BY <1>3, <1>5, <2>0, <2>2, <3>1
  <2> QED  BY <2>1, <2>2
<1> QED  BY <1>5, <1>6, <1>7 DEF Without, a, b

LEMMA SoundWithout ==
    ASSUME NEW s, NEW P, Sound(s, P), NEW k \in 1..Len(s)
    PROVE  Sound(Without(s, k), P)
<1> DEFINE t == Without(s, k)
           g == [i \in 1..Len(t) |-> IF i < k THEN i ELSE i + 1]
<1>1. s \in Seq(Exchange) /\ Len(s) \in Nat /\ k \in 1..Len(s)  BY DEF Sound
<1>2. t \in Seq(Exchange) /\ Len(t) = Len(s) - 1  BY <1>1, WithoutForm
<1>3. \A i \in 1..Len(t) : t[i] = IF i < k THEN s[i] ELSE s[i + 1]  BY <1>1, WithoutForm
<1> HIDE DEF t
<1>4. Len(t) <= Len(s)  BY <1>1, <1>2
<1>5. \A i \in 1..Len(t) : IF i < k THEN i \in 1..Len(s) ELSE i + 1 \in 1..Len(s)  BY <1>1, <1>2
<1>6. \A i, j \in 1..Len(t) : (IF i < k THEN i ELSE i + 1) = (IF j < k THEN j ELSE j + 1) => i = j  BY <1>1
<1>7. g \in [1..Len(t) -> 1..Len(s)] /\ \A i \in 1..Len(t) : t[i] = s[g[i]]  BY <1>3, <1>5
<1>8. \A i, j \in 1..Len(t) : g[i] = g[j] => i = j  BY <1>6
<1> HIDE DEF g
<1>9. \E f \in [1..Len(t) -> 1..Len(s)] : /\ \A i \in 1..Len(t) : t[i] = s[f[i]]
                                          /\ \A i, j \in 1..Len(t) : f[i] = f[j] => i = j
  BY <1>7, <1>8
<1>10. Sound(t, P)  BY <1>2, <1>4, <1>9, SoundPart
<1> QED  BY <1>10 DEF t

LEMMA SlotForm ==
    ASSUME Inv, NEW c \in Conn
    PROVE  /\ SlotOf(c) # {} => /\ Slot(c) \in Exchange /\ Slot(c).c = c
                                /\ (Slot(c).step > 0 => Slot(c).acct \in Nick \X Password)
                                /\ (Slot(c).step = 2 => <<c, Slot(c).acct[1]>> \in proved)
           /\ Sound(Cleared(c), proved)
<1> DEFINE k == CHOOSE i \in SlotOf(c) : TRUE
<1>1. Sound(slot, proved)  BY SlotsSound
<1>2. slot \in Seq(Exchange) /\ DOMAIN slot = 1..Len(slot)  BY <1>1 DEF Sound
<1>3. SlotOf(c) # {} => k \in 1..Len(slot) /\ slot[k].c = c /\ slot[k] \in Exchange  BY <1>2 DEF SlotOf
<1>4. SlotOf(c) # {} => Slot(c) = slot[k]  BY DEF Slot
<1>5. Cleared(c) = IF SlotOf(c) = {} THEN slot ELSE Without(slot, k)  BY DEF Cleared
<1> HIDE DEF k
<1>6. SlotOf(c) # {} => Sound(Without(slot, k), proved)  BY <1>1, <1>3, SoundWithout
<1>7. SlotOf(c) # {} => /\ slot[k].step > 0 => slot[k].acct \in Nick \X Password
                        /\ slot[k].step = 2 => <<slot[k].c, slot[k].acct[1]>> \in proved
  BY <1>1, <1>3 DEF Sound
<1> QED  BY <1>1, <1>3, <1>4, <1>5, <1>6, <1>7

LEMMA SoundWith ==
    ASSUME Inv, NEW x \in Exchange, NEW P, proved \subseteq P, x.step > 0 => x.acct \in Nick \X Password,
           x.step = 2 => <<x.c, x.acct[1]>> \in P
    PROVE  Sound(WithSlot(x), P)
<1> DEFINE t == WithSlot(x)
           n == Len(slot)
<1>1. Sound(slot, P)  BY SlotsSound
<1>2. slot \in Seq(Exchange) /\ n \in Nat /\ DOMAIN slot = 1..n /\ n <= SlotMax  BY <1>1 DEF Sound
<1>3. t = [i \in 1..n |-> IF slot[i].c = x.c THEN x ELSE slot[i]]  BY <1>2 DEF WithSlot
<1>4. \A i \in 1..n : slot[i] \in Exchange  BY <1>2
<1>5. t \in Seq(Exchange) /\ Len(t) = n
  <2>1. t \in [1..n -> Exchange]  BY <1>3, <1>4
  <2> HIDE DEF t, n
  <2> QED  BY <1>2, <2>1
<1>6. \A i \in 1..n : t[i] = (IF slot[i].c = x.c THEN x ELSE slot[i]) /\ t[i].c = slot[i].c  BY <1>3
<1> HIDE DEF t
<1>7. \A i, j \in 1..n : t[i].c = t[j].c => i = j  BY <1>1, <1>6 DEF Sound
<1>8. \A i \in 1..n : (t[i].step > 0 => t[i].acct \in Nick \X Password) /\ (t[i].step = 2 => <<t[i].c, t[i].acct[1]>> \in P)
  BY <1>1, <1>6 DEF Sound
<1>9. Sound(t, P)  BY <1>2, <1>5, <1>7, <1>8 DEF Sound
<1> QED  BY <1>9 DEF t

LEMMA SoundAppend ==
    ASSUME NEW s, NEW P, Sound(s, P), Len(s) < SlotMax, NEW x \in Exchange, x.step = 0, \A i \in 1..Len(s) : s[i].c # x.c
    PROVE  Sound(Append(s, x), P)
<1> DEFINE t == Append(s, x)
           n == Len(s)
<1>1. s \in Seq(Exchange) /\ n \in Nat /\ n <= SlotMax /\ SlotMax \in Nat  BY Consts DEF Sound
<1>2. t \in Seq(Exchange) /\ Len(t) = n + 1 /\ t[n + 1] = x /\ \A i \in 1..n : t[i] = s[i]  BY <1>1, AppendProperties
<1> HIDE DEF t
<1>3. \A i \in 1..(n + 1) : i \in 1..n \/ i = n + 1  BY <1>1
<1>4. n + 1 <= SlotMax  BY <1>1
<1>5. ASSUME NEW i \in 1..(n + 1), NEW j \in 1..(n + 1), t[i].c = t[j].c  PROVE i = j
  <2>1. CASE i \in 1..n /\ j \in 1..n  BY <1>2, <1>5, <2>1 DEF Sound
  <2>2. CASE i = n + 1 /\ j = n + 1  BY <2>2
  <2>3. CASE i \in 1..n /\ j = n + 1  BY <1>2, <1>5, <2>3
  <2>4. CASE i = n + 1 /\ j \in 1..n  BY <1>2, <1>5, <2>4
  <2> QED  BY <1>3, <2>1, <2>2, <2>3, <2>4
<1>6. ASSUME NEW i \in 1..(n + 1)
      PROVE (t[i].step > 0 => t[i].acct \in Nick \X Password) /\ (t[i].step = 2 => <<t[i].c, t[i].acct[1]>> \in P)
  <2>1. CASE i \in 1..n  BY <1>2, <2>1 DEF Sound
  <2>2. CASE i = n + 1
    <3>1. t[i].step = 0  BY <1>2, <2>2
    <3> QED  BY <3>1
  <2> QED  BY <1>3, <2>1, <2>2
<1>7. Sound(t, P)  BY <1>2, <1>4, <1>5, <1>6 DEF Sound
<1> QED  BY <1>7 DEF t

LEMMA StartedSound ==
    ASSUME Inv, NEW c \in Conn, NEW m \in Mechs
    PROVE  Sound(Started(c, m), proved)
<1> DEFINE x == [c |-> c, mech |-> m, step |-> 0, acct |-> None]
<1>1. Sound(slot, proved)  BY SlotsSound
<1>2. slot \in Seq(Exchange) /\ Len(slot) \in Nat /\ Len(slot) <= SlotMax /\ SlotMax \in Nat /\ SlotMax > 0
  BY <1>1, Consts DEF Sound
<1>3. CASE SlotOf(c) # {}
  <2> DEFINE y == [Slot(c) EXCEPT !.mech = m]
  <2>1. /\ Slot(c) \in Exchange /\ Slot(c).c = c
        /\ (Slot(c).step > 0 => Slot(c).acct \in Nick \X Password)
        /\ (Slot(c).step = 2 => <<c, Slot(c).acct[1]>> \in proved)
    BY <1>3, SlotForm
  <2>2. y \in Exchange /\ y.c = c /\ y.step = Slot(c).step /\ y.acct = Slot(c).acct  BY <2>1 DEF Exchange
  <2>3. Started(c, m) = WithSlot(y)  BY <1>3 DEF Started
  <2> HIDE DEF y
  <2>4. Sound(WithSlot(y), proved)  BY <2>1, <2>2, SoundWith
  <2> QED  BY <2>3, <2>4
<1>4. CASE SlotOf(c) = {}
  <2>1. x \in Exchange /\ x.step = 0 /\ x.c = c  BY DEF Exchange
  <2>2. \A i \in 1..Len(slot) : slot[i].c # c  BY <1>2, <1>4 DEF SlotOf
  <2>3. Started(c, m) = Append(IF Len(slot) < SlotMax THEN slot ELSE Tail(slot), x)  BY <1>4 DEF Started
  <2> HIDE DEF x
  <2>4. CASE Len(slot) < SlotMax  BY <1>1, <2>1, <2>2, <2>3, <2>4, SoundAppend
  <2>5. CASE ~(Len(slot) < SlotMax)
    <3> DEFINE t == Tail(slot)
               g == [i \in 1..Len(t) |-> i + 1]
    <3>1. slot # << >> /\ Len(slot) = SlotMax
      <4>1. Len(slot) = SlotMax /\ Len(slot) # 0  BY <1>2, <2>5
      <4> QED  BY <4>1
    <3>2. /\ t \in Seq(Exchange) /\ Len(t) = Len(slot) - 1
          /\ \A i \in 1..Len(t) : i + 1 \in 1..Len(slot) /\ t[i] = slot[i + 1]
      BY <1>2, <3>1, QueueRest
    <3> HIDE DEF t
    <3>3. Len(t) <= Len(slot) /\ Len(t) < SlotMax  BY <1>2, <3>1, <3>2
    <3>4. \A i, j \in 1..Len(t) : i + 1 = j + 1 => i = j  OBVIOUS
    <3>5. g \in [1..Len(t) -> 1..Len(slot)] /\ \A i \in 1..Len(t) : t[i] = slot[g[i]]  BY <3>2
    <3>6. \A i, j \in 1..Len(t) : g[i] = g[j] => i = j  BY <3>4
    <3> HIDE DEF g
    <3>10. \E f \in [1..Len(t) -> 1..Len(slot)] : /\ \A i \in 1..Len(t) : t[i] = slot[f[i]]
                                                 /\ \A i, j \in 1..Len(t) : f[i] = f[j] => i = j
      BY <3>5, <3>6
    <3>9. Sound(t, proved)  BY <1>1, <3>2, <3>3, <3>10, SoundPart
    <3>7. \A i \in 1..Len(t) : t[i].c # c  BY <2>2, <3>2
    <3>8. Sound(Append(t, x), proved)  BY <2>1, <3>3, <3>9, <3>7, SoundAppend
    <3> QED  BY <2>3, <2>5, <3>8 DEF t
  <2> QED  BY <2>4, <2>5
<1> QED  BY <1>3, <1>4

(***************************************************************************)
(* NickServ's answers that leave its picture alone.                        *)
(***************************************************************************)
LEMMA IrcLines ==
    ASSUME NEW c \in Conn
    PROVE  /\ \A a \in Anyone : LoginLine(c, a) \in IrcLine
           /\ \A ok \in BOOLEAN : Verdict(c, ok) \in IrcLine
           /\ \A n \in Nick : Rename(c, n) \in IrcLine
           /\ \A k \in {"KILL", "CHALLENGE", "SVCREGRESULT"} : [k |-> k, c |-> c] \in IrcLine
<1>1. \A a \in Anyone : LoginLine(c, a) \in IrcLine  BY DEF IrcLine, LoginLine
<1>2. \A ok \in BOOLEAN : Verdict(c, ok) \in IrcLine  BY DEF IrcLine, Verdict
<1>3. \A n \in Nick : Rename(c, n) \in IrcLine  BY DEF IrcLine, Rename
<1>4. \A k \in {"KILL", "CHALLENGE", "SVCREGRESULT"} : [k |-> k, c |-> c] \in IrcLine  BY DEF IrcLine
<1> QED  BY <1>1, <1>2, <1>3, <1>4

\* Every login that is ordered has been earned.
Deserved(out, P) == \A i \in 1..Len(out) : out[i].k = "SVSLOGIN" /\ out[i].acct # None => <<out[i].c, out[i].acct>> \in P

LEMMA NsSame ==
    ASSUME Inv, UNCHANGED <<play, conn, up, watch, view>>, NEW out \in Seq(IrcLine), up \/ out = << >>,
           Out(out), NsRead, proved \subseteq proved', Deserved(out, proved'),
           store' \in [Nick -> Account \cup {None}], Sound(slot', proved')
    PROVE  Inv'
<1>1. view \in [Conn -> Seen \cup {None}]  BY DEF Inv, NsTyped
<1>2. NsTyped'  BY <1>1 DEF NsTyped
<1>3. SlotsTyped' /\ \A i \in 1..Len(slot') : slot'[i].step = 2 => <<slot'[i].c, slot'[i].acct[1]>> \in proved'
  BY DEF SlotsTyped, Sound
<1>4. Picture(view') = Picture(view)  OBVIOUS
<1>5. \A c \in Conn : view'[c] = view[c]  OBVIOUS
<1>6. QuietNs(out)  BY <1>2, <1>3, <1>4, <1>5 DEF QuietNs, Out, Deserved
<1> QED  BY <1>6, QuietNsInv

LEMMA Proven ==
    ASSUME NEW c, NEW a, Proves(c, a)
    PROVE  proved \subseteq proved' /\ (a # None => <<c, a>> \in proved')
  BY DEF Proves

LEMMA DoneInv ==
    ASSUME Inv, UNCHANGED <<play, conn, up, watch, view, store>>, up, NsRead, NEW c \in Conn, NEW a \in Anyone, Done(c, a),
           proved \subseteq proved', a # None => <<c, a>> \in proved'
    PROVE  Inv'
<1> DEFINE l == LoginLine(c, a)
           v == Verdict(c, a # None)
           out == IF a # None THEN <<l, v>> ELSE <<v>>
<1>1. l \in IrcLine /\ v \in IrcLine /\ l.c = c /\ l.acct = a /\ v.k = "VERDICT"
  <2>1. (a # None) \in BOOLEAN  OBVIOUS
  <2> QED  BY <2>1, IrcLines DEF LoginLine, Verdict
<1>2. Out(out)
  <2>1. Out((IF a # None THEN <<l>> ELSE << >>) \o <<v>>)  BY DEF Done
  <2>2. CASE a # None
    <3>1. <<l>> \o <<v>> = <<l, v>>  BY <1>1, TwoLines
    <3> QED  BY <2>1, <2>2, <3>1
  <2>3. CASE a = None
    <3>1. << >> \o <<v>> = <<v>>
      <4> HIDE DEF v
      <4> QED  BY <1>1
    <3> QED  BY <2>1, <2>3, <3>1
  <2> QED  BY <2>2, <2>3
<1> HIDE DEF l, v
<1>3. out \in Seq(IrcLine) /\ \A i \in 1..Len(out) : out[i] = v \/ (out[i] = l /\ a # None)
  <2>1. CASE a # None  BY <1>1, <2>1, OneLine
  <2>2. CASE a = None  BY <1>1, <2>2, OneLine
  <2> QED  BY <2>1, <2>2
<1> HIDE DEF out
<1>4. Deserved(out, proved')  BY <1>1, <1>3 DEF Deserved
<1>5. Sound(Cleared(c), proved)  BY SlotForm
<1>6. Sound(slot', proved')  BY <1>5, SlotsSound DEF Done
<1>7. store' \in [Nick -> Account \cup {None}]  BY DEF Inv, NsTyped
<1> QED  BY <1>2, <1>3, <1>4, <1>6, <1>7, NsSame

LEMMA GoInv ==
    ASSUME Inv, UNCHANGED <<play, conn, up, watch, view, store>>, up, NsRead, NEW x \in Exchange, Go(x),
           proved \subseteq proved', x.step > 0 => x.acct \in Nick \X Password, x.step = 2 => <<x.c, x.acct[1]>> \in proved'
    PROVE  Inv'
<1> DEFINE m == [k |-> "CHALLENGE", c |-> x.c]
<1>1. x.c \in Conn  BY DEF Exchange
<1>2. m \in IrcLine /\ m.k = "CHALLENGE"  BY <1>1, IrcLines
<1>3. Out(<<m>>) /\ slot' = WithSlot(x)  BY DEF Go
<1> HIDE DEF m
<1>4. <<m>> \in Seq(IrcLine) /\ Deserved(<<m>>, proved')  BY <1>2, OneLine DEF Deserved
<1>5. Sound(slot', proved')  BY <1>3, SoundWith
<1>6. store' \in [Nick -> Account \cup {None}]  BY DEF Inv, NsTyped
<1> QED  BY <1>3, <1>4, <1>5, <1>6, NsSame

\* A DATA line for a slot.
LEMMA DataForm ==
    ASSUME Inv, NEW m, DataFor(m)
    PROVE  /\ up /\ NsRead /\ Msg.c \in Conn /\ Msg.data \in Data /\ UNCHANGED <<conn, up, watch, view, store>>
           /\ Slot(Msg.c) \in Exchange /\ Slot(Msg.c).c = Msg.c
           /\ (Slot(Msg.c).step > 0 => Slot(Msg.c).acct \in Nick \X Password)
           /\ (Slot(Msg.c).step = 2 => <<Msg.c, Slot(Msg.c).acct[1]>> \in proved)
<1>1. Heard("DATA") /\ SlotOf(Msg.c) # {} /\ UNCHANGED <<conn, up, watch, view, store>>  BY DEF DataFor, ByNs, hub
<1>2. up /\ NsRead /\ Msg.c \in Conn /\ Msg.data \in Data  BY <1>1, HeardForm, NsForm DEF Feeds
<1> QED  BY <1>1, <1>2, SlotForm

LEMMA DataTyped ==
    ASSUME NEW d \in Data
    PROVE  (d.kind \in {"plain", "first"} => d.acct \in Anyone) /\ (d.kind = "plain" => d.pw \in Password)
  BY DEF Data, Anyone

LEMMA SaslInv ==
    ASSUME Inv, UNCHANGED play,
           NsStart \/ NsAbort \/ NsAbandon \/ NsUnknown \/ NsPlain \/ NsScramFirst \/ NsScramFinal \/ NsScramAck \/ NsExternal
    PROVE  Inv'
<1>1. store \in [Nick -> Account \cup {None}] /\ NsTyped /\ toIrc \in Seq(IrcLine)  BY DEF Inv, NsTyped, LinkTyped
<1>2. Sound(slot, proved) /\ \A s, P, Q : Sound(s, P) /\ P \subseteq Q => Sound(s, Q)  BY SlotsSound
<1>3. << >> \in Seq(IrcLine) /\ Deserved(<< >>, proved)  BY OneLine DEF Deserved
<1>4. None \in Anyone /\ \A a \in Anyone : (IF Suspended(a) THEN None ELSE a) \in Anyone  BY DEF Anyone
<1>5. CASE NsStart
  <2>1. Heard("START") /\ UNCHANGED <<conn, up, watch, view, store, proved>> /\ Out(<< >>) /\ slot' = Started(Msg.c, Msg.mech)
    BY <1>5 DEF NsStart, ByNs, hub, ghosts
  <2>2. up /\ NsRead /\ Msg.c \in Conn /\ Msg.mech \in Mechs  BY <2>1, HeardForm, NsForm DEF Feeds
  <2>3. Sound(slot', proved)  BY <2>1, <2>2, StartedSound
  <2> QED  BY <1>1, <1>3, <2>1, <2>2, <2>3, NsSame
<1>6. CASE NsAbort
  <2>1. Heard("ABORT") /\ UNCHANGED <<conn, up, watch, view, store, proved>> /\ Out(<< >>) /\ slot' = Cleared(Msg.c)
    BY <1>6 DEF NsAbort, ByNs, hub, ghosts
  <2>2. up /\ NsRead /\ Msg.c \in Conn  BY <2>1, HeardForm, NsForm DEF Feeds
  <2>3. Sound(slot', proved)  BY <2>1, <2>2, SlotForm
  <2> QED  BY <1>1, <1>3, <2>1, <2>2, <2>3, NsSame
<1>7. CASE NsAbandon
  <2>1. UNCHANGED <<conn, up, watch, toNs, toIrc, view, store, proved>> /\ \E i \in DOMAIN slot : slot' = Without(slot, i)
    BY <1>7 DEF NsAbandon, hub, ghosts
  <2>2. DOMAIN slot = 1..Len(slot)  BY <1>2 DEF Sound
  <2>3. Sound(slot', proved)  BY <1>2, <2>1, <2>2, SoundWithout
  <2>4. NsRead /\ Out(<< >>)  BY <1>1, <2>1 DEF NsRead, Out
  <2> QED  BY <1>1, <1>3, <2>1, <2>3, <2>4, NsSame
<1>8. CASE NsUnknown
  <2>1. Heard("DATA") /\ UNCHANGED <<conn, up, watch, view, store, slot, proved>> /\ Out(<<Verdict(Msg.c, FALSE)>>)
    BY <1>8 DEF NsUnknown, ByNs, hub, ghosts
  <2>2. up /\ NsRead /\ Msg.c \in Conn  BY <2>1, HeardForm, NsForm DEF Feeds
  <2> DEFINE m == Verdict(Msg.c, FALSE)
  <2>3. m \in IrcLine /\ m.k = "VERDICT"  BY <2>2, IrcLines DEF Verdict
  <2> HIDE DEF m
  <2>4. <<m>> \in Seq(IrcLine) /\ Deserved(<<m>>, proved)  BY <2>3, OneLine DEF Deserved
  <2>5. Out(<<m>>)  BY <2>1 DEF m
  <2> QED  BY <1>1, <1>2, <2>1, <2>2, <2>4, <2>5, NsSame
<1>9. CASE NsPlain
  <2> DEFINE d == Msg.data
             a == IF d.kind = "plain" /\ ~Throttled THEN Checked(d.acct, d.pw) ELSE None
             b == IF Suspended(a) THEN None ELSE a
  <2>1. DataFor("PLAIN") /\ Done(Msg.c, b) /\ Proves(Msg.c, b)  BY <1>9 DEF NsPlain
  <2>2. up /\ NsRead /\ Msg.c \in Conn /\ d \in Data /\ UNCHANGED <<conn, up, watch, view, store>>  BY <2>1, DataForm
  <2>3. d.kind = "plain" => Checked(d.acct, d.pw) \in Anyone
    <3>1. d.kind = "plain" => OwnerOf(d.acct) \in Anyone  BY <1>1, <2>2, DataTyped, OwnerForm
    <3> QED  BY <1>4, <3>1 DEF Checked
  <2>4. b \in Anyone
    <3>1. a \in Anyone  BY <1>4, <2>3
    <3> HIDE DEF a
    <3> QED  BY <1>4, <3>1
  <2> HIDE DEF b
  <2>5. proved \subseteq proved' /\ (b # None => <<Msg.c, b>> \in proved')  BY <2>1, Proven
  <2> QED  BY <2>1, <2>2, <2>4, <2>5, DoneInv
<1>10. CASE NsScramFirst
  <2> DEFINE a == IF Msg.data.kind = "first" THEN OwnerOf(Msg.data.acct) ELSE None
             x == [Slot(Msg.c) EXCEPT !.step = 1, !.acct = <<a, store[a].pw>>]
  <2>1. DataFor("SCRAM") /\ UNCHANGED proved  BY <1>10 DEF NsScramFirst
  <2>2. /\ up /\ NsRead /\ Msg.c \in Conn /\ Msg.data \in Data /\ UNCHANGED <<conn, up, watch, view, store>>
        /\ Slot(Msg.c) \in Exchange
    BY <2>1, DataForm
  <2>3. a \in Anyone /\ (a # None => store[a] \in Account)
    <3>1. CASE Msg.data.kind = "first"
      <4>1. Msg.data.acct \in Anyone  BY <2>2, <3>1, DataTyped
      <4> QED  BY <1>1, <3>1, <4>1, OwnerForm
    <3>2. CASE Msg.data.kind # "first"  BY <1>4, <3>2
    <3> QED  BY <3>1, <3>2
  <2>4. IF a = None \/ Suspended(a) THEN Done(Msg.c, None) ELSE Go(x)  BY <1>10 DEF NsScramFirst
  <2> HIDE DEF a
  <2>5. CASE a = None \/ Suspended(a)  BY <1>4, <2>1, <2>2, <2>4, <2>5, DoneInv
  <2>6. CASE ~(a = None \/ Suspended(a))
    <3>1. a \in Nick /\ store[a].pw \in Password  BY <2>3, <2>6 DEF Anyone, Account
    <3> DEFINE v == <<a, store[a].pw>>
    <3>2. v \in Nick \X Password  BY <3>1
    <3> HIDE DEF v
    <3>3. x \in Exchange /\ x.step = 1 /\ x.acct = v
      <4>1. x = [Slot(Msg.c) EXCEPT !.step = 1, !.acct = v]  BY DEF v
      <4>2. 1 \in 0..2  OBVIOUS
      <4> HIDE DEF x
      <4> QED  BY <2>2, <3>2, <4>1, <4>2 DEF Exchange
    <3> HIDE DEF x
    <3>4. x.acct \in Nick \X Password /\ x.step # 2  BY <3>2, <3>3
    <3>5. Go(x)  BY <2>4, <2>6
    <3> QED  BY <2>1, <2>2, <3>3, <3>4, <3>5, GoInv
  <2> QED  BY <2>5, <2>6
<1>11. CASE NsScramFinal
  <2> DEFINE v == Slot(Msg.c).acct
             x == [Slot(Msg.c) EXCEPT !.step = 2]
  <2>1. DataFor("SCRAM") /\ Slot(Msg.c).step = 1  BY <1>11 DEF NsScramFinal
  <2>2. /\ up /\ NsRead /\ Msg.c \in Conn /\ UNCHANGED <<conn, up, watch, view, store>>
        /\ Slot(Msg.c) \in Exchange /\ v \in Nick \X Password /\ Slot(Msg.c).c = Msg.c
    BY <2>1, DataForm
  <2>3. CASE Msg.data.kind = "final" /\ Msg.data.pw = v[2]
    <3>1. Go(x) /\ Proves(Msg.c, v[1])  BY <1>11, <2>3 DEF NsScramFinal
    <3>2. x \in Exchange /\ x.step = 2 /\ x.acct = v /\ x.c = Msg.c  BY <2>2 DEF Exchange
    <3>3. v[1] # None  BY <2>2, Consts
    <3>4. proved \subseteq proved' /\ <<Msg.c, v[1]>> \in proved'  BY <3>1, <3>3, Proven
    <3> HIDE DEF x, v
    <3> QED  BY <2>2, <3>1, <3>2, <3>4, GoInv
  <2>4. CASE ~(Msg.data.kind = "final" /\ Msg.data.pw = v[2])
    <3>1. Done(Msg.c, None) /\ UNCHANGED proved  BY <1>11, <2>4 DEF NsScramFinal
    <3> QED  BY <1>4, <2>2, <3>1, DoneInv
  <2> QED  BY <2>3, <2>4
<1>12. CASE NsScramAck
  <2> DEFINE a == Slot(Msg.c).acct[1]
  <2>1. DataFor("SCRAM") /\ Slot(Msg.c).step = 2 /\ Done(Msg.c, a) /\ UNCHANGED proved  BY <1>12 DEF NsScramAck
  <2>2. /\ up /\ NsRead /\ Msg.c \in Conn /\ UNCHANGED <<conn, up, watch, view, store>>
        /\ Slot(Msg.c).acct \in Nick \X Password /\ <<Msg.c, a>> \in proved
    BY <2>1, DataForm
  <2>3. a \in Anyone  BY <2>2 DEF Anyone
  <2> HIDE DEF a
  <2> QED  BY <2>1, <2>2, <2>3, DoneInv
<1>13. CASE NsExternal
  <2> DEFINE S == {a \in Nick : store[a] # None /\ store[a].cert = Msg.c}
             a == IF S = {} THEN None ELSE CHOOSE x \in S : TRUE
             b == IF Suspended(a) THEN None ELSE a
  <2>1. DataFor("EXTERNAL") /\ Done(Msg.c, b) /\ Proves(Msg.c, b)  BY <1>13 DEF NsExternal
  <2>2. up /\ NsRead /\ Msg.c \in Conn /\ UNCHANGED <<conn, up, watch, view, store>>  BY <2>1, DataForm
  <2>3. b \in Anyone
    <3>1. a \in Anyone  BY DEF Anyone
    <3> HIDE DEF a
    <3> QED  BY <1>4, <3>1
  <2> HIDE DEF b
  <2>4. proved \subseteq proved' /\ (b # None => <<Msg.c, b>> \in proved')  BY <2>1, Proven
  <2> QED  BY <2>1, <2>2, <2>3, <2>4, DoneInv
<1> QED  BY <1>5, <1>6, <1>7, <1>8, <1>9, <1>10, <1>11, <1>12, <1>13

(***************************************************************************)
(* Commands.                                                               *)
(***************************************************************************)
Stores == [Nick -> Account \cup {None}]

LEMMA FreshForm == ASSUME NEW p \in Password PROVE Fresh(p) \in Account
  BY DEF Fresh, Account

LEMMA Edits ==
    ASSUME store \in Stores, NEW a \in Nick, store[a] \in Account
    PROVE  /\ \A p \in Password : Rekeyed(a, p) \in Stores
           /\ [store EXCEPT ![a].reset = TRUE] \in Stores /\ [store EXCEPT ![a].code = TRUE] \in Stores
           /\ [store EXCEPT ![a].verified = TRUE, ![a].code = FALSE] \in Stores
           /\ \A c \in Conn \cup {None} : [store EXCEPT ![a].cert = c] \in Stores
           /\ \A n \in Nick : [store EXCEPT ![a].nicks = @ \cup {n}] \in Stores /\ [store EXCEPT ![a].nicks = @ \ {n}] \in Stores
           /\ \A b \in BOOLEAN : [store EXCEPT ![a].suspended = b] \in Stores
<1> DEFINE x == store[a]
<1>1. \A y \in Account : [store EXCEPT ![a] = y] \in Stores  BY DEF Stores
<1>2. x \in Account  OBVIOUS
<1>3. ASSUME NEW p \in Password  PROVE Rekeyed(a, p) \in Stores
  <2>1. [x EXCEPT !.pw = p, !.reset = FALSE] \in Account  BY <1>2 DEF Account
  <2>2. Rekeyed(a, p) = [store EXCEPT ![a] = [x EXCEPT !.pw = p, !.reset = FALSE]]  BY DEF Rekeyed, Stores
  <2> QED  BY <1>1, <2>1, <2>2
<1>4. [store EXCEPT ![a].reset = TRUE] \in Stores
  <2>1. [x EXCEPT !.reset = TRUE] \in Account  BY <1>2 DEF Account
  <2> QED  BY <1>1, <2>1
<1>5. [store EXCEPT ![a].code = TRUE] \in Stores
  <2>1. [x EXCEPT !.code = TRUE] \in Account  BY <1>2 DEF Account
  <2> QED  BY <1>1, <2>1
<1>6. [store EXCEPT ![a].verified = TRUE, ![a].code = FALSE] \in Stores
  <2>1. [x EXCEPT !.verified = TRUE, !.code = FALSE] \in Account  BY <1>2 DEF Account
  <2>2. [store EXCEPT ![a].verified = TRUE, ![a].code = FALSE] = [store EXCEPT ![a] = [x EXCEPT !.verified = TRUE, !.code = FALSE]]
    BY DEF Stores
  <2> QED  BY <1>1, <2>1, <2>2
<1>7. ASSUME NEW c \in Conn \cup {None}  PROVE [store EXCEPT ![a].cert = c] \in Stores
  <2>1. [x EXCEPT !.cert = c] \in Account  BY <1>2 DEF Account
  <2> QED  BY <1>1, <2>1
<1>8. ASSUME NEW n \in Nick
      PROVE  [store EXCEPT ![a].nicks = @ \cup {n}] \in Stores /\ [store EXCEPT ![a].nicks = @ \ {n}] \in Stores
  <2>1. [x EXCEPT !.nicks = @ \cup {n}] \in Account /\ [x EXCEPT !.nicks = @ \ {n}] \in Account  BY <1>2 DEF Account
  <2> QED  BY <1>1, <2>1
<1>9. ASSUME NEW b \in BOOLEAN  PROVE [store EXCEPT ![a].suspended = b] \in Stores
  <2>1. [x EXCEPT !.suspended = b] \in Account  BY <1>2 DEF Account
  <2> QED  BY <1>1, <2>1
<1> QED  BY <1>3, <1>4, <1>5, <1>6, <1>7, <1>8, <1>9

\* The one the picture shows under the sender's nick has typed the command.
LEMMA AskedForm ==
    ASSUME Inv, Heard("PRIVMSG"), Sender # {}
    PROVE  /\ up /\ NsRead /\ Cmd \in Typed /\ Cmd.arg \in Nick /\ Cmd.pw \in Password /\ Cmd.new \in Password
           /\ Me \in Conn /\ Me = Cmd.c /\ view[Me] # None /\ view[Me] \in Seen /\ view[Me].nick \in Nick /\ Mine \in Anyone
<1>1. /\ up /\ NsRead /\ toNs # << >> /\ Msg = Head(toNs) /\ Msg \in NsLine /\ Msg.k = "PRIVMSG"
      /\ Msg.nick \in Nick /\ Msg.t \in Typed
  BY HeardForm, NsForm DEF Feeds
<1>2. Cmd.arg \in Nick /\ Cmd.pw \in Password /\ Cmd.new \in Password  BY <1>1 DEF Cmd, Typed
<1>3. Me \in Sender  BY DEF Me
<1>4. Me \in Conn /\ view[Me] # None /\ view[Me].nick = Msg.nick  BY <1>3 DEF Sender
<1>5. view \in [Conn -> Seen \cup {None}] /\ toNs \in Seq(NsLine)  BY DEF Inv, NsTyped, LinkTyped
<1>6. view[Me] \in Seen /\ Picture(view)[Me] = Msg.nick  BY <1>4, <1>5, SeenForm
<1>7. Claims(Picture(view), Msg)  BY <1>1, <1>5, LeadsFrom DEF Inv, Named
<1>8. Me = Cmd.c  BY <1>1, <1>4, <1>6, <1>7 DEF Claims, Cmd
<1>9. Mine \in Anyone  BY <1>6 DEF Mine, Seen, Anyone
<1> QED  BY <1>1, <1>2, <1>4, <1>6, <1>8, <1>9 DEF Cmd

LEMMA CheckedForm ==
    ASSUME NsTyped, NEW a \in Anyone, NEW p, Checked(a, p) # None
    PROVE  Checked(a, p) \in Nick /\ OwnerOf(a) \in Nick /\ store[OwnerOf(a)] \in Account
<1>1. OwnerOf(a) \in Anyone /\ (OwnerOf(a) # None => store[OwnerOf(a)] \in Account)  BY OwnerForm DEF NsTyped
<1>2. OwnerOf(a) # None /\ Checked(a, p) = OwnerOf(a)  BY DEF Checked
<1> QED  BY <1>1, <1>2 DEF Anyone

LEMMA ValidForm ==
    ASSUME Inv, NEW k, Told(k)
    PROVE  /\ Heard("PRIVMSG") /\ Sender # {} /\ UNCHANGED <<conn, up, watch>>
           /\ k \in {"SET PASSWORD", "DROP"} => OwnerOf(Mine) \in Nick /\ store[OwnerOf(Mine)] \in Account
           /\ k \in {"RESET MAIL", "RESETPASS", "SUSPEND", "UNSUSPEND", "FDROP", "SASET"} =>
                OwnerOf(Cmd.arg) \in Nick /\ store[OwnerOf(Cmd.arg)] \in Account
           /\ k \in {"CERT ADD", "CERT DEL", "SET EMAIL", "VERIFY", "GROUP", "UNGROUP"} =>
                Mine \in Nick /\ store[Mine] \in Account
           /\ k = "IDENTIFY" => CheckedHere \in Nick
           /\ k = "GHOST" => Found(Cmd.arg) # {}
<1>1. Heard("PRIVMSG") /\ Sender # {} /\ Cmd.cmd = k /\ Valid /\ UNCHANGED <<conn, up, watch>>  BY DEF Told, Asked, ByNs, hub
<1>2. NsTyped /\ store \in [Nick -> Account \cup {None}]  BY DEF Inv, NsTyped
<1>3. Cmd.arg \in Nick /\ Mine \in Anyone /\ Cmd.arg \in Anyone  BY <1>1, AskedForm DEF Anyone
<1>4. ASSUME k \in {"SET PASSWORD", "DROP"}  PROVE OwnerOf(Mine) \in Nick /\ store[OwnerOf(Mine)] \in Account
  <2>1. CheckedHere # None  BY <1>1, <1>4 DEF Valid
  <2>2. Checked(Mine, Cmd.pw) # None  BY <1>1, <1>4, <2>1 DEF CheckedHere
  <2> QED  BY <1>2, <1>3, <2>2, CheckedForm
<1>5. ASSUME k \in {"RESET MAIL", "RESETPASS", "SUSPEND", "UNSUSPEND", "FDROP", "SASET"}
      PROVE  OwnerOf(Cmd.arg) \in Nick /\ store[OwnerOf(Cmd.arg)] \in Account
  <2>1. OwnerOf(Cmd.arg) # None
    <3>1. CASE k = "RESETPASS"
      <4>1. ~WrongPassword  BY <1>1, <3>1 DEF Valid
      <4> QED  BY <1>1, <3>1, <4>1 DEF WrongPassword
    <3>2. CASE k # "RESETPASS"  BY <1>1, <1>5, <3>2 DEF Valid
    <3> QED  BY <3>1, <3>2
  <2> QED  BY <1>2, <1>3, <2>1, OwnerForm DEF Anyone
<1>6. ASSUME k \in {"CERT ADD", "CERT DEL", "SET EMAIL", "VERIFY", "GROUP", "UNGROUP"}
      PROVE  Mine \in Nick /\ store[Mine] \in Account
  <2>1. Mine # None /\ store[Mine] # None  BY <1>1, <1>6 DEF Valid
  <2> QED  BY <1>2, <1>3, <2>1 DEF Anyone
<1>7. ASSUME k = "IDENTIFY"  PROVE CheckedHere \in Nick
  <2>1. CheckedHere # None /\ CheckedHere = Checked(Cmd.arg, Cmd.pw)  BY <1>1, <1>7 DEF Valid, CheckedHere
  <2> QED  BY <1>2, <1>3, <2>1, CheckedForm
<1>8. k = "GHOST" => Found(Cmd.arg) # {}  BY <1>1 DEF Valid
<1> QED  BY <1>1, <1>4, <1>5, <1>6, <1>7, <1>8

LEMMA GuestForm == GuestNick \in Nick
<1>1. Guest \subseteq Nick /\ Guest # {}  BY Consts
<1>2. \E g \in Guest : Found(g) = {} \/ \A h \in Guest : Found(h) # {}  BY <1>1
<1>3. GuestNick \in Guest  BY <1>2 DEF GuestNick
<1> QED  BY <1>1, <1>3

\* Only the accounts change.
LEMMA StoreOnly ==
    ASSUME Inv, UNCHANGED play, Heard("PRIVMSG"), UNCHANGED <<conn, up, watch, view, slot, proved>>, Out(<< >>), store' \in Stores
    PROVE  Inv'
<1>1. Sound(slot, proved)  BY SlotsSound
<1>2. << >> \in Seq(IrcLine) /\ Deserved(<< >>, proved)  BY OneLine DEF Deserved
<1>3. NsRead  BY HeardForm DEF Feeds
<1> QED  BY <1>1, <1>2, <1>3, NsSame DEF Stores

LEMMA StoreOnlyInv ==
    ASSUME Inv, UNCHANGED play,
           NsRefuse \/ NsSetPassword \/ NsResetMail \/ NsSetEmail \/ NsVerify \/ NsCert \/ NsGroup \/ NsUngroup
           \/ NsUnsuspend \/ NsSaset
    PROVE  Inv'
<1> DEFINE Same == Heard("PRIVMSG") /\ UNCHANGED <<conn, up, watch, view, slot, proved>> /\ Out(<< >>)
<1>1. store \in Stores  BY DEF Inv, NsTyped, Stores
<1>2. ASSUME NEW k, Told(k), Keep, Out(<< >>), UNCHANGED view, UNCHANGED proved  PROVE Same
  BY <1>2, ValidForm DEF Keep
<1>3. ASSUME Same, store' \in Stores  PROVE Inv'  BY <1>3, StoreOnly
<1> HIDE DEF Same
<1>4. CASE NsRefuse
  <2>1. Same /\ store' = store  BY <1>4 DEF NsRefuse, ByNs, hub, ghosts, Same
  <2> QED  BY <1>1, <1>3, <2>1
<1>5. CASE NsSetPassword
  <2>1. Told("SET PASSWORD") /\ Same /\ store' = Rekeyed(OwnerOf(Mine), Cmd.new)  BY <1>2, <1>5 DEF NsSetPassword, ghosts
  <2>2. OwnerOf(Mine) \in Nick /\ store[OwnerOf(Mine)] \in Account /\ Cmd.new \in Password  BY <2>1, ValidForm, AskedForm
  <2> QED  BY <1>1, <1>3, <2>1, <2>2, Edits
<1>6. CASE NsResetMail
  <2>1. Told("RESET MAIL") /\ Same /\ store' = [store EXCEPT ![OwnerOf(Cmd.arg)].reset = TRUE]  BY <1>2, <1>6 DEF NsResetMail, ghosts
  <2>2. OwnerOf(Cmd.arg) \in Nick /\ store[OwnerOf(Cmd.arg)] \in Account  BY <2>1, ValidForm
  <2> QED  BY <1>1, <1>3, <2>1, <2>2, Edits
<1>7. CASE NsSetEmail
  <2>1. Told("SET EMAIL") /\ Same /\ store' = [store EXCEPT ![Mine].code = TRUE]  BY <1>2, <1>7 DEF NsSetEmail, ghosts
  <2>2. Mine \in Nick /\ store[Mine] \in Account  BY <2>1, ValidForm
  <2> QED  BY <1>1, <1>3, <2>1, <2>2, Edits
<1>8. CASE NsVerify
  <2>1. Told("VERIFY") /\ Same /\ store' = [store EXCEPT ![Mine].verified = TRUE, ![Mine].code = FALSE]  BY <1>2, <1>8 DEF NsVerify, ghosts
  <2>2. Mine \in Nick /\ store[Mine] \in Account  BY <2>1, ValidForm
  <2> QED  BY <1>1, <1>3, <2>1, <2>2, Edits
<1>9. CASE NsCert
  <2>1. CASE Told("CERT ADD") /\ store' = [store EXCEPT ![Mine].cert = Me]
    <3>1. Same  BY <1>2, <1>9, <2>1 DEF NsCert, ghosts
    <3>2. Mine \in Nick /\ store[Mine] \in Account /\ Me \in Conn \cup {None}  BY <2>1, ValidForm, AskedForm
    <3> QED  BY <1>1, <1>3, <2>1, <3>1, <3>2, Edits
  <2>2. CASE Told("CERT DEL") /\ store' = [store EXCEPT ![Mine].cert = None]
    <3>1. Same  BY <1>2, <1>9, <2>2 DEF NsCert, ghosts
    <3>2. Mine \in Nick /\ store[Mine] \in Account /\ None \in Conn \cup {None}  BY <2>2, ValidForm
    <3> QED  BY <1>1, <1>3, <2>2, <3>1, <3>2, Edits
  <2> QED  BY <1>9, <2>1, <2>2 DEF NsCert
<1>10. CASE NsGroup
  <2>1. Told("GROUP") /\ Same /\ store' = [store EXCEPT ![Mine].nicks = @ \cup {view[Me].nick}]  BY <1>2, <1>10 DEF NsGroup
  <2>2. Mine \in Nick /\ store[Mine] \in Account /\ view[Me].nick \in Nick  BY <2>1, ValidForm, AskedForm
  <2> QED  BY <1>1, <1>3, <2>1, <2>2, Edits
<1>11. CASE NsUngroup
  <2>1. Told("UNGROUP") /\ Same /\ store' = [store EXCEPT ![Mine].nicks = @ \ {Cmd.arg}]  BY <1>2, <1>11 DEF NsUngroup, ghosts
  <2>2. Mine \in Nick /\ store[Mine] \in Account /\ Cmd.arg \in Nick  BY <2>1, ValidForm, AskedForm
  <2> QED  BY <1>1, <1>3, <2>1, <2>2, Edits
<1>12. CASE NsUnsuspend
  <2>1. Told("UNSUSPEND") /\ Same /\ store' = [store EXCEPT ![OwnerOf(Cmd.arg)].suspended = FALSE]  BY <1>2, <1>12 DEF NsUnsuspend, ghosts
  <2>2. OwnerOf(Cmd.arg) \in Nick /\ store[OwnerOf(Cmd.arg)] \in Account /\ FALSE \in BOOLEAN  BY <2>1, ValidForm
  <2> QED  BY <1>1, <1>3, <2>1, <2>2, Edits
<1>13. CASE NsSaset
  <2>1. Told("SASET") /\ Same /\ store' = Rekeyed(OwnerOf(Cmd.arg), Cmd.new)  BY <1>2, <1>13 DEF NsSaset, ghosts
  <2>2. OwnerOf(Cmd.arg) \in Nick /\ store[OwnerOf(Cmd.arg)] \in Account /\ Cmd.new \in Password  BY <2>1, ValidForm, AskedForm
  <2> QED  BY <1>1, <1>3, <2>1, <2>2, Edits
<1> QED  BY <1>4, <1>5, <1>6, <1>7, <1>8, <1>9, <1>10, <1>11, <1>12, <1>13

LEMMA OrderInv ==
    ASSUME Inv, UNCHANGED play, NsRegister \/ NsGhost \/ NsRegain
    PROVE  Inv'
<1>1. store \in [Nick -> Account \cup {None}] /\ NsTyped /\ view \in [Conn -> Seen \cup {None}]  BY DEF Inv, NsTyped
<1>2. Sound(slot, proved) /\ \A s, P, Q : Sound(s, P) /\ P \subseteq Q => Sound(s, Q)  BY SlotsSound
<1>3. None \in Anyone /\ \A n \in Nick : n \in Anyone /\ n # None  BY Consts DEF Anyone
<1>4. CASE NsRegister
  <2> DEFINE ok == MayRegister(Msg.name)
             l == LoginLine(Msg.c, Msg.name)
             r == [k |-> "SVCREGRESULT", c |-> Msg.c]
             out == IF ok THEN <<l, r>> ELSE <<r>>
             a == IF ok THEN Msg.name ELSE None
  <2>1. Heard("SVCREGISTER") /\ UNCHANGED <<conn, up, watch, view, slot>> /\ Proves(Msg.c, a)
    BY <1>4 DEF NsRegister, ByNs, hub
  <2>2. up /\ NsRead /\ Msg.c \in Conn /\ Msg.name \in Nick /\ Msg.pw \in Password  BY <2>1, HeardForm, NsForm DEF Feeds
  <2>3. store' \in [Nick -> Account \cup {None}]
    <3>1. store' = IF ok THEN [store EXCEPT ![Msg.name] = Fresh(Msg.pw)] ELSE store  BY <1>4 DEF NsRegister
    <3>2. Fresh(Msg.pw) \in Account  BY <2>2, FreshForm
    <3> QED  BY <1>1, <2>2, <3>1, <3>2
  <2>4. l \in IrcLine /\ r \in IrcLine /\ l.c = Msg.c /\ l.acct = Msg.name /\ r.k = "SVCREGRESULT"
    BY <1>3, <2>2, IrcLines DEF LoginLine
  <2>5. Out((IF ok THEN <<l>> ELSE << >>) \o <<r>>)  BY <1>4 DEF NsRegister
  <2> HIDE DEF l, r
  <2>6. Out(out)
    <3>1. <<l>> \o <<r>> = <<l, r>>  BY <2>4, TwoLines
    <3>2. <<r>> \in Seq(IrcLine)  BY <2>4, OneLine
    <3>3. << >> \o <<r>> = <<r>>  BY <3>2
    <3> QED  BY <2>5, <3>1, <3>3
  <2>7. out \in Seq(IrcLine) /\ \A i \in 1..Len(out) : out[i] = r \/ (ok /\ out[i] = l)  BY <2>4, OneLine
  <2>8. proved \subseteq proved' /\ (ok => <<Msg.c, Msg.name>> \in proved')
    <3>1. proved \subseteq proved' /\ (a # None => <<Msg.c, a>> \in proved')  BY <2>1, Proven
    <3> QED  BY <1>3, <2>2, <3>1
  <2> HIDE DEF out, ok
  <2>9. Deserved(out, proved')  BY <2>4, <2>7, <2>8 DEF Deserved
  <2>10. Sound(slot', proved')  BY <1>2, <2>1, <2>8
  <2> QED  BY <2>1, <2>2, <2>3, <2>6, <2>7, <2>8, <2>9, <2>10, NsSame
<1>5. ASSUME Heard("PRIVMSG"), UNCHANGED <<conn, up, watch, view, slot, store, proved>>,
             NEW out \in Seq(IrcLine), Out(out), \A i \in 1..Len(out) : out[i].k # "SVSLOGIN"
      PROVE  Inv'
  <2>1. up /\ NsRead  BY <1>5, HeardForm DEF Feeds
  <2>2. Deserved(out, proved)  BY <1>5 DEF Deserved
  <2> QED  BY <1>1, <1>2, <1>5, <2>1, <2>2, NsSame
<1>6. CASE NsGhost
  <2> DEFINE t == CHOOSE c \in Found(Cmd.arg) : TRUE
             m == [k |-> "KILL", c |-> t]
  <2>1. Told("GHOST") /\ UNCHANGED <<view, slot, store, proved>> /\ Out(<<m>>)  BY <1>6 DEF NsGhost, Keep, ghosts
  <2>2. Heard("PRIVMSG") /\ UNCHANGED <<conn, up, watch>> /\ Found(Cmd.arg) # {}  BY <2>1, ValidForm
  <2>3. t \in Found(Cmd.arg)  BY <2>2
  <2>4. t \in Conn  BY <2>3 DEF Found
  <2> HIDE DEF t
  <2>5. m \in IrcLine /\ m.k = "KILL"  BY <2>4, IrcLines
  <2> HIDE DEF m
  <2>6. <<m>> \in Seq(IrcLine) /\ \A i \in 1..Len(<<m>>) : <<m>>[i].k # "SVSLOGIN"  BY <2>5, OneLine
  <2> QED  BY <1>5, <2>1, <2>2, <2>6
<1>7. CASE NsRegain
  <2> DEFINE F == Found(Cmd.arg)
             t == CHOOSE c \in F : TRUE
             far == \E c \in F : (c \in Far) # (Me \in Far)
             kill == [k |-> "KILL", c |-> t]
             off == Rename(t, GuestNick)
             on == Rename(Me, Cmd.arg)
             out == IF far THEN <<kill>> ELSE IF F = {} THEN <<on>> ELSE <<off, on>>
  <2>1. Told("REGAIN") /\ UNCHANGED <<view, slot, store, proved>> /\ Out(out)  BY <1>7 DEF NsRegain, Keep, ghosts
  <2>2. Heard("PRIVMSG") /\ UNCHANGED <<conn, up, watch>> /\ Me \in Conn /\ Cmd.arg \in Nick  BY <2>1, ValidForm, AskedForm
  <2>3. on \in IrcLine /\ on.k = "SVSNICK"  BY <2>2, IrcLines DEF Rename
  <2>4. F # {} => t \in Conn  BY DEF Found
  <2>5. F # {} => kill \in IrcLine /\ off \in IrcLine  BY <2>4, GuestForm, IrcLines
  <2>6. kill.k = "KILL" /\ off.k = "SVSNICK"  BY DEF Rename
  <2> HIDE DEF kill, off, on, F
  <2>7. far => F # {}  OBVIOUS
  <2>8. out \in Seq(IrcLine) /\ \A i \in 1..Len(out) : out[i] \in {kill, off, on}
    <3>1. CASE far  BY <2>5, <2>7, <3>1, OneLine
    <3>2. CASE ~far /\ F = {}  BY <2>3, <3>2, OneLine
    <3>3. CASE ~far /\ F # {}
      <4>1. <<off, on>> \in Seq(IrcLine) /\ \A i \in 1..Len(<<off, on>>) : <<off, on>>[i] \in {off, on}  BY <2>3, <2>5, <3>3, OneLine
      <4>2. out = <<off, on>>  BY <3>3
      <4> QED  BY <4>1, <4>2
    <3> QED  BY <3>1, <3>2, <3>3
  <2> HIDE DEF out
  <2>9. \A i \in 1..Len(out) : out[i].k # "SVSLOGIN"  BY <2>3, <2>6, <2>8
  <2> QED  BY <1>5, <2>1, <2>2, <2>8, <2>9
<1> QED  BY <1>4, <1>6, <1>7

(***************************************************************************)
(* Logins and logouts: the picture runs ahead, and the hub is told.        *)
(***************************************************************************)
LEMMA LoggedInForm ==
    ASSUME NEW v \in [Conn -> Seen \cup {None}], NEW c \in Conn, v[c] # None, NEW a \in Anyone
    PROVE  /\ LoggedIn(v, c, a) \in [Conn -> Seen \cup {None}] /\ Picture(LoggedIn(v, c, a)) = Picture(v)
           /\ LoggedIn(v, c, a)[c].acct = a /\ \A d \in Conn \ {c} : LoggedIn(v, c, a)[d] = v[d]
<1> DEFINE due == IF a # None THEN None ELSE v[c].due
           u == [v[c] EXCEPT !.acct = a, !.due = due]
           w == LoggedIn(v, c, a)
<1>1. v[c] \in Seen  OBVIOUS
<1>2. due \in Anyone  BY <1>1 DEF Seen, Anyone
<1>3. u \in Seen /\ u.acct = a /\ u.nick = v[c].nick  BY <1>1, <1>2 DEF Seen, Anyone
<1>4. w = [v EXCEPT ![c] = u]
  <2>1. w = [v EXCEPT ![c].acct = a, ![c].due = IF a # None THEN None ELSE @]  BY DEF LoggedIn
  <2> QED  BY <1>1, <2>1 DEF Seen
<1> HIDE DEF u, w
<1>5. w \in [Conn -> Seen \cup {None}] /\ w[c] = u /\ \A d \in Conn \ {c} : w[d] = v[d]  BY <1>3, <1>4
<1>6. Picture(w) = Picture(v)
  <2>1. u # None  BY <1>3, Consts
  <2> QED  BY <1>3, <1>5, <2>1 DEF Picture
<1> QED  BY <1>3, <1>5, <1>6 DEF w

LEMMA LogoutForm ==
    ASSUME view \in [Conn -> Seen \cup {None}], NEW a
    PROVE  /\ LogoutAll(a) \in [Conn -> Seen \cup {None}] /\ Picture(LogoutAll(a)) = Picture(view)
           /\ \A c \in Conn : c \in On(view, a) => LogoutAll(a)[c].acct = None
           /\ \A c \in Conn : c \notin On(view, a) => LogoutAll(a)[c] = view[c]
<1> DEFINE w == LogoutAll(a)
<1>1. ASSUME NEW c \in Conn, c \in On(view, a)
      PROVE  w[c] \in Seen /\ w[c] # None /\ view[c] # None /\ w[c].acct = None /\ w[c].nick = view[c].nick
  <2>1. view[c] \in Seen /\ view[c] # None  BY <1>1 DEF On
  <2>2. w[c] = [view[c] EXCEPT !.acct = None]  BY <1>1 DEF LogoutAll
  <2>3. w[c] \in Seen /\ w[c].acct = None /\ w[c].nick = view[c].nick  BY <2>1, <2>2 DEF Seen
  <2> QED  BY <2>1, <2>3, Consts
<1>2. \A c \in Conn : c \notin On(view, a) => w[c] = view[c]  BY DEF LogoutAll
<1>3. w = [c \in Conn |-> w[c]]  BY DEF LogoutAll
<1> HIDE DEF w
<1>4. \A c \in Conn : w[c] \in Seen \cup {None}  BY <1>1, <1>2
<1>5. Picture(w) = Picture(view)  BY <1>1, <1>2 DEF Picture
<1> QED  BY <1>1, <1>2, <1>3, <1>4, <1>5 DEF w

LEMMA LogoutLinesForm ==
    ASSUME NEW a
    PROVE  /\ LogoutLines(a) \in Seq(IrcLine) /\ \A P : Deserved(LogoutLines(a), P)
           /\ \A c \in On(view, a) : Orders(LogoutLines(a), c, None)
<1> DEFINE S == On(view, a)
           n == Cardinality(S)
           s == CHOOSE q \in Seqs(S) : TRUE
           out == [i \in 1..n |-> LoginLine(s[i], None)]
<1>1. S \in SUBSET Conn  BY DEF On
<1>2. IsFiniteSet(S) /\ n \in Nat /\ ExistsBijection(1..n, S)  BY <1>1, Consts, FS_Subset, FS_CardinalityType
<1>3. PICK f : f \in Bijection(1..n, S)  BY <1>2 DEF ExistsBijection
<1>4. f \in Seqs(S)  BY <1>3 DEF Bijection, Surjection, Injection, Seqs
<1>5. s \in Seqs(S)  BY <1>4
<1>6. s \in [1..n -> S] /\ \A x \in S : \E i \in 1..n : s[i] = x  BY <1>5 DEF Seqs
<1>7. LogoutLines(a) = out  BY <1>6 DEF LogoutLines
<1>8. \A i \in 1..n : LoginLine(s[i], None) \in IrcLine
  <2>1. \A i \in 1..n : s[i] \in Conn  BY <1>1, <1>6
  <2>2. None \in Anyone  BY DEF Anyone
  <2> QED  BY <2>1, <2>2, IrcLines
<1>9. \A i \in 1..n : out[i].k = "SVSLOGIN" /\ out[i].c = s[i] /\ out[i].acct = None  BY DEF LoginLine
<1>10. out \in [1..n -> IrcLine]  BY <1>8
<1> HIDE DEF out, s, n, S
<1>11. out \in Seq(IrcLine) /\ Len(out) = n  BY <1>2, <1>10
<1>12. \A P : Deserved(out, P)  BY <1>9, <1>11 DEF Deserved
<1>13. \A c \in S : Orders(out, c, None)  BY <1>6, <1>9, <1>11 DEF Orders
<1> QED  BY <1>7, <1>11, <1>12, <1>13 DEF S

LEMMA NsChanged ==
    ASSUME Inv, UNCHANGED <<play, conn, up, watch, slot>>, NEW out \in Seq(IrcLine), up,
           Out(out), NsRead, proved \subseteq proved', Deserved(out, proved'), store' \in Stores,
           view' \in [Conn -> Seen \cup {None}], Picture(view') = Picture(view),
           \A c \in Conn : view[c] # None /\ view'[c].acct # view[c].acct => Orders(out, c, view'[c].acct)
    PROVE  Inv'
<1>1. Sound(slot', proved')  BY SlotsSound
<1>2. SlotsTyped' /\ \A i \in 1..Len(slot') : slot'[i].step = 2 => <<slot'[i].c, slot'[i].acct[1]>> \in proved'
  BY <1>1 DEF SlotsTyped, Sound
<1>3. NsTyped'  BY DEF NsTyped, Stores
<1>4. QuietNs(out)  BY <1>2, <1>3 DEF QuietNs, Out, Deserved
<1> QED  BY <1>4, QuietNsInv

LEMMA LoginInv ==
    ASSUME Inv, UNCHANGED <<play, conn, up, watch, slot>>, Heard("PRIVMSG"), Sender # {}, NEW a \in Anyone,
           view' = LoggedIn(view, Me, a), Out(<<LoginLine(Me, a)>>), store' \in Stores,
           proved \subseteq proved', a # None => <<Me, a>> \in proved'
    PROVE  Inv'
<1> DEFINE l == LoginLine(Me, a)
<1>1. up /\ NsRead /\ Me \in Conn /\ view[Me] # None  BY AskedForm
<1>2. l \in IrcLine /\ l.k = "SVSLOGIN" /\ l.c = Me /\ l.acct = a  BY <1>1, IrcLines DEF LoginLine
<1>3. view \in [Conn -> Seen \cup {None}]  BY DEF Inv, NsTyped
<1>4. /\ view' \in [Conn -> Seen \cup {None}] /\ Picture(view') = Picture(view)
      /\ view'[Me].acct = a /\ \A d \in Conn \ {Me} : view'[d] = view[d]
  BY <1>1, <1>3, LoggedInForm
<1>5. Out(<<l>>)  OBVIOUS
<1> HIDE DEF l
<1>6. <<l>> \in Seq(IrcLine) /\ Deserved(<<l>>, proved')  BY <1>2, OneLine DEF Deserved
<1>7. Orders(<<l>>, Me, a)
  <2>1. 1 \in 1..Len(<<l>>) /\ <<l>>[1] = l  OBVIOUS
  <2> QED  BY <1>2, <2>1 DEF Orders
<1>8. \A c \in Conn : view[c] # None /\ view'[c].acct # view[c].acct => Orders(<<l>>, c, view'[c].acct)  BY <1>4, <1>7
<1> QED  BY <1>1, <1>4, <1>5, <1>6, <1>8, NsChanged

LEMMA LogoutInv ==
    ASSUME Inv, UNCHANGED <<play, conn, up, watch, slot, proved>>, Heard("PRIVMSG"), NEW a,
           view' = LogoutAll(a), Out(LogoutLines(a)), store' \in Stores
    PROVE  Inv'
<1>1. up /\ NsRead  BY HeardForm DEF Feeds
<1>2. view \in [Conn -> Seen \cup {None}]  BY DEF Inv, NsTyped
<1>3. /\ view' \in [Conn -> Seen \cup {None}] /\ Picture(view') = Picture(view)
      /\ \A c \in Conn : c \in On(view, a) => view'[c].acct = None
      /\ \A c \in Conn : c \notin On(view, a) => view'[c] = view[c]
  BY <1>2, LogoutForm
<1>4. /\ LogoutLines(a) \in Seq(IrcLine) /\ Deserved(LogoutLines(a), proved')
      /\ \A c \in On(view, a) : Orders(LogoutLines(a), c, None)
  BY LogoutLinesForm
<1>5. \A c \in Conn : view[c] # None /\ view'[c].acct # view[c].acct => Orders(LogoutLines(a), c, view'[c].acct)  BY <1>3, <1>4
<1> QED  BY <1>1, <1>3, <1>4, <1>5, NsChanged

LEMMA ResetPassInv ==
    ASSUME Inv, UNCHANGED play, NsResetPass
    PROVE  Inv'
<1> DEFINE a == OwnerOf(Cmd.arg)
           v == LogoutAll(a)
           in == v[Me].acct = None /\ ~Suspended(a)
           l == LoginLine(Me, a)
           q == LogoutLines(a)
<1>1. Told("RESETPASS") /\ UNCHANGED slot  BY DEF NsResetPass, Keep
<1>2. Heard("PRIVMSG") /\ Sender # {} /\ UNCHANGED <<conn, up, watch>> /\ a \in Nick /\ store[a] \in Account  BY <1>1, ValidForm
<1>3. up /\ NsRead /\ Cmd.new \in Password /\ Me \in Conn /\ Me = Cmd.c /\ view[Me] # None /\ a \in Anyone /\ a # None
  BY <1>2, AskedForm, Consts DEF Anyone
<1>4. view \in [Conn -> Seen \cup {None}] /\ store \in Stores  BY DEF Inv, NsTyped, Stores
<1>5. store' \in Stores
  <2>1. store' = Rekeyed(a, Cmd.new)  BY DEF NsResetPass
  <2> QED  BY <1>2, <1>3, <1>4, <2>1, Edits
<1>6. view' = (IF in THEN LoggedIn(v, Me, a) ELSE v) /\ Out(q \o IF in THEN <<l>> ELSE << >>) /\ Proves(Cmd.c, IF in THEN a ELSE None)
  BY DEF NsResetPass
<1>7. /\ v \in [Conn -> Seen \cup {None}] /\ Picture(v) = Picture(view)
      /\ \A c \in Conn : c \in On(view, a) => v[c].acct = None
      /\ \A c \in Conn : c \notin On(view, a) => v[c] = view[c]
  BY <1>4, LogoutForm
<1>8. q \in Seq(IrcLine) /\ (\A P : Deserved(q, P)) /\ \A c \in On(view, a) : Orders(q, c, None)  BY LogoutLinesForm
<1>9. l \in IrcLine /\ l.k = "SVSLOGIN" /\ l.c = Me /\ l.acct = a  BY <1>3, IrcLines DEF LoginLine
<1> HIDE DEF l, q, v, a
<1>10. CASE ~in
  <2>1. view' = v /\ proved' = proved  BY <1>6, <1>10 DEF Proves
  <2>2. Out(q)
    <3>1. q \o << >> = q  BY <1>8
    <3> QED  BY <1>6, <1>10, <3>1
  <2>3. \A c \in Conn : view[c] # None /\ view'[c].acct # view[c].acct => Orders(q, c, view'[c].acct)  BY <1>7, <1>8, <2>1
  <2> QED  BY <1>1, <1>2, <1>3, <1>5, <1>7, <1>8, <2>1, <2>2, <2>3, NsChanged
<1>11. CASE in
  <2> DEFINE out == q \o <<l>>
  <2>1. view' = LoggedIn(v, Me, a) /\ Out(out) /\ Proves(Me, a)  BY <1>3, <1>6, <1>11
  <2>2. proved \subseteq proved' /\ <<Me, a>> \in proved'  BY <1>3, <2>1, Proven
  <2>3. v[Me] # None
    <3>1. (v[Me] = None <=> Picture(v)[Me] = None) /\ (view[Me] = None <=> Picture(view)[Me] = None)
      BY <1>3, <1>4, <1>7, SeenForm
    <3> QED  BY <1>3, <1>7, <3>1
  <2>4. /\ view' \in [Conn -> Seen \cup {None}] /\ Picture(view') = Picture(view)
        /\ view'[Me].acct = a /\ \A d \in Conn \ {Me} : view'[d] = v[d]
    <3>1. /\ LoggedIn(v, Me, a) \in [Conn -> Seen \cup {None}] /\ Picture(LoggedIn(v, Me, a)) = Picture(v)
          /\ LoggedIn(v, Me, a)[Me].acct = a /\ \A d \in Conn \ {Me} : LoggedIn(v, Me, a)[d] = v[d]
      BY <1>3, <1>7, <2>3, LoggedInForm
    <3> QED  BY <1>7, <2>1, <3>1
  <2>5. <<l>> \in Seq(IrcLine) /\ Len(<<l>>) = 1 /\ 1 \in 1..Len(<<l>>) /\ <<l>>[1] = l /\ \A i \in 1..Len(<<l>>) : <<l>>[i] = l
    BY <1>9, OneLine
  <2>6. out \in Seq(IrcLine)  BY <1>8, <2>5, QueueJoined
  <2>7. \A i \in 1..Len(q) : i \in 1..Len(out) /\ out[i] = q[i]  BY <1>8, <2>5, QueueJoined
  <2>8. \A i \in 1..Len(<<l>>) : i + Len(q) \in 1..Len(out) /\ out[i + Len(q)] = <<l>>[i]  BY <1>8, <2>5, QueueJoined
  <2>9. \A i \in 1..Len(out) : \/ i \in 1..Len(q) /\ out[i] = q[i]
                               \/ i - Len(q) \in 1..Len(<<l>>) /\ out[i] = <<l>>[i - Len(q)]
    BY <1>8, <2>5, QueueJoined
  <2> HIDE DEF out
  <2>10. Deserved(out, proved')
    <3>1. ASSUME NEW i \in 1..Len(out), out[i].k = "SVSLOGIN", out[i].acct # None  PROVE <<out[i].c, out[i].acct>> \in proved'
      <4>1. CASE i \in 1..Len(q) /\ out[i] = q[i]
        <5>1. Deserved(q, proved')  BY <1>8
        <5> QED  BY <3>1, <4>1, <5>1 DEF Deserved
      <4>2. CASE i - Len(q) \in 1..Len(<<l>>) /\ out[i] = <<l>>[i - Len(q)]  BY <1>9, <2>2, <2>5, <4>2
      <4> QED  BY <2>9, <4>1, <4>2
    <3> QED  BY <3>1 DEF Deserved
  <2>11. Orders(out, Me, a)
    <3>1. 1 + Len(q) \in 1..Len(out) /\ out[1 + Len(q)] = l  BY <2>5, <2>8
    <3> QED  BY <1>9, <3>1 DEF Orders
  <2>12. \A c \in On(view, a) : Orders(out, c, None)  BY <1>8, <2>7 DEF Orders
  <2>13. \A c \in Conn : view[c] # None /\ view'[c].acct # view[c].acct => Orders(out, c, view'[c].acct)
    BY <1>7, <2>4, <2>11, <2>12
  <2> QED  BY <1>1, <1>2, <1>3, <1>5, <2>1, <2>2, <2>4, <2>6, <2>10, <2>13, NsChanged
<1> QED  BY <1>10, <1>11

LEMMA LoginsInv ==
    ASSUME Inv, UNCHANGED play, NsCmdRegister \/ NsIdentify \/ NsLogout \/ NsDrop \/ NsSuspend \/ NsEnforce
    PROVE  Inv'
<1>1. store \in Stores /\ view \in [Conn -> Seen \cup {None}] /\ toIrc \in Seq(IrcLine)  BY DEF Inv, NsTyped, Stores, LinkTyped
<1>2. None \in Anyone /\ \A n \in Nick : n \in Anyone /\ n # None  BY Consts DEF Anyone
<1>3. CASE NsCmdRegister
  <2> DEFINE n == view[Me].nick
  <2>1. /\ Told("REGISTER") /\ UNCHANGED slot /\ store' = [store EXCEPT ![n] = Fresh(Cmd.pw)]
        /\ view' = LoggedIn(view, Me, n) /\ Out(<<LoginLine(Me, n)>>) /\ Proves(Cmd.c, n)
    BY <1>3 DEF NsCmdRegister
  <2>2. Heard("PRIVMSG") /\ Sender # {} /\ UNCHANGED <<conn, up, watch>> /\ n \in Nick /\ Cmd.pw \in Password /\ Me = Cmd.c
    BY <2>1, ValidForm, AskedForm
  <2>3. store' \in Stores
    <3>1. Fresh(Cmd.pw) \in Account  BY <2>2, FreshForm
    <3> QED  BY <1>1, <2>1, <2>2, <3>1 DEF Stores
  <2>4. proved \subseteq proved' /\ <<Me, n>> \in proved'  BY <1>2, <2>1, <2>2, Proven
  <2> HIDE DEF n
  <2> QED  BY <1>2, <2>1, <2>2, <2>3, <2>4, LoginInv
<1>4. CASE NsIdentify
  <2>1. /\ Told("IDENTIFY") /\ UNCHANGED <<slot, store>>
        /\ view' = LoggedIn(view, Me, CheckedHere) /\ Out(<<LoginLine(Me, CheckedHere)>>) /\ Proves(Cmd.c, CheckedHere)
    BY <1>4 DEF NsIdentify, Keep
  <2>2. Heard("PRIVMSG") /\ Sender # {} /\ UNCHANGED <<conn, up, watch>> /\ CheckedHere \in Nick /\ Me = Cmd.c
    BY <2>1, ValidForm, AskedForm
  <2>3. proved \subseteq proved' /\ <<Me, CheckedHere>> \in proved'  BY <1>2, <2>1, <2>2, Proven
  <2> QED  BY <1>1, <1>2, <2>1, <2>2, <2>3, LoginInv
<1>5. CASE NsLogout
  <2>1. /\ Told("LOGOUT") /\ UNCHANGED <<slot, store, proved>>
        /\ view' = LoggedIn(view, Me, None) /\ Out(<<LoginLine(Me, None)>>)
    BY <1>5 DEF NsLogout, Keep, ghosts
  <2>2. Heard("PRIVMSG") /\ Sender # {} /\ UNCHANGED <<conn, up, watch>>  BY <2>1, ValidForm
  <2> QED  BY <1>1, <1>2, <2>1, <2>2, LoginInv
<1>6. CASE NsDrop
  <2>1. ASSUME NEW k, NEW a \in Nick, Told(k), LoggedOut(a), store' = [store EXCEPT ![a] = None]  PROVE Inv'
    <3>1. Heard("PRIVMSG") /\ UNCHANGED <<conn, up, watch>>  BY <2>1, ValidForm
    <3>2. store' \in Stores  BY <1>1, <2>1 DEF Stores
    <3>3. view' = LogoutAll(a) /\ Out(LogoutLines(a)) /\ UNCHANGED <<slot, proved>>  BY <2>1 DEF LoggedOut, Keep, ghosts
    <3> QED  BY <3>1, <3>2, <3>3, LogoutInv
  <2>2. CASE Told("DROP") /\ LoggedOut(OwnerOf(Mine)) /\ store' = [store EXCEPT ![OwnerOf(Mine)] = None]
    <3>1. OwnerOf(Mine) \in Nick  BY <2>2, ValidForm
    <3> QED  BY <2>1, <2>2, <3>1
  <2>3. CASE Told("FDROP") /\ LoggedOut(OwnerOf(Cmd.arg)) /\ store' = [store EXCEPT ![OwnerOf(Cmd.arg)] = None]
    <3>1. OwnerOf(Cmd.arg) \in Nick  BY <2>3, ValidForm
    <3> QED  BY <2>1, <2>3, <3>1
  <2> QED  BY <1>6, <2>2, <2>3 DEF NsDrop
<1>7. CASE NsSuspend
  <2> DEFINE a == OwnerOf(Cmd.arg)
  <2>1. Told("SUSPEND") /\ LoggedOut(a) /\ store' = [store EXCEPT ![a].suspended = TRUE]  BY <1>7 DEF NsSuspend
  <2>2. Heard("PRIVMSG") /\ UNCHANGED <<conn, up, watch>> /\ a \in Nick /\ store[a] \in Account  BY <2>1, ValidForm
  <2> HIDE DEF a
  <2>3. store' \in Stores  BY <1>1, <2>1, <2>2, Edits
  <2>4. view' = LogoutAll(a) /\ Out(LogoutLines(a)) /\ UNCHANGED <<slot, proved>>  BY <2>1 DEF LoggedOut, Keep, ghosts
  <2> QED  BY <2>2, <2>3, <2>4, LogoutInv
<1>8. CASE NsEnforce
  <2>1. PICK c \in Conn : /\ view[c] # None /\ view[c].due # None
                          /\ view' = [view EXCEPT ![c].due = None] /\ Out(<<Rename(c, GuestNick)>>)
    BY <1>8 DEF NsEnforce
  <2>2. up /\ UNCHANGED <<conn, up, watch, toNs, slot, store, proved>>  BY <1>8 DEF NsEnforce, hub, ghosts
  <2> DEFINE m == Rename(c, GuestNick)
             u == [view[c] EXCEPT !.due = None]
  <2>3. m \in IrcLine /\ m.k = "SVSNICK"  BY GuestForm, IrcLines DEF Rename
  <2>4. u \in Seen /\ u.nick = view[c].nick /\ u.acct = view[c].acct  BY <1>1, <2>1 DEF Seen
  <2>5. view' = [view EXCEPT ![c] = u] /\ Out(<<m>>)  BY <1>1, <2>1
  <2> HIDE DEF m, u
  <2>6. view' \in [Conn -> Seen \cup {None}] /\ view'[c] = u /\ \A d \in Conn \ {c} : view'[d] = view[d]  BY <1>1, <2>4, <2>5
  <2>7. Picture(view') = Picture(view)
    <3>1. u # None  BY <2>4, Consts
    <3> QED  BY <2>1, <2>4, <2>6, <3>1 DEF Picture
  <2>8. \A d \in Conn : view'[d].acct = view[d].acct  BY <2>4, <2>6
  <2>9. <<m>> \in Seq(IrcLine) /\ Deserved(<<m>>, proved')  BY <2>3, OneLine DEF Deserved
  <2>10. NsRead  BY <2>2 DEF NsRead
  <2> QED  BY <1>1, <2>2, <2>5, <2>6, <2>7, <2>8, <2>9, <2>10, NsChanged
<1> QED  BY <1>3, <1>4, <1>5, <1>6, <1>7, <1>8

(***************************************************************************)
(* The link, and everything together.                                      *)
(***************************************************************************)
LEMMA StutterInv ==
    ASSUME Inv, UNCHANGED <<play, conn, up, watch, toNs, toIrc, store, view, slot, proved>>
    PROVE  Inv'
<1> USE DEF Inv
<1>1. play' \in Plays /\ HubTyped' /\ LinkTyped' /\ NsTyped' /\ SlotsTyped'  BY DEF HubTyped, LinkTyped, NsTyped, SlotsTyped
<1>2. Earning' /\ Named' /\ Gone' /\ NicksApart' /\ Accounts'  BY DEF Earning, Named, Gone, NicksApart, Here, Accounts
<1> QED  BY <1>1, <1>2

LEMMA LinkInv ==
    ASSUME Inv, UNCHANGED play, LoseLink \/ LinkUp
    PROVE  Inv'
<1> USE DEF Inv
<1>1. CASE LoseLink
  <2>1. UNCHANGED <<conn, store, view, slot, proved>> /\ up' = FALSE /\ watch' = FALSE /\ toNs' = << >> /\ toIrc' = << >>
    BY <1>1 DEF LoseLink, ns, ghosts
  <2>2. Len(<< >>) = 0 /\ 1..Len(<< >>) = {} /\ << >> \in Seq(NsLine) /\ << >> \in Seq(IrcLine)  BY OneLine
  <2>3. play' \in Plays /\ HubTyped' /\ NsTyped' /\ SlotsTyped' /\ NicksApart'
    BY <2>1 DEF HubTyped, NsTyped, SlotsTyped, NicksApart, Here
  <2>4. LinkTyped'  BY <2>1, <2>2 DEF LinkTyped
  <2>5. Earning'  BY <2>1, <2>2 DEF Earning
  <2>6. Named' /\ Accounts'  BY <2>1 DEF Named, Accounts
  <2>7. Gone'  BY <2>1, <2>2 DEF Gone
  <2> QED  BY <2>3, <2>4, <2>5, <2>6, <2>7
<1>2. CASE LinkUp
  <2> DEFINE m == [k |-> "SVCWATCH"]
  <2>1. /\ ~up /\ up' = TRUE /\ view' = [c \in Conn |-> None] /\ slot' = << >>
        /\ toIrc' = toIrc \o <<m>> /\ UNCHANGED <<conn, watch, toNs, store, proved>>
    BY <1>2 DEF LinkUp, Out
  <2>2. ~watch /\ toNs = << >> /\ toIrc = << >>  BY <2>1 DEF LinkTyped
  <2>3. m \in IrcLine /\ m.k = "SVCWATCH"  BY DEF IrcLine
  <2> HIDE DEF m
  <2>4. toIrc' = <<m>> /\ <<m>> \in Seq(IrcLine) /\ \A i \in 1..Len(<<m>>) : <<m>>[i] = m
    <3>1. <<m>> \in Seq(IrcLine)  BY <2>3, OneLine
    <3>2. << >> \o <<m>> = <<m>>  BY <3>1
    <3>3. \A i \in 1..Len(<<m>>) : <<m>>[i] = m  BY <2>3, OneLine
    <3> QED  BY <2>1, <2>2, <3>1, <3>2, <3>3
  <2>5. Len(<< >>) = 0 /\ 1..Len(<< >>) = {} /\ << >> \in Seq(NsLine) /\ << >> \in Seq(Exchange)  BY OneLine
  <2>6. play' \in Plays /\ HubTyped' /\ NicksApart'  BY <2>1 DEF HubTyped, NicksApart, Here
  <2>7. LinkTyped'  BY <2>1, <2>2, <2>4, <2>5 DEF LinkTyped
  <2>8. NsTyped'  BY <2>1 DEF NsTyped
  <2>9. SlotsTyped'
    <3>1. 0 <= SlotMax  BY Consts
    <3> QED  BY <2>1, <2>5, <3>1 DEF SlotsTyped
  <2>10. Earning'  BY <2>1, <2>3, <2>4, <2>5 DEF Earning
  <2>11. Named'
    <3>1. AtHub(conn', watch') = Nobody  BY <2>1, <2>2 DEF AtHub
    <3>2. Picture(view') = Nobody  BY <2>1 DEF Picture, Nobody
    <3>3. Nobody \in Pictures  BY DEF Nobody, Pictures, Anyone
    <3>4. Leads(Nobody, << >>, Nobody)  BY <3>3, LeadsNowhere
    <3> QED  BY <2>1, <2>2, <3>1, <3>2, <3>4 DEF Named
  <2>12. Gone' /\ Accounts'  BY <2>1, <2>2, <2>5 DEF Gone, Accounts
  <2> QED  BY <2>6, <2>7, <2>8, <2>9, <2>10, <2>11, <2>12
<1> QED  BY <1>1, <1>2

LEMMA TimersInv ==
    ASSUME Inv, UNCHANGED play, Timers
    PROVE  Inv'
<1>1. ASSUME NEW c \in Conn, SaslTimeout(c)  PROVE Inv'
  <2>1. c \in Here /\ Put(c, SaslFinish(c, FALSE)) /\ IrcRead /\ SameNs
    BY <1>1 DEF SaslTimeout, IrcRead, SameNs, ns, ghosts
  <2> QED  BY <2>1, FinishInv
<1>2. ASSUME NEW c \in Conn, Rescue(c)  PROVE Inv'
  <2> DEFINE k == [conn[c] EXCEPT !.held = FALSE]
  <2>1. conn \in [Conn -> KConn] /\ conn[c] \in KConn /\ toNs \in Seq(NsLine)  BY DEF Inv, HubTyped, LinkTyped
  <2>2. k \in KConn /\ k.st = conn[c].st /\ k.nick = conn[c].nick /\ k.acct = conn[c].acct  BY <2>1 DEF KConn
  <2>3. conn' = [conn EXCEPT ![c] = k] /\ toNs' = toNs \o << >> /\ IrcRead /\ SameNs
    BY <1>2, <2>1 DEF Rescue, IrcRead, SameNs, ns, ghosts
  <2>4. << >> \in Seq(NsLine) /\ 1..Len(<< >>) = {}  BY OneLine
  <2> HIDE DEF k
  <2> QED  BY <2>2, <2>3, <2>4, HubPlain
<1>3. CASE NsAbandon  BY <1>3, SaslInv
<1>4. CASE NsEnforce  BY <1>4, LoginsInv
<1>5. CASE Calm
  <2>1. UNCHANGED <<conn, up, watch, toNs, toIrc, store, view, slot, proved>>  BY <1>5 DEF Calm, ghosts
  <2> QED  BY <2>1, StutterInv
<1> QED  BY <1>1, <1>2, <1>3, <1>4, <1>5 DEF Timers

LEMMA NsStepInv ==
    ASSUME Inv, UNCHANGED play, NsStep
    PROVE  Inv'
<1>1. CASE NsUser \/ NsNick \/ NsQuit \/ NsAccount  BY <1>1, FeedsInv
<1>2. CASE NsStart \/ NsAbort \/ NsUnknown \/ NsPlain \/ NsScramFirst \/ NsScramFinal \/ NsScramAck \/ NsExternal
  BY <1>2, SaslInv
<1>3. CASE NsRegister \/ NsGhost \/ NsRegain  BY <1>3, OrderInv
<1>4. CASE NsRefuse \/ NsSetPassword \/ NsResetMail \/ NsSetEmail \/ NsVerify \/ NsCert \/ NsGroup \/ NsUngroup
           \/ NsUnsuspend \/ NsSaset
  BY <1>4, StoreOnlyInv
<1>5. CASE NsResetPass  BY <1>5, ResetPassInv
<1>6. CASE NsCmdRegister \/ NsIdentify \/ NsLogout \/ NsDrop \/ NsSuspend  BY <1>6, LoginsInv
<1> QED  BY <1>1, <1>2, <1>3, <1>4, <1>5, <1>6 DEF NsStep

LEMMA Step == Inv /\ [Next]_vars => Inv'
<1> SUFFICES ASSUME Inv, [Next]_vars  PROVE Inv'  OBVIOUS
<1>1. CASE Next
  <2>1. UNCHANGED play  BY <1>1 DEF Next
  <2>2. CASE ByUsers  BY <2>1, <2>2, ByUsersInv
  <2>3. CASE HubStep  BY <2>1, <2>3, HubStepInv
  <2>4. CASE NsStep  BY <2>1, <2>4, NsStepInv
  <2>5. CASE Timers  BY <2>1, <2>5, TimersInv
  <2>6. CASE LoseLink \/ LinkUp  BY <2>1, <2>6, LinkInv
  <2> QED  BY <1>1, <2>2, <2>3, <2>4, <2>5, <2>6 DEF Next
<1>2. CASE UNCHANGED vars
  <2>1. UNCHANGED <<play, conn, up, watch, toNs, toIrc, store, view, slot, proved>>  BY <1>2 DEF vars, hub, ns, ghosts
  <2> QED  BY <2>1, StutterInv
<1> QED  BY <1>1, <1>2

LEMMA Start == Init => Inv
<1> SUFFICES ASSUME Init  PROVE Inv  OBVIOUS
<1> DEFINE K(c, q) == [st |-> play.start[c], nick |-> IF play.start[c] = "none" THEN None ELSE FirstNick[c],
                       acct |-> play.acct[c], mech |-> None, style |-> "legacy", held |-> FALSE, pass |-> q,
                       ready |-> play.start[c] = "user", regs |-> 0]
<1>1. play \in Plays  BY DEF Init
<1>2. /\ play.start \in [Conn -> {"none", "open", "user"}] /\ play.acct \in [Conn -> Anyone]
      /\ play.store \in [Nick -> Account \cup {None}] /\ \A c \in Conn : play.pass[c] \subseteq Data
      /\ \A c \in Conn : play.acct[c] # None => play.start[c] = "user"
      /\ \A c, d \in Conn : play.start[c] # "none" /\ play.start[d] # "none" /\ FirstNick[c] = FirstNick[d] => c = d
  BY <1>1, PlayForm
<1>3. PICK p \in [Conn -> {None} \cup UNION {play.pass[c] : c \in Conn}] : conn = [c \in Conn |-> K(c, p[c])]
  BY DEF Init
<1>4. /\ up = TRUE /\ watch = TRUE /\ toNs = << >> /\ toIrc = << >> /\ store = play.store /\ slot = << >>
      /\ proved = {<<c, play.acct[c]>> : c \in Conn}
      /\ view = [c \in Conn |-> IF play.start[c] = "user"
                                THEN [nick |-> FirstNick[c], acct |-> play.acct[c], due |-> Due(FirstNick[c], play.acct[c])]
                                ELSE None]
  BY DEF Init
<1>5. Len(<< >>) = 0 /\ 1..Len(<< >>) = {} /\ << >> \in Seq(NsLine) /\ << >> \in Seq(IrcLine) /\ << >> \in Seq(Exchange)  BY OneLine
<1>6. \A c \in Conn : FirstNick[c] \in Nick /\ FirstNick[c] # None  BY Consts
<1>7. ASSUME NEW c \in Conn
      PROVE  /\ conn[c] \in KConn /\ conn[c].st = play.start[c] /\ conn[c].acct = play.acct[c]
             /\ (play.start[c] # "none" => conn[c].nick = FirstNick[c])
  <2>1. p[c] \in Data \cup {None}
    <3> DEFINE U == UNION {play.pass[d] : d \in Conn}
    <3>1. p \in [Conn -> {None} \cup U]  BY <1>3
    <3>2. U \subseteq Data  BY <1>2
    <3> HIDE DEF U
    <3>3. p[c] \in {None} \cup U  BY <3>1
    <3> QED  BY <3>2, <3>3
  <2>2. (IF play.start[c] = "none" THEN None ELSE FirstNick[c]) \in Anyone /\ play.acct[c] \in Anyone  BY <1>2, <1>6 DEF Anyone
  <2>3. play.start[c] \in {"none", "open", "user", "gone"}  BY <1>2
  <2>4. (play.start[c] = "user") \in BOOLEAN /\ 0 \in Nat  OBVIOUS
  <2>5. conn[c] = K(c, p[c])  BY <1>3
  <2>6. K(c, p[c]) \in KConn  BY <2>1, <2>2, <2>3, <2>4 DEF KConn
  <2>7. /\ K(c, p[c]).st = play.start[c] /\ K(c, p[c]).acct = play.acct[c]
        /\ (play.start[c] # "none" => K(c, p[c]).nick = FirstNick[c])
    OBVIOUS
  <2> HIDE DEF K
  <2> QED  BY <2>5, <2>6, <2>7
<1>8. conn \in [Conn -> KConn]
  <2> HIDE DEF K
  <2> QED  BY <1>3, <1>7
<1> HIDE DEF K
<1>9. HubTyped  BY <1>6, <1>7, <1>8 DEF HubTyped
<1>10. LinkTyped  BY <1>4, <1>5 DEF LinkTyped
<1>11. ASSUME NEW c \in Conn
       PROVE  /\ play.start[c] = "user" => view[c] \in Seen /\ view[c].nick = FirstNick[c] /\ view[c].acct = play.acct[c]
              /\ play.start[c] # "user" => view[c] = None
  <2>1. Due(FirstNick[c], play.acct[c]) \in Anyone  BY <1>2, <1>4, <1>6, DueForm
  <2> QED  BY <1>2, <1>4, <1>6, <2>1 DEF Seen, Anyone
<1>12. view \in [Conn -> Seen \cup {None}]  BY <1>4, <1>11
<1>13. NsTyped  BY <1>2, <1>4, <1>12 DEF NsTyped
<1>14. SlotsTyped
  <2>1. 0 <= SlotMax  BY Consts
  <2> QED  BY <1>4, <1>5, <2>1 DEF SlotsTyped
<1>15. Earning  BY <1>4, <1>5, <1>7 DEF Earning
<1>16. NicksApart
  <2>1. ASSUME NEW c \in Here, NEW d \in Here, conn[c].nick = conn[d].nick  PROVE c = d
    <3>1. c \in Conn /\ d \in Conn /\ conn[c].st # "none" /\ conn[d].st # "none"  BY DEF Here
    <3> QED  BY <1>2, <1>7, <2>1, <3>1
  <2> QED  BY <2>1 DEF NicksApart
<1>17. Named
  <2>1. \A c \in Conn : (IF view[c] = None THEN None ELSE view[c].nick) = (IF conn[c].st = "user" THEN conn[c].nick ELSE None)
    BY <1>7, <1>11, Consts
  <2>2. Picture(view) = AtHub(conn, watch)  BY <1>4, <2>1 DEF Picture, AtHub
  <2>3. Picture(view) \in Pictures  BY <1>12, SeenForm
  <2> QED  BY <1>4, <2>2, <2>3, LeadsNowhere DEF Named
<1>18. Gone  BY <1>4, <1>5 DEF Gone
<1>19. Accounts
  <2>1. ASSUME NEW c \in Conn, conn[c].st = "user"  PROVE view[c] # None /\ Right(view, toNs, c, conn[c].acct)
    <3>1. view[c] # None /\ view[c].acct = conn[c].acct  BY <1>7, <1>11, <2>1, Consts
    <3> QED  BY <1>4, <1>5, <3>1 DEF Right
  <2> QED  BY <2>1 DEF Accounts
<1> QED  BY <1>1, <1>9, <1>10, <1>13, <1>14, <1>15, <1>16, <1>17, <1>18, <1>19 DEF Inv

LEMMA Always == Spec => []Inv
  BY Start, Step, PTL DEF Spec

\* Whoever is logged in has shown, on that very connection, that the account is his: no
\* answer of an exchange that was aborted, timed out or whose slot changed hands, and no
\* command of somebody whose nick has moved on, logs in anybody else (sasl_done, ns_privmsg).
THEOREM EarnedHolds == Spec => []Earned
<1>1. Inv => Earned  BY DEF Inv, Earning, Earned, Here
<1> QED  BY Always, <1>1, PTL

\* The hub has no two users of one nick, the exchanges fit the slots, and once nothing is
\* on the link NickServ's picture is the hub's, although login writes it ahead and a
\* link that breaks throws lines away (ns_event, ns_session_start, svc_command).
THEOREM PicturesAgreeHolds == Spec => []PicturesAgree
<1>1. Inv => TypeOK
  <2> SUFFICES ASSUME Inv  PROVE TypeOK  OBVIOUS
  <2>1. ASSUME NEW c \in Conn
        PROVE  /\ conn[c].st \in {"none", "open", "user", "gone"} /\ conn[c].acct \in Nick \cup {None}
               /\ view[c] = None \/ view[c].nick \in Nick
    <3>1. conn[c] \in KConn /\ view[c] \in Seen \cup {None}  BY DEF Inv, HubTyped, NsTyped
    <3> QED  BY <3>1 DEF KConn, Anyone, Seen
  <2>2. store \in [Nick -> Account \cup {None}]  BY DEF Inv, NsTyped
  <2>3. Len(slot) <= SlotMax /\ \A i, j \in DOMAIN slot : slot[i].c = slot[j].c => i = j  BY DEF Inv, SlotsTyped
  <2>4. ~up => toNs = << >> /\ toIrc = << >>  BY DEF Inv, LinkTyped
  <2> QED  BY <2>1, <2>2, <2>3, <2>4 DEF TypeOK
<1>2. Inv => ViewAgrees
  <2> SUFFICES ASSUME Inv, Quiet, NEW c \in Conn
               PROVE  IF c \in Users THEN view[c] # None /\ view[c].nick = conn[c].nick /\ view[c].acct = conn[c].acct
                      ELSE view[c] = None
    BY DEF ViewAgrees
  <2>1. up /\ watch /\ toNs = << >> /\ toIrc = << >>  BY DEF Quiet
  <2>2. Len(<< >>) = 0 /\ 1..Len(<< >>) = {} /\ << >> \in Seq(NsLine)  BY OneLine
  <2>3. Picture(view) = AtHub(conn, watch)  BY <2>1, <2>2, LeadsEnds DEF Inv, Named
  <2>4. Picture(view)[c] = IF conn[c].st = "user" THEN conn[c].nick ELSE None  BY <2>1, <2>3 DEF AtHub
  <2>5. (view[c] = None <=> Picture(view)[c] = None) /\ (view[c] # None => Picture(view)[c] = view[c].nick)
    BY SeenForm DEF Inv, NsTyped
  <2>6. conn[c].st = "user" => conn[c].nick # None  BY Consts DEF Inv, HubTyped
  <2>7. conn[c].st = "user" => view[c].acct = conn[c].acct
    <3>1. conn[c].st = "user" => Right(view, toNs, c, conn[c].acct) \/ Coming(toIrc, c, conn[c].acct)
      BY <2>1 DEF Inv, Accounts
    <3> QED  BY <2>1, <2>2, <3>1 DEF Right, Coming
  <2> QED  BY <2>4, <2>5, <2>6, <2>7 DEF Users
<1>3. Inv => PicturesAgree  BY <1>1, <1>2 DEF Inv, PicturesAgree
<1> QED  BY Always, <1>3, PTL

(***************************************************************************)
(* Whose nick it is.                                                       *)
(***************************************************************************)
\* Nobody but a has a claim to n.
Allowed(s, n, a) == \A b \in Nick : Filed(s, n, b) => b = a

\* By the accounts: an owner is one under whom the nick is filed, and without one there is none.
LEMMA OwnerFiled ==
    ASSUME store \in Stores, NEW n \in Nick
    PROVE  /\ OwnerOf(n) # None => OwnerOf(n) \in Nick /\ Filed(store, n, OwnerOf(n))
           /\ OwnerOf(n) = None => \A b \in Nick : ~Filed(store, n, b)
<1>1. CASE store[n] # None
  <2>1. OwnerOf(n) = n  BY <1>1 DEF OwnerOf
  <2> QED  BY <1>1, <2>1, Consts DEF Filed
<1>2. CASE store[n] = None /\ \E a \in Nick : store[a] # None /\ n \in store[a].nicks
  <2> DEFINE b == CHOOSE a \in Nick : store[a] # None /\ n \in store[a].nicks
  <2>1. b \in Nick /\ store[b] # None /\ n \in store[b].nicks  BY <1>2
  <2>2. OwnerOf(n) = b  BY <1>2 DEF OwnerOf
  <2> HIDE DEF b
  <2> QED  BY <2>1, <2>2, Consts DEF Filed
<1>3. CASE store[n] = None /\ ~\E a \in Nick : store[a] # None /\ n \in store[a].nicks
  <2>1. OwnerOf(n) = None  BY <1>3 DEF OwnerOf
  <2> QED  BY <1>3, <2>1 DEF Filed
<1> QED  BY <1>1, <1>2, <1>3

\* What enforce_check asks of a nick and an account, said of the accounts.
LEMMA AllowedOwner ==
    ASSUME store \in Stores, Lone(store), NEW n \in Nick, NEW a
    PROVE  OwnerOf(n) \in {None, a} <=> Allowed(store, n, a)
<1>1. /\ OwnerOf(n) # None => OwnerOf(n) \in Nick /\ Filed(store, n, OwnerOf(n))
      /\ OwnerOf(n) = None => \A b \in Nick : ~Filed(store, n, b)
  BY OwnerFiled
<1>2. CASE OwnerOf(n) = None  BY <1>1, <1>2 DEF Allowed
<1>3. CASE OwnerOf(n) # None
  <2>1. \A b \in Nick : Filed(store, n, b) => b = OwnerOf(n)  BY <1>1, <1>3 DEF Lone
  <2> QED  BY <1>1, <1>3, <2>1 DEF Allowed
<1> QED  BY <1>2, <1>3

(***************************************************************************)
(* What NickServ is going to look at, and what it has ordered.             *)
(***************************************************************************)
About(m, c) == m.k \in {"SVCUSER", "SVCNICK", "SVCACCOUNT"} /\ m.c = c
Still(q, c) == \A i \in 1..Len(q) : ~About(q[i], c)
\* The last line about him makes NickServ look at his nick.
Asking(q, c) == \E i \in 1..Len(q) : About(q[i], c) /\ q[i].k # "SVCACCOUNT" /\ \A j \in (i + 1)..Len(q) : ~About(q[j], c)
Pushed(q, c) == \E i \in 1..Len(q) : q[i].k = "SVSNICK" /\ q[i].c = c

\* Lines about others change nothing for him.
LEMMA AboutStill ==
    ASSUME NEW q \in Seq(NsLine), NEW s \in Seq(NsLine), NEW c, \A i \in 1..Len(s) : ~About(s[i], c)
    PROVE  (Asking(q, c) => Asking(q \o s, c)) /\ (Still(q, c) => Still(q \o s, c))
<1>1. /\ Len(q) \in Nat /\ Len(s) \in Nat /\ Len(q \o s) = Len(q) + Len(s)
      /\ \A i \in 1..Len(q) : i \in 1..Len(q \o s) /\ (q \o s)[i] = q[i]
      /\ \A i \in 1..Len(q \o s) :
           \/ i \in 1..Len(q) /\ (q \o s)[i] = q[i]
           \/ i - Len(q) \in 1..Len(s) /\ (q \o s)[i] = s[i - Len(q)]
  BY QueueJoined
<1>2. ASSUME Asking(q, c)  PROVE Asking(q \o s, c)
  <2>1. PICK i \in 1..Len(q) : About(q[i], c) /\ q[i].k # "SVCACCOUNT" /\ \A j \in (i + 1)..Len(q) : ~About(q[j], c)
    BY <1>2 DEF Asking
  <2>2. ASSUME NEW j \in (i + 1)..Len(q \o s)  PROVE ~About((q \o s)[j], c)
    <3>1. j \in 1..Len(q \o s) /\ j >= i + 1  BY <1>1
    <3>2. CASE j \in 1..Len(q) /\ (q \o s)[j] = q[j]
      <4>1. j \in (i + 1)..Len(q)  BY <1>1, <3>1, <3>2
      <4> QED  BY <2>1, <3>2, <4>1
    <3>3. CASE j - Len(q) \in 1..Len(s) /\ (q \o s)[j] = s[j - Len(q)]  BY <3>3
    <3> QED  BY <1>1, <3>1, <3>2, <3>3
  <2>3. i \in 1..Len(q \o s) /\ (q \o s)[i] = q[i]  BY <1>1
  <2> QED  BY <2>1, <2>2, <2>3 DEF Asking
<1>3. ASSUME Still(q, c)  PROVE Still(q \o s, c)  BY <1>1, <1>3 DEF Still
<1> QED  BY <1>2, <1>3

\* The one line about him is the last, and NickServ will look.
LEMMA AboutSaid ==
    ASSUME NEW q \in Seq(NsLine), NEW s \in Seq(NsLine), NEW c, NEW i \in 1..Len(s), About(s[i], c), s[i].k # "SVCACCOUNT",
           \A j \in 1..Len(s) : About(s[j], c) => j = i
    PROVE  Asking(q \o s, c)
<1>1. /\ Len(q) \in Nat /\ Len(s) \in Nat /\ Len(q \o s) = Len(q) + Len(s)
      /\ \A j \in 1..Len(s) : j + Len(q) \in 1..Len(q \o s) /\ (q \o s)[j + Len(q)] = s[j]
      /\ \A j \in 1..Len(q \o s) :
           \/ j \in 1..Len(q) /\ (q \o s)[j] = q[j]
           \/ j - Len(q) \in 1..Len(s) /\ (q \o s)[j] = s[j - Len(q)]
  BY QueueJoined
<1> DEFINE n == i + Len(q)
<1>2. n \in 1..Len(q \o s) /\ (q \o s)[n] = s[i]  BY <1>1
<1>3. ASSUME NEW j \in (n + 1)..Len(q \o s)  PROVE ~About((q \o s)[j], c)
  <2>1. j \in 1..Len(q \o s) /\ j > Len(q) /\ j - Len(q) # i  BY <1>1
  <2>2. j - Len(q) \in 1..Len(s) /\ (q \o s)[j] = s[j - Len(q)]  BY <1>1, <2>1
  <2> DEFINE l == j - Len(q)
  <2>3. l \in 1..Len(s) /\ l # i /\ (q \o s)[j] = s[l]  BY <2>1, <2>2
  <2> HIDE DEF l
  <2> QED  BY <2>3
<1> HIDE DEF n
<1> QED  BY <1>2, <1>3 DEF Asking

\* A line is read: what was to come still comes, or it has come.
LEMMA AboutRest ==
    ASSUME NEW q \in Seq(NsLine), q # << >>, NEW c
    PROVE  /\ Still(q, c) => Still(Tail(q), c) /\ ~About(Head(q), c)
           /\ Asking(q, c) => Asking(Tail(q), c) \/ (About(Head(q), c) /\ Head(q).k # "SVCACCOUNT" /\ Still(Tail(q), c))
<1>1. /\ Head(q) = q[1] /\ 1 \in 1..Len(q) /\ Len(q) \in Nat /\ Len(Tail(q)) = Len(q) - 1
      /\ \A i \in 1..Len(Tail(q)) : i + 1 \in 1..Len(q) /\ Tail(q)[i] = q[i + 1]
      /\ \A i \in 1..Len(q) : i = 1 \/ (i - 1 \in 1..Len(Tail(q)) /\ Tail(q)[i - 1] = q[i])
  BY QueueRest
<1>2. ASSUME Still(q, c)  PROVE Still(Tail(q), c) /\ ~About(Head(q), c)  BY <1>1, <1>2 DEF Still
<1>3. ASSUME Asking(q, c)
      PROVE  Asking(Tail(q), c) \/ (About(Head(q), c) /\ Head(q).k # "SVCACCOUNT" /\ Still(Tail(q), c))
  <2>1. PICK i \in 1..Len(q) : About(q[i], c) /\ q[i].k # "SVCACCOUNT" /\ \A j \in (i + 1)..Len(q) : ~About(q[j], c)
    BY <1>3 DEF Asking
  <2>2. ASSUME NEW j \in i..Len(Tail(q)), j >= 1  PROVE ~About(Tail(q)[j], c)
    <3>1. j \in 1..Len(Tail(q)) /\ j + 1 \in (i + 1)..Len(q)  BY <1>1, <2>2
    <3> DEFINE l == j + 1
    <3>2. Tail(q)[j] = q[l] /\ l \in (i + 1)..Len(q)  BY <1>1, <3>1
    <3> HIDE DEF l
    <3> QED  BY <2>1, <3>2
  <2>3. CASE i = 1
    <3>1. \A j \in 1..Len(Tail(q)) : ~About(Tail(q)[j], c)  BY <1>1, <2>2, <2>3
    <3> QED  BY <1>1, <2>1, <2>3, <3>1 DEF Still
  <2>4. CASE i # 1
    <3> DEFINE l == i - 1
    <3>1. l \in 1..Len(Tail(q)) /\ Tail(q)[l] = q[i]  BY <1>1, <2>4
    <3>2. \A j \in (l + 1)..Len(Tail(q)) : ~About(Tail(q)[j], c)
      <4>1. l + 1 = i /\ \A j \in i..Len(Tail(q)) : j >= 1  BY <1>1
      <4> QED  BY <2>2, <4>1
    <3> HIDE DEF l
    <3> QED  BY <2>1, <3>1, <3>2 DEF Asking
  <2> QED  BY <2>3, <2>4
<1> QED  BY <1>2, <1>3

\* An order to d that is not the one carried out still comes.
LEMMA OrdersLeft ==
    ASSUME LinkTyped, toIrc # << >>, toIrc' = Tail(toIrc), NEW d
    PROVE  /\ Head(toIrc).k # "SVSNICK" \/ Head(toIrc).c # d => (Pushed(toIrc, d) => Pushed(toIrc', d))
           /\ \A a : ~(Head(toIrc).k = "SVSLOGIN" /\ Head(toIrc).c = d /\ (Head(toIrc).acct # None \/ a # None))
                     => (Coming(toIrc, d, a) => Coming(toIrc', d, a))
<1>1. /\ Head(toIrc) = toIrc[1]
      /\ \A i \in 1..Len(toIrc) : i = 1 \/ (i - 1 \in 1..Len(toIrc') /\ toIrc'[i - 1] = toIrc[i])
  BY QueueRest DEF LinkTyped
<1>2. ASSUME Head(toIrc).k # "SVSNICK" \/ Head(toIrc).c # d, Pushed(toIrc, d)  PROVE Pushed(toIrc', d)
  <2>1. PICK i \in 1..Len(toIrc) : toIrc[i].k = "SVSNICK" /\ toIrc[i].c = d  BY <1>2 DEF Pushed
  <2>2. i # 1  BY <1>1, <1>2, <2>1
  <2>3. i - 1 \in 1..Len(toIrc') /\ toIrc'[i - 1] = toIrc[i]  BY <1>1, <2>2
  <2> QED  BY <2>1, <2>3 DEF Pushed
<1>3. ASSUME NEW a, ~(Head(toIrc).k = "SVSLOGIN" /\ Head(toIrc).c = d /\ (Head(toIrc).acct # None \/ a # None)), Coming(toIrc, d, a)
      PROVE  Coming(toIrc', d, a)
  <2>1. PICK i \in 1..Len(toIrc) : toIrc[i].k = "SVSLOGIN" /\ toIrc[i].c = d /\ (toIrc[i].acct # None \/ a # None)
    BY <1>3 DEF Coming
  <2>2. i # 1  BY <1>1, <1>3, <2>1
  <2>3. i - 1 \in 1..Len(toIrc') /\ toIrc'[i - 1] = toIrc[i]  BY <1>1, <2>2
  <2> QED  BY <2>1, <2>3 DEF Coming
<1> QED  BY <1>2, <1>3

(***************************************************************************)
(* The invariant of the deadlines.                                         *)
(***************************************************************************)
\* Before NickServ looks, it has ordered something, or a deadline runs.
Watched(c) ==
    \/ Allowed(store, conn[c].nick, conn[c].acct)
    \/ Coming(toIrc, c, conn[c].acct) \/ Pushed(toIrc, c) \/ Asking(toNs, c)
    \/ Still(toNs, c) /\ view[c] # None /\ view[c].due # None
\* Of whom the feed has not told yet NickServ knows nothing.
Newcomers == \A c \in Conn : conn[c].st \in {"none", "open"} \/ (up /\ ~watch) => view[c] = None /\ ~Introduced(toNs, c)
Once == \A i \in 1..Len(toNs) : toNs[i].k = "SVCUSER" =>
    view[toNs[i].c] = None /\ \A j \in 1..Len(toNs) : toNs[j].k = "SVCUSER" /\ toNs[j].c = toNs[i].c => j = i
Watching == \A i \in 1..Len(toIrc) : toIrc[i].k = "SVCWATCH" =>
    ~watch /\ \A j \in 1..Len(toIrc) : toIrc[j].k = "SVCWATCH" => j = i
Guarded == watch /\ Enforce => \A c \in Conn : conn[c].st = "user" /\ c \notin excused => Watched(c)
WInv == Lone(store) /\ Newcomers /\ Once /\ Watching /\ Guarded

\* At most one SVCWATCH is on its way, and only to a hub that does not feed.
LEMMA WatchingLeft ==
    ASSUME LinkTyped, Watching, toIrc' = toIrc \/ (toIrc # << >> /\ toIrc' = Tail(toIrc)), watch' = watch
    PROVE  Watching'
<1>1. CASE toIrc' = toIrc  BY <1>1 DEF Watching
<1>2. CASE toIrc # << >> /\ toIrc' = Tail(toIrc)
  <2>1. /\ \A i \in 1..Len(toIrc') : i + 1 \in 1..Len(toIrc) /\ toIrc'[i] = toIrc[i + 1]
    BY <1>2, QueueRest DEF LinkTyped
  <2>2. SUFFICES ASSUME NEW i \in 1..Len(toIrc'), toIrc'[i].k = "SVCWATCH"
                 PROVE  ~watch /\ \A j \in 1..Len(toIrc') : toIrc'[j].k = "SVCWATCH" => j = i
    BY DEF Watching
  <2> DEFINE n == i + 1
  <2>3. n \in 1..Len(toIrc) /\ toIrc[n].k = "SVCWATCH"  BY <2>1, <2>2
  <2>4. ~watch /\ \A j \in 1..Len(toIrc) : toIrc[j].k = "SVCWATCH" => j = n
    <3> HIDE DEF n
    <3> QED  BY <2>3 DEF Watching
  <2>5. ASSUME NEW j \in 1..Len(toIrc'), toIrc'[j].k = "SVCWATCH"  PROVE j = i
    <3>1. j + 1 \in 1..Len(toIrc) /\ toIrc[j + 1].k = "SVCWATCH"  BY <2>1, <2>5
    <3>2. j + 1 = i + 1  BY <2>4, <3>1
    <3> QED  BY <3>2
  <2> QED  BY <2>4, <2>5
<1> QED  BY <1>1, <1>2

(***************************************************************************)
(* Steps of the hub.                                                       *)
(***************************************************************************)
\* What of a connection's own lines the hub says: nothing, one line of a user, or that he is one.
Says(c, k, out) ==
    \/ \A i \in 1..Len(out) : out[i].k \notin {"SVCUSER", "SVCNICK", "SVCACCOUNT"}
    \/ \E m \in NsLine : out = <<m>> /\ m.c = c /\ m.k \in {"SVCNICK", "SVCACCOUNT"}
    \/ \E m \in NsLine : out = <<m>> /\ m.c = c /\ m.k = "SVCUSER" /\ watch /\ conn[c].st = "open" /\ k.st = "user"
Owed(d, a) == (Coming(toIrc, d, a) => Coming(toIrc', d, a)) /\ (Pushed(toIrc, d) => Pushed(toIrc', d))
\* c is looked at, may have his nick, or nothing has changed for him.
Minded(c, k, out) ==
    \/ \E m \in NsLine : out = <<m>> /\ m.c = c /\ m.k \in {"SVCUSER", "SVCNICK"}
    \/ Allowed(store, k.nick, k.acct)
    \/ /\ conn[c].st = "user" /\ k.nick = conn[c].nick /\ k.acct = conn[c].acct /\ c \notin excused
       /\ \A i \in 1..Len(out) : ~About(out[i], c)
       /\ Owed(c, k.acct)

\* What the hub says of one connection is about that one only, and a newcomer is told of once.
LEMMA SaysForm ==
    ASSUME NEW c, NEW k, NEW out \in Seq(NsLine), Says(c, k, out)
    PROVE  /\ \A d : \A i \in 1..Len(out) : About(out[i], d) => d = c
           /\ \A i \in 1..Len(out) : out[i].k = "SVCUSER" =>
                /\ out[i].c = c /\ watch /\ conn[c].st = "open" /\ k.st = "user"
                /\ \A j \in 1..Len(out) : j = i
<1>1. \A m : Len(<<m>>) = 1 /\ \A i \in 1..Len(<<m>>) : i = 1 /\ <<m>>[i] = m
  <2>1. 1..1 = {1}  OBVIOUS
  <2> QED  BY <2>1
<1>2. CASE \A i \in 1..Len(out) : out[i].k \notin {"SVCUSER", "SVCNICK", "SVCACCOUNT"}  BY <1>2 DEF About
<1>3. CASE \E m \in NsLine : out = <<m>> /\ m.c = c /\ m.k \in {"SVCNICK", "SVCACCOUNT"}  BY <1>1, <1>3 DEF About
<1>4. CASE \E m \in NsLine : out = <<m>> /\ m.c = c /\ m.k = "SVCUSER" /\ watch /\ conn[c].st = "open" /\ k.st = "user"
  BY <1>1, <1>4 DEF About
<1> QED  BY <1>2, <1>3, <1>4 DEF Says

\* The hub tells of a connection what it has changed of it.
LEMMA HubKept ==
    ASSUME Inv, WInv, NEW c \in Conn, NEW k, NEW out \in Seq(NsLine), conn' = [conn EXCEPT ![c] = k], toNs' = toNs \o out,
           UNCHANGED <<up, watch, store, view>>, Watching', Says(c, k, out),
           k.st \in {"none", "open"} => conn[c].st \in {"none", "open"},
           \A d \in Conn \ {c} : (d \in excused => d \in excused') /\ \A a : Owed(d, a),
           watch /\ k.st = "user" /\ c \notin excused' => Minded(c, k, out)
    PROVE  WInv'
<1>3. /\ \A d : \A i \in 1..Len(out) : About(out[i], d) => d = c
      /\ \A i \in 1..Len(out) : out[i].k = "SVCUSER" =>
           /\ out[i].c = c /\ watch /\ conn[c].st = "open" /\ k.st = "user"
           /\ \A j \in 1..Len(out) : j = i
  <2>1. \A d : \A i \in 1..Len(out) : About(out[i], d) => d = c  BY SaysForm
  <2>2. \A i \in 1..Len(out) : out[i].k = "SVCUSER" =>
          /\ out[i].c = c /\ watch /\ conn[c].st = "open" /\ k.st = "user"
          /\ \A j \in 1..Len(out) : j = i
    BY SaysForm
  <2> QED  BY <2>1, <2>2
<1> USE DEF Inv, WInv
<1>1. toNs \in Seq(NsLine) /\ conn \in [Conn -> KConn]  BY DEF LinkTyped, HubTyped
<1>2. conn'[c] = k /\ \A d \in Conn \ {c} : conn'[d] = conn[d]  BY <1>1
<1>4. /\ \A i \in 1..Len(toNs) : i \in 1..Len(toNs') /\ toNs'[i] = toNs[i]
      /\ \A i \in 1..Len(toNs') :
           \/ i \in 1..Len(toNs) /\ toNs'[i] = toNs[i]
           \/ i - Len(toNs) \in 1..Len(out) /\ toNs'[i] = out[i - Len(toNs)]
      /\ Len(toNs) \in Nat
  BY <1>1, QueueJoined
<1>5. Lone(store)'  BY DEF Lone, Filed
<1>6. Newcomers'
  <2>1. SUFFICES ASSUME NEW d \in Conn, conn'[d].st \in {"none", "open"} \/ (up /\ ~watch)
                 PROVE  view[d] = None /\ ~Introduced(toNs', d)
    BY DEF Newcomers
  <2>2. conn[d].st \in {"none", "open"} \/ (up /\ ~watch)  BY <1>2, <2>1
  <2>3. view[d] = None /\ ~Introduced(toNs, d)  BY <2>2 DEF Newcomers
  <2>4. ASSUME NEW i \in 1..Len(toNs'), toNs'[i].k = "SVCUSER", toNs'[i].c = d  PROVE FALSE
    <3>1. ~(i \in 1..Len(toNs) /\ toNs'[i] = toNs[i])  BY <2>3, <2>4 DEF Introduced
    <3>2. i - Len(toNs) \in 1..Len(out) /\ toNs'[i] = out[i - Len(toNs)]  BY <1>4, <3>1
    <3>3. d = c /\ watch /\ k.st = "user"  BY <1>3, <2>4, <3>2
    <3> QED  BY <1>2, <2>1, <3>3
  <2> QED  BY <2>3, <2>4 DEF Introduced
<1>7. Once'
  <2>1. SUFFICES ASSUME NEW i \in 1..Len(toNs'), toNs'[i].k = "SVCUSER"
                 PROVE  /\ view[toNs'[i].c] = None
                        /\ \A j \in 1..Len(toNs') : toNs'[j].k = "SVCUSER" /\ toNs'[j].c = toNs'[i].c => j = i
    BY DEF Once
  <2>2. ASSUME NEW j \in 1..Len(toNs'), toNs'[j].k = "SVCUSER", j - Len(toNs) \in 1..Len(out), toNs'[j] = out[j - Len(toNs)]
        PROVE  /\ toNs'[j].c = c /\ view[c] = None /\ ~Introduced(toNs, c)
               /\ \A l \in 1..Len(out) : l = j - Len(toNs)
    <3>1. toNs'[j].c = c /\ conn[c].st = "open" /\ \A l \in 1..Len(out) : l = j - Len(toNs)  BY <1>3, <2>2
    <3> QED  BY <3>1 DEF Newcomers
  <2>3. CASE i \in 1..Len(toNs) /\ toNs'[i] = toNs[i]
    <3>1. /\ view[toNs'[i].c] = None
          /\ \A j \in 1..Len(toNs) : toNs[j].k = "SVCUSER" /\ toNs[j].c = toNs[i].c => j = i
      BY <2>1, <2>3 DEF Once
    <3>2. ASSUME NEW j \in 1..Len(toNs'), toNs'[j].k = "SVCUSER", toNs'[j].c = toNs'[i].c  PROVE j = i
      <4>1. CASE j \in 1..Len(toNs) /\ toNs'[j] = toNs[j]  BY <2>3, <3>1, <3>2, <4>1
      <4>2. CASE j - Len(toNs) \in 1..Len(out) /\ toNs'[j] = out[j - Len(toNs)]
        <5>1. toNs'[j].c = c /\ ~Introduced(toNs, c)  BY <2>2, <3>2, <4>2
        <5> QED  BY <2>1, <2>3, <3>2, <5>1 DEF Introduced
      <4> QED  BY <1>4, <4>1, <4>2
    <3> QED  BY <3>1, <3>2
  <2>4. CASE i - Len(toNs) \in 1..Len(out) /\ toNs'[i] = out[i - Len(toNs)]
    <3>1. toNs'[i].c = c /\ view[c] = None /\ ~Introduced(toNs, c) /\ \A l \in 1..Len(out) : l = i - Len(toNs)
      BY <2>1, <2>2, <2>4
    <3>2. ASSUME NEW j \in 1..Len(toNs'), toNs'[j].k = "SVCUSER", toNs'[j].c = toNs'[i].c  PROVE j = i
      <4>1. CASE j \in 1..Len(toNs) /\ toNs'[j] = toNs[j]  BY <3>1, <3>2, <4>1 DEF Introduced
      <4>2. CASE j - Len(toNs) \in 1..Len(out)
        <5>1. j - Len(toNs) = i - Len(toNs)  BY <3>1, <4>2
        <5> QED  BY <1>4, <5>1
      <4> QED  BY <1>4, <4>1, <4>2
    <3> QED  BY <3>1, <3>2
  <2> QED  BY <1>4, <2>3, <2>4
<1>8. Guarded'
  <2>1. SUFFICES ASSUME watch, Enforce, NEW d \in Conn, conn'[d].st = "user", d \notin excused'  PROVE Watched(d)'
    BY DEF Guarded
  <2>2. CASE d # c
    <3>1. conn'[d] = conn[d] /\ d \notin excused /\ \A a : Owed(d, a)  BY <1>2, <2>1, <2>2
    <3>2. Watched(d)  BY <2>1, <3>1 DEF Guarded
    <3>3. \A i \in 1..Len(out) : ~About(out[i], d)  BY <1>3, <2>2
    <3>4. (Asking(toNs, d) => Asking(toNs', d)) /\ (Still(toNs, d) => Still(toNs', d))  BY <1>1, <3>3, AboutStill
    <3>5. /\ Coming(toIrc, d, conn[d].acct) => Coming(toIrc', d, conn[d].acct)
          /\ Pushed(toIrc, d) => Pushed(toIrc', d)
      BY <3>1 DEF Owed
    <3> QED  BY <3>1, <3>2, <3>4, <3>5 DEF Watched
  <2>3. CASE d = c
    <3>1. Minded(c, k, out)  BY <1>2, <2>1, <2>3
    <3>2. CASE \E m \in NsLine : out = <<m>> /\ m.c = c /\ m.k \in {"SVCUSER", "SVCNICK"}
      <4>1. PICK m \in NsLine : out = <<m>> /\ m.c = c /\ m.k \in {"SVCUSER", "SVCNICK"}  BY <3>2
      <4>2. 1 \in 1..Len(out) /\ out[1] = m /\ \A j \in 1..Len(out) : j = 1  BY <4>1
      <4>3. About(out[1], c) /\ out[1].k # "SVCACCOUNT"  BY <4>1, <4>2 DEF About
      <4>4. Asking(toNs', c)  BY <1>1, <4>2, <4>3, AboutSaid
      <4> QED  BY <2>3, <4>4 DEF Watched
    <3>3. CASE Allowed(store, k.nick, k.acct)
      <4>1. store' = store /\ conn'[d].nick = k.nick /\ conn'[d].acct = k.acct  BY <1>2, <2>3
      <4> QED  BY <3>3, <4>1 DEF Watched
    <3>4. CASE /\ conn[c].st = "user" /\ k.nick = conn[c].nick /\ k.acct = conn[c].acct /\ c \notin excused
               /\ \A i \in 1..Len(out) : ~About(out[i], c)
               /\ Owed(c, k.acct)
      <4>1. Watched(c)  BY <2>1, <3>4 DEF Guarded
      <4>2. (Asking(toNs, c) => Asking(toNs', c)) /\ (Still(toNs, c) => Still(toNs', c))  BY <1>1, <3>4, AboutStill
      <4>3. /\ Coming(toIrc, c, conn[c].acct) => Coming(toIrc', c, conn[c].acct)
            /\ Pushed(toIrc, c) => Pushed(toIrc', c)
        BY <3>4 DEF Owed
      <4>4. conn'[d].nick = conn[c].nick /\ conn'[d].acct = conn[c].acct  BY <1>2, <2>3, <3>4
      <4> QED  BY <2>3, <4>1, <4>2, <4>3, <4>4 DEF Watched
    <3> QED  BY <3>1, <3>2, <3>3, <3>4 DEF Minded
  <2> QED  BY <2>2, <2>3
<1> QED  BY <1>5, <1>6, <1>7, <1>8

\* A line of the hub is read that orders no login and no nick.
DullRead == toIrc' = toIrc \/ (toIrc # << >> /\ toIrc' = Tail(toIrc) /\ Head(toIrc).k \notin {"SVSLOGIN", "SVSNICK"})
\* Such a line owes nobody anything.
LEMMA DullForm ==
    ASSUME LinkTyped, Watching, DullRead, watch' = watch
    PROVE  Watching' /\ \A d, a : Owed(d, a)
<1>1. Watching'  BY WatchingLeft DEF DullRead
<1>2. ASSUME NEW d, NEW a  PROVE Owed(d, a)
  <2>1. CASE toIrc' = toIrc  BY <2>1 DEF Owed
  <2>2. CASE toIrc # << >> /\ toIrc' = Tail(toIrc) /\ Head(toIrc).k \notin {"SVSLOGIN", "SVSNICK"}
    BY <2>2, OrdersLeft DEF Owed
  <2> QED  BY <2>1, <2>2 DEF DullRead
<1> QED  BY <1>1, <1>2

\* Nothing that concerns a nick or an account.
LEMMA HubDull ==
    ASSUME Inv, WInv, NEW c \in Conn, NEW k \in KConn, NEW out \in Seq(NsLine),
           k.st = conn[c].st, k.nick = conn[c].nick, k.acct = conn[c].acct,
           \A i \in 1..Len(out) : out[i].k \notin {"SVCUSER", "SVCNICK", "SVCACCOUNT"},
           conn' = [conn EXCEPT ![c] = k], toNs' = toNs \o out, UNCHANGED <<up, watch, store, view, excused>>, DullRead
    PROVE  WInv'
<1>1. Watching' /\ \A d, a : Owed(d, a)  BY DullForm DEF Inv, WInv
<1>2. Says(c, k, out)  BY DEF Says
<1>3. \A i \in 1..Len(out) : ~About(out[i], c)  BY DEF About
<1>4. k.st = "user" /\ c \notin excused' => Minded(c, k, out)  BY <1>1, <1>3 DEF Minded
<1> QED  BY <1>1, <1>2, <1>4, HubKept

\* Registration, or what comes of it.
LEMMA WelcomeForm ==
    ASSUME Inv, NEW c \in Conn, NEW k \in KConn, k.st = conn[c].st, k.nick = conn[c].nick, k.acct = conn[c].acct
    PROVE  LET w == Welcome(c, k) IN
           /\ w.conn \in KConn /\ w.conn.nick = k.nick /\ w.conn.acct = k.acct /\ w.out \in Seq(NsLine)
           /\ \/ w.conn.st = k.st /\ \A i \in 1..Len(w.out) : Plain(w.out[i])
              \/ k.st = "open" /\ w.conn.st = "user" /\ watch /\ \E m \in NsLine : w.out = <<m>> /\ m.k = "SVCUSER" /\ m.c = c
              \/ k.st = "open" /\ w.conn.st = "user" /\ ~watch /\ w.out = << >>
<1> DEFINE asks == k.pass # None /\ k.acct = None /\ k.mech = None /\ up /\ ~HubThrottled
           w == Welcome(c, k)
<1>1. << >> \in Seq(NsLine) /\ Len(<< >>) = 0 /\ 1..Len(<< >>) = {}  BY OneLine
<1>2. CASE k.st # "open" \/ ~k.ready \/ k.held
  <2>1. w.conn = k /\ w.out = << >>  BY <1>2 DEF Welcome
  <2> QED  BY <1>1, <2>1
<1>3. CASE ~(k.st # "open" \/ ~k.ready \/ k.held) /\ asks
  <2> DEFINE x == [k EXCEPT !.pass = None, !.held = TRUE, !.style = "pass", !.mech = "PLAIN"]
             m == [k |-> "START", c |-> c, mech |-> "PLAIN"]
             n == [k |-> "DATA", c |-> c, data |-> k.pass]
  <2>1. w.conn = x /\ w.out = <<m, n>>  BY <1>3 DEF Welcome
  <2>2. "PLAIN" \in Mechs /\ k.pass \in Data  BY <1>3 DEF Mechs, KConn
  <2>3. x \in KConn /\ x.st = k.st /\ x.nick = k.nick /\ x.acct = k.acct  BY <2>2 DEF KConn
  <2>4. m \in NsLine /\ n \in NsLine /\ Plain(m) /\ Plain(n)  BY <2>2, NsLines DEF Plain
  <2> HIDE DEF x, m, n, w
  <2>5. <<m, n>> \in Seq(NsLine) /\ \A i \in 1..Len(<<m, n>>) : <<m, n>>[i] \in {m, n}  BY <2>4, OneLine
  <2>6. \A i \in 1..Len(w.out) : Plain(w.out[i])  BY <2>1, <2>4, <2>5
  <2>7. w.conn \in KConn /\ w.conn.nick = k.nick /\ w.conn.acct = k.acct /\ w.out \in Seq(NsLine) /\ w.conn.st = k.st
    BY <2>1, <2>3, <2>5
  <2> QED  BY <2>6, <2>7 DEF w
<1>4. CASE ~(k.st # "open" \/ ~k.ready \/ k.held) /\ ~asks
  <2> DEFINE x == Registered(k)
             m == User(c, k)
  <2>1. w.conn = x /\ w.out = IF watch THEN <<m>> ELSE << >>  BY <1>4 DEF Welcome
  <2>2. k.nick \in Nick /\ k.acct \in Anyone  BY <1>4 DEF Inv, HubTyped, KConn
  <2>3. x \in KConn /\ x.st = "user" /\ x.nick = k.nick /\ x.acct = k.acct  BY DEF Registered, KConn
  <2>4. m \in NsLine /\ m.k = "SVCUSER" /\ m.c = c  BY <2>2, NsLines DEF User
  <2> HIDE DEF x, m, w
  <2>5. <<m>> \in Seq(NsLine)  BY <2>4, OneLine
  <2>6. w.conn \in KConn /\ w.conn.nick = k.nick /\ w.conn.acct = k.acct /\ w.conn.st = "user" /\ k.st = "open"  BY <1>4, <2>1, <2>3
  <2>7. CASE watch
    <3>1. w.out = <<m>> /\ w.out \in Seq(NsLine)  BY <2>1, <2>5, <2>7
    <3>2. \E y \in NsLine : w.out = <<y>> /\ y.k = "SVCUSER" /\ y.c = c  BY <2>4, <3>1
    <3> QED  BY <2>6, <2>7, <3>1, <3>2 DEF w
  <2>8. CASE ~watch
    <3>1. w.out = << >>  BY <2>1, <2>8
    <3> QED  BY <1>1, <2>6, <2>8, <3>1 DEF w
  <2> QED  BY <2>7, <2>8
<1> QED  BY <1>2, <1>3, <1>4

LEMMA WelcomeKept ==
    ASSUME Inv, WInv, NEW c \in Conn, NEW k \in KConn, k.st = conn[c].st, k.nick = conn[c].nick, k.acct = conn[c].acct,
           Put(c, Welcome(c, k)), UNCHANGED <<up, watch, store, view, excused>>, DullRead
    PROVE  WInv'
<1> DEFINE w == Welcome(c, k)
           x == w.conn
           out == w.out
<1>1. conn' = [conn EXCEPT ![c] = x] /\ toNs' = toNs \o out  BY DEF Put, Tell
<1>2. /\ x \in KConn /\ x.nick = k.nick /\ x.acct = k.acct /\ out \in Seq(NsLine)
      /\ \/ x.st = k.st /\ \A i \in 1..Len(out) : Plain(out[i])
         \/ k.st = "open" /\ x.st = "user" /\ watch /\ \E m \in NsLine : out = <<m>> /\ m.k = "SVCUSER" /\ m.c = c
         \/ k.st = "open" /\ x.st = "user" /\ ~watch /\ out = << >>
  BY WelcomeForm
<1> HIDE DEF x, out
<1>3. Watching' /\ \A d, a : Owed(d, a)  BY DullForm DEF Inv, WInv
<1>4. CASE x.st = k.st /\ \A i \in 1..Len(out) : Plain(out[i])
  <2>1. \A i \in 1..Len(out) : out[i].k \notin {"SVCUSER", "SVCNICK", "SVCACCOUNT"}  BY <1>4 DEF Plain
  <2> QED  BY <1>1, <1>2, <1>4, <2>1, HubDull
<1>5. CASE k.st = "open" /\ x.st = "user" /\ watch /\ \E m \in NsLine : out = <<m>> /\ m.k = "SVCUSER" /\ m.c = c
  <2>1. Says(c, x, out)  BY <1>5 DEF Says
  <2>2. Minded(c, x, out)  BY <1>5 DEF Minded
  <2>3. ~(x.st \in {"none", "open"})  BY <1>5
  <2> QED  BY <1>1, <1>2, <1>3, <2>1, <2>2, <2>3, HubKept
<1>6. CASE k.st = "open" /\ x.st = "user" /\ ~watch /\ out = << >>
  <2>1. Says(c, x, out)
    <3>1. 1..Len(out) = {}  BY <1>6, OneLine
    <3> QED  BY <3>1 DEF Says
  <2>2. ~(x.st \in {"none", "open"})  BY <1>6
  <2> QED  BY <1>1, <1>2, <1>3, <1>6, <2>1, <2>2, HubKept
<1> QED  BY <1>2, <1>4, <1>5, <1>6

\* NICK and SVSNICK: whoever has a new nick is looked at.
LEMMA NickKept ==
    ASSUME Inv, WInv, NEW c \in Users, NEW n \in Nick, conn' = [conn EXCEPT ![c].nick = n],
           Tell(Feed(c, [k |-> "SVCNICK", c |-> c, nick |-> n])), UNCHANGED <<up, watch, store, view>>, excused' = excused \ {c},
           Watching', \A d \in Conn \ {c} : \A a : Owed(d, a)
    PROVE  WInv'
<1> DEFINE k == [conn[c] EXCEPT !.nick = n]
           m == [k |-> "SVCNICK", c |-> c, nick |-> n]
           out == IF watch THEN <<m>> ELSE << >>
<1>1. c \in Conn /\ conn[c].st = "user" /\ conn \in [Conn -> KConn] /\ conn[c] \in KConn  BY DEF Users, Inv, HubTyped
<1>2. k.st = "user"  BY <1>1 DEF KConn
<1>3. conn' = [conn EXCEPT ![c] = k]  BY <1>1
<1>4. toNs' = toNs \o out  BY <1>1 DEF Tell, Feed
<1>5. m \in NsLine /\ m.k = "SVCNICK" /\ m.c = c  BY <1>1, NsLines
<1> HIDE DEF k, m
<1>6. out \in Seq(NsLine)  BY <1>5, OneLine
<1>7. Says(c, k, out)
  <2>1. CASE watch  BY <1>5, <2>1 DEF Says
  <2>2. CASE ~watch
    <3>1. 1..Len(out) = {}  BY <2>2, OneLine
    <3> QED  BY <3>1 DEF Says
  <2> QED  BY <2>1, <2>2
<1>8. watch => Minded(c, k, out)  BY <1>5 DEF Minded
<1> HIDE DEF out
<1>9. \A d \in Conn \ {c} : d \in excused => d \in excused'  OBVIOUS
<1>10. ~(k.st \in {"none", "open"})  BY <1>2
<1> QED  BY <1>1, <1>3, <1>4, <1>6, <1>7, <1>8, <1>9, <1>10, HubKept

\* QUIT and KILL.
LEMMA GoneKept ==
    ASSUME Inv, WInv, NEW c \in Here,
           conn' = [conn EXCEPT ![c].st = "gone", ![c].mech = None, ![c].held = FALSE],
           Tell(Feed(c, [k |-> "SVCQUIT", c |-> c])), UNCHANGED <<up, watch, store, view>>, excused' = excused \ {c}, DullRead
    PROVE  WInv'
<1> DEFINE k == [conn[c] EXCEPT !.st = "gone", !.mech = None, !.held = FALSE]
           m == [k |-> "SVCQUIT", c |-> c]
           out == IF watch /\ conn[c].st = "user" THEN <<m>> ELSE << >>
<1>1. c \in Conn /\ conn \in [Conn -> KConn] /\ conn[c] \in KConn  BY DEF Here, Inv, HubTyped
<1>2. k.st = "gone"  BY <1>1 DEF KConn
<1>3. conn' = [conn EXCEPT ![c] = k]  BY <1>1
<1>4. toNs' = toNs \o out  BY DEF Tell, Feed
<1>5. m \in NsLine /\ m.k = "SVCQUIT"  BY <1>1, NsLines
<1> HIDE DEF k, m
<1>6. out \in Seq(NsLine) /\ \A i \in 1..Len(out) : out[i] = m
  <2>1. << >> \in Seq(NsLine) /\ 1..Len(<< >>) = {}  BY OneLine
  <2>2. <<m>> \in Seq(NsLine) /\ \A i \in 1..Len(<<m>>) : <<m>>[i] = m  BY <1>5, OneLine
  <2> QED  BY <2>1, <2>2
<1>7. Says(c, k, out)  BY <1>5, <1>6 DEF Says
<1> HIDE DEF out
<1>8. Watching' /\ \A d, a : Owed(d, a)  BY DullForm DEF Inv, WInv
<1>9. \A d \in Conn \ {c} : d \in excused => d \in excused'  OBVIOUS
<1>10. ~(k.st \in {"none", "open"}) /\ k.st # "user"  BY <1>2
<1> QED  BY <1>1, <1>3, <1>4, <1>6, <1>7, <1>8, <1>9, <1>10, HubKept

LEMMA ByUsersKept ==
    ASSUME Inv, WInv, UNCHANGED play, ByUsers
    PROVE  WInv'
<1>1. conn \in [Conn -> KConn] /\ \A c \in Conn : conn[c] \in KConn  BY DEF Inv, HubTyped
<1>2. << >> \in Seq(NsLine) /\ Len(<< >>) = 0 /\ 1..Len(<< >>) = {}  BY OneLine
<1>3. ASSUME NEW m \in NsLine, m.k \notin {"SVCUSER", "SVCNICK", "SVCACCOUNT"}
      PROVE  /\ <<m>> \in Seq(NsLine) /\ ToServices(<<m>>) \in Seq(NsLine)
             /\ \A i \in 1..Len(<<m>>) : <<m>>[i].k \notin {"SVCUSER", "SVCNICK", "SVCACCOUNT"}
             /\ \A i \in 1..Len(ToServices(<<m>>)) : ToServices(<<m>>)[i].k \notin {"SVCUSER", "SVCNICK", "SVCACCOUNT"}
  <2>1. <<m>> \in Seq(NsLine) /\ \A i \in 1..Len(<<m>>) : <<m>>[i] = m  BY OneLine
  <2> QED  BY <1>2, <1>3, <2>1 DEF ToServices
<1>4. ByUser => UNCHANGED <<up, watch, store, view>> /\ DullRead  BY DEF ByUser, ns, DullRead
<1>5. ASSUME NEW t \in play.typed, Say(t)  PROVE WInv'
  <2> DEFINE m == [k |-> "PRIVMSG", nick |-> conn[t.c].nick, t |-> t]
  <2>1. t \in Typed /\ t.c \in Conn /\ conn[t.c].st = "user" /\ ByUser /\ conn' = conn /\ excused' = excused
    BY <1>5, PlayForm DEF Inv, Say, Users, Typed
  <2>2. conn[t.c].nick \in Nick  BY <2>1 DEF Inv, HubTyped
  <2>3. m \in NsLine /\ m.k = "PRIVMSG"  BY <2>1, <2>2 DEF NsLine
  <2>4. conn' = [conn EXCEPT ![t.c] = conn[t.c]] /\ toNs' = toNs \o <<m>>  BY <1>1, <1>5, <2>1 DEF Say, Tell
  <2> HIDE DEF m
  <2> QED  BY <1>1, <1>3, <1>4, <2>1, <2>3, <2>4, HubDull
<1>6. ASSUME NEW c \in Conn, Ready(c)  PROVE WInv'
  <2> DEFINE k == [conn[c] EXCEPT !.ready = TRUE]
  <2>1. k \in KConn /\ k.st = conn[c].st /\ k.nick = conn[c].nick /\ k.acct = conn[c].acct  BY <1>1 DEF KConn
  <2>2. Put(c, Welcome(c, k)) /\ ByUser /\ excused' = excused  BY <1>6 DEF Ready
  <2> HIDE DEF k
  <2> QED  BY <1>4, <2>1, <2>2, WelcomeKept
<1>7. ASSUME NEW c \in Conn, AuthAbort(c)  PROVE WInv'
  <2> DEFINE k == NoSasl(conn[c])
             m == [k |-> "ABORT", c |-> c]
  <2>1. k \in KConn /\ k.st = conn[c].st /\ k.nick = conn[c].nick /\ k.acct = conn[c].acct  BY <1>1 DEF KConn, NoSasl
  <2>2. m \in NsLine /\ m.k = "ABORT"  BY NsLines
  <2>3. conn' = [conn EXCEPT ![c] = k] /\ toNs' = toNs \o ToServices(<<m>>) /\ ByUser /\ excused' = excused
    BY <1>1, <1>7 DEF AuthAbort, Tell
  <2> HIDE DEF k, m
  <2> QED  BY <1>3, <1>4, <2>1, <2>2, <2>3, HubDull
<1>8. ASSUME NEW c \in Conn, Leave(c)  PROVE WInv'
  BY <1>4, <1>8, GoneKept DEF Leave
<1>9. ASSUME NEW c \in Conn, NEW p \in play.pass[c] \cup {None}, Connect(c, p)  PROVE WInv'
  <2> DEFINE n == IF \E d \in Here : conn[d].nick = FirstNick[c] THEN None ELSE FirstNick[c]
             k == [conn[c] EXCEPT !.st = "open", !.pass = p, !.nick = n]
  <2>1. conn[c].st = "none" /\ toNs' = toNs /\ ByUser /\ excused' = excused  BY <1>9 DEF Connect
  <2>2. conn' = [conn EXCEPT ![c] = k]  BY <1>1, <1>9 DEF Connect
  <2> HIDE DEF n
  <2>3. k.st = "open"  BY <1>1 DEF KConn
  <2> HIDE DEF k
  <2>4. toNs' = toNs \o << >>  BY <2>1 DEF Inv, LinkTyped
  <2>5. Watching' /\ \A d, a : Owed(d, a)  BY <1>4, <2>1, DullForm DEF Inv, WInv
  <2>6. Says(c, k, << >>)  BY <1>2 DEF Says
  <2>7. k.st # "user" /\ conn[c].st \in {"none", "open"} /\ \A d \in Conn \ {c} : d \in excused => d \in excused'  BY <2>1, <2>3
  <2> QED  BY <1>2, <1>4, <2>1, <2>2, <2>4, <2>5, <2>6, <2>7, HubKept
<1>10. ASSUME NEW c \in Conn, NEW a \in play.mech[c], Authenticate(c, a)  PROVE WInv'
  <2> DEFINE k == [conn[c] EXCEPT !.mech = a, !.style = "legacy"]
             m == [k |-> "START", c |-> c, mech |-> a]
  <2>1. a \in Mechs  BY PlayForm DEF Inv
  <2>2. k \in KConn /\ k.st = conn[c].st /\ k.nick = conn[c].nick /\ k.acct = conn[c].acct  BY <1>1, <2>1 DEF KConn
  <2>3. m \in NsLine /\ m.k = "START"  BY <2>1, NsLines
  <2>4. conn' = [conn EXCEPT ![c] = k] /\ toNs' = toNs \o <<m>> /\ ByUser /\ excused' = excused
    BY <1>1, <1>10 DEF Authenticate, Tell
  <2> HIDE DEF k, m
  <2> QED  BY <1>3, <1>4, <2>2, <2>3, <2>4, HubDull
<1>11. ASSUME NEW c \in Conn, NEW d \in play.data[c], AuthData(c, d)  PROVE WInv'
  <2> DEFINE m == [k |-> "DATA", c |-> c, data |-> d]
  <2>1. d \in Data  BY PlayForm DEF Inv
  <2>2. m \in NsLine /\ m.k = "DATA"  BY <2>1, NsLines
  <2>3. conn' = [conn EXCEPT ![c] = conn[c]] /\ toNs' = toNs \o ToServices(<<m>>) /\ ByUser /\ excused' = excused
    BY <1>1, <1>11 DEF AuthData, Tell
  <2> HIDE DEF m
  <2> QED  BY <1>1, <1>3, <1>4, <2>2, <2>3, HubDull
<1>12. ASSUME NEW c \in Conn, NEW p \in Password, Register(c, p)  PROVE WInv'
  <2> DEFINE k == [conn[c] EXCEPT !.regs = @ + 1, !.style = "legacy"]
             m == [k |-> "SVCREGISTER", c |-> c, name |-> conn[c].nick, pw |-> p]
  <2>1. conn[c].nick \in Nick  BY <1>12 DEF Register, Users, Inv, HubTyped
  <2>2. k \in KConn /\ k.st = conn[c].st /\ k.nick = conn[c].nick /\ k.acct = conn[c].acct
    <3>1. conn[c] \in KConn /\ conn[c].regs + 1 \in Nat  BY <1>1 DEF KConn
    <3>2. "legacy" \in {"legacy", "pass"}  OBVIOUS
    <3> DEFINE n == conn[c].regs + 1
    <3>3. k = [[conn[c] EXCEPT !.regs = n] EXCEPT !.style = "legacy"] /\ n \in Nat  BY <3>1 DEF KConn
    <3> HIDE DEF n, k
    <3> QED  BY <3>1, <3>2, <3>3 DEF KConn
  <2>3. m \in NsLine /\ m.k = "SVCREGISTER"  BY <2>1, NsLines
  <2>4. conn' = [conn EXCEPT ![c] = k] /\ toNs' = toNs \o <<m>> /\ ByUser /\ excused' = excused
    BY <1>1, <1>12 DEF Register, Tell
  <2> HIDE DEF k, m
  <2> QED  BY <1>3, <1>4, <2>2, <2>3, <2>4, HubDull
<1>13. ASSUME NEW c \in Conn, NEW n \in Nick, ChangeNick(c, n)  PROVE WInv'
  <2>1. /\ c \in Users /\ conn' = [conn EXCEPT ![c].nick = n] /\ Tell(Feed(c, [k |-> "SVCNICK", c |-> c, nick |-> n]))
        /\ excused' = excused \ {c} /\ ByUser
    BY <1>13 DEF ChangeNick
  <2>2. Watching' /\ \A d, a : Owed(d, a)  BY <1>4, <2>1, DullForm DEF Inv, WInv
  <2> QED  BY <1>4, <2>1, <2>2, NickKept
<1> QED  BY <1>5, <1>6, <1>7, <1>8, <1>9, <1>10, <1>11, <1>12, <1>13 DEF ByUsers

\* SASL is over on the hub's side.
LEMMA FinishKept ==
    ASSUME Inv, WInv, NEW c \in Here, NEW ok, Put(c, SaslFinish(c, ok)), UNCHANGED <<up, watch, store, view, excused>>, DullRead
    PROVE  WInv'
<1> DEFINE k == [NoSasl(conn[c]) EXCEPT !.style = "legacy"]
           x == [k EXCEPT !.held = FALSE]
<1>1. c \in Conn /\ conn[c] \in KConn  BY DEF Here, Inv, HubTyped
<1>2. k \in KConn /\ k.st = conn[c].st /\ k.nick = conn[c].nick /\ k.acct = conn[c].acct  BY <1>1 DEF KConn, NoSasl
<1>3. x \in KConn /\ x.st = conn[c].st /\ x.nick = conn[c].nick /\ x.acct = conn[c].acct  BY <1>2 DEF KConn
<1>4. SaslFinish(c, ok) = IF conn[c].style # "pass" THEN [conn |-> k, out |-> << >>] ELSE Welcome(c, x)  BY DEF SaslFinish
<1> HIDE DEF k, x
<1>5. CASE conn[c].style # "pass"
  <2>1. conn' = [conn EXCEPT ![c] = k] /\ toNs' = toNs \o << >>  BY <1>4, <1>5 DEF Put, Tell
  <2>2. << >> \in Seq(NsLine) /\ Len(<< >>) = 0 /\ 1..Len(<< >>) = {}  BY OneLine
  <2> QED  BY <1>1, <1>2, <2>1, <2>2, HubDull
<1>6. CASE ~(conn[c].style # "pass")
  <2>1. Put(c, Welcome(c, x))  BY <1>4, <1>6
  <2> QED  BY <1>1, <1>3, <2>1, WelcomeKept
<1> QED  BY <1>5, <1>6

\* Whoever is logged in to the account of his nick may have it; anybody else is excused.
LEMMA LoginKept ==
    ASSUME Inv, WInv, HubLogin
    PROVE  WInv'
<1> DEFINE a == Head(toIrc).acct
           c == Target
           acts == c \in Here /\ (a # None \/ conn[c].acct # None)
           m == [k |-> "SVCACCOUNT", c |-> c, acct |-> a]
           out == IF acts /\ watch /\ conn[c].st = "user" THEN <<m>> ELSE << >>
           k == IF acts THEN [conn[c] EXCEPT !.acct = a] ELSE conn[c]
<1>1. /\ up /\ Head(toIrc) \in IrcLine /\ Head(toIrc).k = "SVSLOGIN" /\ Head(toIrc).c = c /\ c \in Conn
      /\ toIrc # << >> /\ toIrc' = Tail(toIrc) /\ LinkTyped /\ Watching
  BY LineRead DEF HubLogin, Line, Target, Inv, WInv
<1>2. a \in Anyone  BY <1>1, IrcForm
<1>3. UNCHANGED <<up, watch, store, view>>  BY DEF HubLogin, ByHub, ns
<1>4. conn \in [Conn -> KConn] /\ conn[c] \in KConn  BY <1>1 DEF Inv, HubTyped
<1>5. conn' = [conn EXCEPT ![c] = k] /\ toNs' = toNs \o out /\ k.st = conn[c].st /\ k.nick = conn[c].nick
      /\ k.acct = IF acts THEN a ELSE conn[c].acct
  <2>1. conn' = IF acts THEN [conn EXCEPT ![c].acct = a] ELSE conn  BY DEF HubLogin
  <2>2. toNs' = toNs \o out  BY DEF HubLogin, Tell, Feed
  <2>3. k.st = conn[c].st /\ k.nick = conn[c].nick /\ k.acct = IF acts THEN a ELSE conn[c].acct  BY <1>4 DEF KConn
  <2>4. conn' = [conn EXCEPT ![c] = k]  BY <1>1, <1>4, <2>1
  <2> QED  BY <2>2, <2>3, <2>4
<1>6. excused' = IF acts /\ a # OwnerOf(conn[c].nick) THEN excused \cup ({c} \cap Users) ELSE excused  BY DEF HubLogin
<1>7. m \in NsLine /\ m.k = "SVCACCOUNT" /\ m.c = c  BY <1>1, <1>2, NsLines
<1> HIDE DEF m
<1>8. out \in Seq(NsLine) /\ Says(c, k, out) /\ (~acts => out = << >>)
  <2>1. CASE out = <<m>>  BY <1>7, <2>1, OneLine DEF Says
  <2>2. CASE out = << >>
    <3>1. << >> \in Seq(NsLine) /\ 1..Len(<< >>) = {}  BY OneLine
    <3> QED  BY <2>2, <3>1 DEF Says
  <2> QED  BY <2>1, <2>2
<1>9. Watching'  BY <1>1, <1>3, WatchingLeft
<1>10. ASSUME NEW d \in Conn \ {c}  PROVE (d \in excused => d \in excused') /\ \A b : Owed(d, b)
  <2>1. \A b : Owed(d, b)  BY <1>1, OrdersLeft DEF Owed
  <2> QED  BY <1>6, <2>1
<1>11. ASSUME watch, k.st = "user", c \notin excused'  PROVE Minded(c, k, out)
  <2>1. conn[c].st = "user" /\ c \in Users /\ c \in Here /\ conn[c].nick \in Nick  BY <1>1, <1>5, <1>11 DEF Users, Here, Inv, HubTyped
  <2>2. CASE acts
    <3>1. a = OwnerOf(conn[c].nick)  BY <1>6, <1>11, <2>1, <2>2
    <3>2. store \in Stores /\ Lone(store)  BY DEF Inv, NsTyped, WInv, Stores
    <3>3. Allowed(store, conn[c].nick, a)  BY <2>1, <3>1, <3>2, AllowedOwner
    <3> QED  BY <1>5, <2>2, <3>3 DEF Minded
  <2>3. CASE ~acts
    <3>1. a = None /\ conn[c].acct = None /\ k.acct = None  BY <1>5, <2>1, <2>3
    <3>2. Owed(c, None)  BY <1>1, <3>1, OrdersLeft DEF Owed
    <3>3. \A i \in 1..Len(out) : ~About(out[i], c)
      <4>1. 1..Len(<< >>) = {}  BY OneLine
      <4> QED  BY <1>8, <2>3, <4>1
    <3>4. c \notin excused  BY <1>6, <1>11, <2>3
    <3> QED  BY <1>5, <2>1, <3>1, <3>2, <3>3, <3>4 DEF Minded
  <2> QED  BY <2>2, <2>3
<1>12. k.st \in {"none", "open"} => conn[c].st \in {"none", "open"}  BY <1>5
<1> HIDE DEF k, out
<1> QED  BY <1>1, <1>3, <1>5, <1>8, <1>9, <1>10, <1>11, <1>12, HubKept

LEMMA SvsnickKept ==
    ASSUME Inv, WInv, HubSvsnick
    PROVE  WInv'
<1> DEFINE n == Head(toIrc).nick
           c == Target
<1>1. /\ Head(toIrc) \in IrcLine /\ Head(toIrc).k = "SVSNICK" /\ Head(toIrc).c = c /\ c \in Conn /\ n \in Nick
      /\ toIrc # << >> /\ toIrc' = Tail(toIrc) /\ LinkTyped /\ Watching
  BY LineRead, IrcForm DEF HubSvsnick, Line, Target, Inv, WInv
<1>2. UNCHANGED <<up, watch, store, view>>  BY DEF HubSvsnick, ByHub, ns
<1>3. Watching'  BY <1>1, <1>2, WatchingLeft
<1>4. \A d \in Conn \ {c} : \A b : Owed(d, b)  BY <1>1, OrdersLeft DEF Owed
<1>5. CASE c \in Users /\ (~Taken(n) \/ conn[c].nick = n)
  <2>1. /\ conn' = [conn EXCEPT ![c].nick = n] /\ Tell(Feed(c, [k |-> "SVCNICK", c |-> c, nick |-> n]))
        /\ excused' = excused \ {c}
    BY <1>5 DEF HubSvsnick
  <2> QED  BY <1>1, <1>2, <1>3, <1>4, <1>5, <2>1, NickKept
<1>6. CASE ~(c \in Users /\ (~Taken(n) \/ conn[c].nick = n))
  <2>1. conn' = conn /\ toNs' = toNs \o << >> /\ excused' = excused \cup ({c} \cap Users)  BY <1>6 DEF HubSvsnick, Tell
  <2>2. conn' = [conn EXCEPT ![c] = conn[c]]  BY <1>1, <2>1 DEF Inv, HubTyped
  <2>3. << >> \in Seq(NsLine) /\ Says(c, conn[c], << >>)
    <3>1. << >> \in Seq(NsLine) /\ 1..Len(<< >>) = {}  BY OneLine
    <3> QED  BY <3>1 DEF Says
  <2>4. conn[c].st = "user" => c \in excused'  BY <1>1, <2>1 DEF Users
  <2>5. \A d \in Conn \ {c} : (d \in excused => d \in excused') /\ \A b : Owed(d, b)  BY <1>4, <2>1
  <2> QED  BY <1>1, <1>2, <1>3, <2>1, <2>2, <2>3, <2>4, <2>5, HubKept
<1> QED  BY <1>5, <1>6

\* Everyone is introduced, and so looked at.
LEMMA WatchKept ==
    ASSUME Inv, WInv, HubWatch
    PROVE  WInv'
<1>1. Line("SVCWATCH") /\ watch' = TRUE /\ UNCHANGED <<conn, up, store, view, excused>>  BY DEF HubWatch, ByHub, ns
<1>2. PICK s \in [1..Cardinality(Users) -> Users] :
        (\A c \in Users : \E i \in DOMAIN s : s[i] = c) /\ Tell([i \in DOMAIN s |-> User(s[i], conn[s[i]])])
  BY DEF HubWatch
<1> DEFINE n == Cardinality(Users)
           out == [i \in 1..n |-> User(s[i], conn[s[i]])]
<1>3. n \in Nat /\ \A i, j \in 1..n : s[i] = s[j] => i = j
  <2>1. Users \in SUBSET Conn  BY DEF Users
  <2>2. IsFiniteSet(Users) /\ n \in Nat  BY <2>1, Consts, FS_Subset, FS_CardinalityType
  <2>3. IsFiniteSet(1..n) /\ Cardinality(1..n) = n
    <3>1. 1 \in Int /\ n \in Int /\ IsFiniteSet(1..n) /\ Cardinality(1..n) = IF 1 > n THEN 0 ELSE n - 1 + 1
      BY <2>2, FS_Interval
    <3> HIDE DEF n
    <3> QED  BY <2>2, <3>1
  <2>4. s \in Surjection(1..n, Users)  BY <1>2 DEF Surjection
  <2>5. s \in Injection(1..n, Users)  BY <2>3, <2>4, FS_SurjSameCardinalityImpliesInj
  <2> QED  BY <2>2, <2>5 DEF Injection, IsInjective
<1>4. toNs \in Seq(NsLine) /\ toNs' = toNs \o out  BY <1>2 DEF Tell, Inv, LinkTyped
<1>5. ASSUME NEW i \in 1..n
      PROVE  s[i] \in Conn /\ conn[s[i]].st = "user" /\ out[i] \in NsLine /\ out[i].k = "SVCUSER" /\ out[i].c = s[i]
  <2>1. s[i] \in Users /\ s[i] \in Conn /\ conn[s[i]].st = "user"  BY DEF Users
  <2>2. conn[s[i]].nick \in Nick /\ conn[s[i]].acct \in Anyone  BY <2>1 DEF Inv, HubTyped, KConn
  <2> QED  BY <2>1, <2>2, NsLines DEF User
<1>6. \A c \in Conn : conn[c].st = "user" => \E i \in 1..n : s[i] = c  BY <1>2 DEF Users
<1>7. out \in Seq(NsLine) /\ Len(out) = n
  <2>1. out \in [1..n -> NsLine]  BY <1>5
  <2> HIDE DEF out, n
  <2> QED  BY <1>3, <2>1
<1> HIDE DEF out, n
<1>8. /\ \A i \in 1..Len(toNs') :
           \/ i \in 1..Len(toNs) /\ toNs'[i] = toNs[i]
           \/ i - Len(toNs) \in 1..n /\ toNs'[i] = out[i - Len(toNs)]
      /\ Len(toNs) \in Nat
  BY <1>4, <1>7, QueueJoined
<1>9. up /\ ~watch /\ \A i \in 1..Len(toIrc') : toIrc'[i].k # "SVCWATCH"
  <2>1. up /\ toIrc # << >> /\ toIrc' = Tail(toIrc) /\ Head(toIrc).k = "SVCWATCH" /\ toIrc \in Seq(IrcLine)
    BY <1>1 DEF Line, Inv, LinkTyped
  <2>2. /\ Head(toIrc) = toIrc[1] /\ 1 \in 1..Len(toIrc)
        /\ \A i \in 1..Len(toIrc') : i + 1 \in 1..Len(toIrc) /\ toIrc'[i] = toIrc[i + 1]
    BY <2>1, QueueRest
  <2>3. ~watch /\ \A j \in 1..Len(toIrc) : toIrc[j].k = "SVCWATCH" => j = 1  BY <2>1, <2>2 DEF WInv, Watching
  <2>4. ASSUME NEW i \in 1..Len(toIrc')  PROVE toIrc'[i].k # "SVCWATCH"
    <3>1. i + 1 # 1  OBVIOUS
    <3> QED  BY <2>2, <2>3, <3>1
  <2> QED  BY <2>1, <2>3, <2>4
<1>10. \A c \in Conn : view[c] = None /\ ~Introduced(toNs, c)  BY <1>9 DEF WInv, Newcomers
<1>11. \A i \in 1..Len(toNs') : toNs'[i].k = "SVCUSER" => i - Len(toNs) \in 1..n /\ toNs'[i] = out[i - Len(toNs)]
  <2>1. ASSUME NEW i \in 1..Len(toNs)  PROVE toNs[i].k # "SVCUSER"
    <3>1. toNs[i].k = "SVCUSER" => toNs[i].c \in Conn  BY <1>4, NsForm
    <3> QED  BY <1>10, <3>1 DEF Introduced
  <2> QED  BY <1>8, <2>1
<1>12. Lone(store)'  BY <1>1 DEF WInv, Lone, Filed
<1>13. Newcomers'
  <2>1. SUFFICES ASSUME NEW c \in Conn, conn[c].st \in {"none", "open"}  PROVE view[c] = None /\ ~Introduced(toNs', c)
    BY <1>1 DEF Newcomers
  <2>2. ~Introduced(toNs', c)  BY <1>5, <1>11, <2>1 DEF Introduced
  <2> QED  BY <1>10, <2>2
<1>14. Once'
  <2>1. SUFFICES ASSUME NEW i \in 1..Len(toNs'), toNs'[i].k = "SVCUSER"
                 PROVE  /\ view[toNs'[i].c] = None
                        /\ \A j \in 1..Len(toNs') : toNs'[j].k = "SVCUSER" /\ toNs'[j].c = toNs'[i].c => j = i
    BY <1>1 DEF Once
  <2>2. i - Len(toNs) \in 1..n /\ toNs'[i] = out[i - Len(toNs)]  BY <1>11, <2>1
  <2>3. view[toNs'[i].c] = None  BY <1>5, <1>10, <2>2
  <2>4. ASSUME NEW j \in 1..Len(toNs'), toNs'[j].k = "SVCUSER", toNs'[j].c = toNs'[i].c  PROVE j = i
    <3>1. j - Len(toNs) \in 1..n /\ toNs'[j] = out[j - Len(toNs)]  BY <1>11, <2>4
    <3>2. s[j - Len(toNs)] = s[i - Len(toNs)]  BY <1>5, <2>2, <2>4, <3>1
    <3>3. j - Len(toNs) = i - Len(toNs)  BY <1>3, <2>2, <3>1, <3>2
    <3> QED  BY <1>8, <3>3
  <2> QED  BY <2>3, <2>4
<1>15. Watching'  BY <1>9 DEF Watching
<1>16. Guarded'
  <2>1. SUFFICES ASSUME NEW c \in Conn, conn[c].st = "user"  PROVE Asking(toNs', c)
    BY <1>1 DEF Guarded, Watched
  <2>2. PICK i \in 1..n : s[i] = c  BY <1>6, <2>1
  <2>3. About(out[i], c) /\ out[i].k # "SVCACCOUNT"  BY <1>5, <2>2 DEF About
  <2>4. \A j \in 1..n : About(out[j], c) => j = i  BY <1>3, <1>5, <2>2 DEF About
  <2> QED  BY <1>4, <1>7, <2>3, <2>4, AboutSaid
<1> QED  BY <1>12, <1>13, <1>14, <1>15, <1>16 DEF WInv

LEMMA HubStepKept ==
    ASSUME Inv, WInv, UNCHANGED play, HubStep
    PROVE  WInv'
<1>1. conn \in [Conn -> KConn] /\ \A c \in Conn : conn[c] \in KConn  BY DEF Inv, HubTyped
<1>2. << >> \in Seq(NsLine) /\ Len(<< >>) = 0 /\ 1..Len(<< >>) = {}  BY OneLine
<1>3. toNs = toNs \o << >>  BY DEF Inv, LinkTyped
<1>4. ASSUME NEW k, Line(k), k \notin {"SVCWATCH", "SVSLOGIN", "SVSNICK"}, ByHub, watch' = watch
      PROVE  DullRead /\ UNCHANGED <<up, watch, store, view>> /\ Target \in Conn
  <2>1. Target \in Conn  BY <1>4, LineRead
  <2> QED  BY <1>4, <2>1 DEF DullRead, Line, ByHub, ns
<1>5. ASSUME NEW c \in Conn, UNCHANGED <<conn, toNs, up, watch, store, view, excused>>, DullRead  PROVE WInv'
  <2>1. conn' = [conn EXCEPT ![c] = conn[c]]  BY <1>1, <1>5
  <2>2. toNs' = toNs \o << >>  BY <1>3, <1>5
  <2> QED  BY <1>1, <1>2, <1>5, <2>1, <2>2, HubDull
<1>6. CASE HubWatch  BY <1>6, WatchKept
<1>7. CASE HubLogin  BY <1>7, LoginKept
<1>8. CASE HubSvsnick  BY <1>8, SvsnickKept
<1>9. CASE HubKill
  <2>1. Line("KILL") /\ ByHub /\ watch' = watch  BY <1>9 DEF HubKill
  <2>2. DullRead /\ UNCHANGED <<up, watch, store, view>> /\ Target \in Conn  BY <1>4, <2>1
  <2>3. CASE Target \notin Here  BY <1>5, <1>9, <2>2, <2>3 DEF HubKill
  <2>4. CASE Target \in Here  BY <1>9, <2>2, <2>4, GoneKept DEF HubKill
  <2> QED  BY <2>3, <2>4
<1>10. CASE HubChallenge
  <2>1. Line("CHALLENGE") /\ ByHub /\ watch' = watch  BY <1>10 DEF HubChallenge
  <2>2. DullRead /\ UNCHANGED <<up, watch, store, view>> /\ Target \in Conn  BY <1>4, <2>1
  <2> QED  BY <1>5, <1>10, <2>2 DEF HubChallenge
<1>11. CASE HubVerdict
  <2>1. Line("VERDICT") /\ ByHub /\ UNCHANGED <<watch, excused>>  BY <1>11 DEF HubVerdict
  <2>2. DullRead /\ UNCHANGED <<up, watch, store, view>> /\ Target \in Conn  BY <1>4, <2>1
  <2>3. CASE Target \notin Here \/ conn[Target].mech = None  BY <1>5, <1>11, <2>1, <2>2, <2>3 DEF HubVerdict
  <2>4. CASE ~(Target \notin Here \/ conn[Target].mech = None)  BY <1>11, <2>1, <2>2, <2>4, FinishKept DEF HubVerdict
  <2> QED  BY <2>3, <2>4
<1>12. CASE HubRegResult
  <2>1. Line("SVCREGRESULT") /\ ByHub /\ UNCHANGED <<watch, toNs, excused>>  BY <1>12 DEF HubRegResult
  <2>2. DullRead /\ UNCHANGED <<up, watch, store, view>> /\ Target \in Conn  BY <1>4, <2>1
  <2> DEFINE k == IF Target \in Here THEN [conn[Target] EXCEPT !.style = "legacy"] ELSE conn[Target]
  <2>3. k \in KConn /\ k.st = conn[Target].st /\ k.nick = conn[Target].nick /\ k.acct = conn[Target].acct
    BY <1>1, <2>2 DEF KConn
  <2>4. conn' = [conn EXCEPT ![Target] = k]
    <3>1. CASE Target \in Here  BY <1>1, <1>12, <2>2, <3>1 DEF HubRegResult
    <3>2. CASE Target \notin Here  BY <1>1, <1>12, <2>2, <3>2 DEF HubRegResult
    <3> QED  BY <3>1, <3>2
  <2>5. toNs' = toNs \o << >>  BY <1>3, <2>1
  <2> HIDE DEF k
  <2> QED  BY <1>2, <2>1, <2>2, <2>3, <2>4, <2>5, HubDull
<1> QED  BY <1>6, <1>7, <1>8, <1>9, <1>10, <1>11, <1>12 DEF HubStep

(***************************************************************************)
(* NickServ is told of a user.                                             *)
(***************************************************************************)
\* Who is not spoken of keeps his nick.
LEMMA LeadsSame ==
    ASSUME NEW p, NEW q \in Seq(NsLine), NEW r, Leads(p, q, r), NEW c \in Conn,
           \A i \in 1..Len(q) : ~(q[i].k \in {"SVCUSER", "SVCNICK", "SVCQUIT"} /\ q[i].c = c)
    PROVE  p[c] = r[c]
<1>1. PICK h : Passes(h, p, q, r)  BY DEF Leads
<1> DEFINE T == {i \in 0..Len(q) : h[i][c] # p[c]}
<1>2. Len(q) \in Nat /\ 0 \in 0..Len(q) /\ Len(q) \in 0..Len(q)  OBVIOUS
<1>3. h[0] = p /\ h[Len(q)] = r  BY <1>1 DEF Passes
<1>4. SUFFICES ASSUME T # {}  PROVE FALSE  BY <1>2, <1>3
<1>5. PICK i \in T : \A j \in T : ~(<<j, i>> \in OpToRel(<, Nat))
  <2>1. T \subseteq Nat  BY <1>2
  <2> HIDE DEF T
  <2> QED  BY <1>4, <2>1, NatLessThanWellFounded, WFMin
<1>6. i # 0 /\ i \in 0..Len(q)  BY <1>3
<1>7. i \in 1..Len(q) /\ i - 1 \in 0..Len(q) /\ i - 1 \in Nat /\ i \in Nat /\ i - 1 < i  BY <1>2, <1>6
<1>8. i - 1 \notin T
  <2>1. <<i - 1, i>> \in OpToRel(<, Nat)  BY <1>7 DEF OpToRel
  <2> QED  BY <1>5, <2>1
<1>9. h[i - 1][c] = p[c]  BY <1>7, <1>8
<1>10. h[i] = Moved(h[i - 1], q[i]) /\ h[i - 1] \in Pictures  BY <1>1, <1>7 DEF Passes
<1>11. Moved(h[i - 1], q[i])[c] = h[i - 1][c]  BY <1>7, <1>10 DEF Moved, Pictures
<1> QED  BY <1>5, <1>9, <1>10, <1>11

\* A newcomer is told of once: after the line is read he is not told of again.
LEMMA OnceLeft ==
    ASSUME LinkTyped, Once, toNs' = toNs \/ (toNs # << >> /\ toNs' = Tail(toNs))
    PROVE  /\ \A c : Introduced(toNs', c) => Introduced(toNs, c)
           /\ toNs # << >> /\ toNs' = Tail(toNs) /\ Head(toNs).k = "SVCUSER" => ~Introduced(toNs', Head(toNs).c)
           /\ (\A c : view[c] = None /\ Introduced(toNs', c) => view'[c] = None) => Once'
<1>1. CASE toNs # << >> /\ toNs' = Tail(toNs)
  <2>1. /\ Head(toNs) = toNs[1] /\ 1 \in 1..Len(toNs)
        /\ \A i \in 1..Len(toNs') : i + 1 \in 1..Len(toNs) /\ toNs'[i] = toNs[i + 1]
    BY <1>1, QueueRest DEF LinkTyped
  <2>2. ASSUME NEW i \in 1..Len(toNs'), toNs'[i].k = "SVCUSER"
        PROVE  /\ view[toNs'[i].c] = None
               /\ \A j \in 1..Len(toNs') : toNs'[j].k = "SVCUSER" /\ toNs'[j].c = toNs'[i].c => j = i
               /\ ~(toNs[1].k = "SVCUSER" /\ toNs[1].c = toNs'[i].c)
    <3> DEFINE n == i + 1
    <3>1. n \in 1..Len(toNs) /\ toNs'[i] = toNs[n] /\ n # 1  BY <2>1
    <3>2. /\ view[toNs[n].c] = None
          /\ \A j \in 1..Len(toNs) : toNs[j].k = "SVCUSER" /\ toNs[j].c = toNs[n].c => j = n
      <4> HIDE DEF n
      <4> QED  BY <2>2, <3>1 DEF Once
    <3>3. ASSUME NEW j \in 1..Len(toNs'), toNs'[j].k = "SVCUSER", toNs'[j].c = toNs'[i].c  PROVE j = i
      <4>1. j + 1 \in 1..Len(toNs) /\ toNs'[j] = toNs[j + 1]  BY <2>1
      <4>2. j + 1 = i + 1  BY <3>1, <3>2, <3>3, <4>1
      <4> QED  BY <4>2
    <3> HIDE DEF n
    <3> QED  BY <2>1, <3>1, <3>2, <3>3
  <2>3. \A c : Introduced(toNs', c) => Introduced(toNs, c)
    <3>1. ASSUME NEW c, NEW i \in 1..Len(toNs'), toNs'[i].k = "SVCUSER", toNs'[i].c = c  PROVE Introduced(toNs, c)
      BY <2>1, <3>1 DEF Introduced
    <3> QED  BY <3>1 DEF Introduced
  <2>4. Head(toNs).k = "SVCUSER" => ~Introduced(toNs', Head(toNs).c)  BY <2>1, <2>2 DEF Introduced
  <2>5. (\A c : view[c] = None /\ Introduced(toNs', c) => view'[c] = None) => Once'  BY <2>2 DEF Once, Introduced
  <2> QED  BY <2>3, <2>4, <2>5
<1>2. CASE toNs' = toNs /\ ~(toNs # << >> /\ toNs' = Tail(toNs))
  <2>1. (\A c : view[c] = None /\ Introduced(toNs', c) => view'[c] = None) => Once'  BY <1>2 DEF Once, Introduced
  <2> QED  BY <1>2, <2>1
<1> QED  BY <1>1, <1>2

\* A line of the feed is read: about whom nothing else is said is looked at now.
LEMMA FeedKept ==
    ASSUME Inv, Inv', WInv, up, toNs # << >>, toNs' = Tail(toNs), NEW m, m = Head(toNs), m.k \in Feeds,
           UNCHANGED <<conn, up, watch, toIrc, store, excused>>,
           \A d \in Conn \ {m.c} : view'[d] = view[d],
           view[m.c] = None /\ m.k # "SVCUSER" => view'[m.c] = None,
           Enforce /\ m.k \in {"SVCUSER", "SVCNICK"} /\ view'[m.c] # None /\ view'[m.c].due = None
             => OwnerOf(view'[m.c].nick) \in {None, view'[m.c].acct}
    PROVE  WInv'
<1> USE DEF Inv, WInv
<1>1. toNs \in Seq(NsLine) /\ toNs' \in Seq(NsLine) /\ m = toNs[1] /\ 1 \in 1..Len(toNs) /\ LinkTyped /\ m \in NsLine
  BY QueueRest DEF LinkTyped
<1>2. m.c \in Conn  BY <1>1, NsForm DEF Feeds
<1>3. \A c : Introduced(toNs', c) => Introduced(toNs, c)  BY <1>1, OnceLeft
<1>4. m.k = "SVCUSER" => ~Introduced(toNs', m.c)  BY <1>1, OnceLeft
<1>5. (\A c : view[c] = None /\ Introduced(toNs', c) => view'[c] = None) => Once'  BY <1>1, OnceLeft
<1>6. m.k = "SVCUSER" => Introduced(toNs, m.c)  BY <1>1 DEF Introduced
<1>7. Lone(store)'  BY DEF Lone, Filed
<1>8. Newcomers'
  <2>1. SUFFICES ASSUME NEW c \in Conn, conn[c].st \in {"none", "open"} \/ (up /\ ~watch)
                 PROVE  view'[c] = None /\ ~Introduced(toNs', c)
    BY DEF Newcomers
  <2>2. view[c] = None /\ ~Introduced(toNs, c)  BY <2>1 DEF Newcomers
  <2> QED  BY <1>3, <1>6, <2>2
<1>9. Once'
  <2>1. ASSUME NEW c, view[c] = None, Introduced(toNs', c)  PROVE view'[c] = None
    <3>1. c \in Conn
      <4>1. PICK i \in 1..Len(toNs') : toNs'[i].k = "SVCUSER" /\ toNs'[i].c = c  BY <2>1 DEF Introduced
      <4>2. toNs'[i] \in NsLine  BY <1>1
      <4> QED  BY <4>1, <4>2, NsForm
    <3> QED  BY <1>4, <2>1, <3>1
  <2> QED  BY <1>5, <2>1
<1>10. Watching'  BY DEF Watching
<1>11. Guarded'
  <2>1. SUFFICES ASSUME watch, Enforce, NEW d \in Conn, conn[d].st = "user", d \notin excused  PROVE Watched(d)'
    BY DEF Guarded
  <2>2. Watched(d)  BY <2>1 DEF Guarded
  <2>3. ~(m.k = "SVCQUIT" /\ m.c = d)  BY <1>1, <2>1 DEF Gone
  <2>4. CASE Allowed(store, conn[d].nick, conn[d].acct)
    <3>1. store' = store /\ conn' = conn  OBVIOUS
    <3> QED  BY <2>4, <3>1 DEF Watched
  <2>5. CASE Coming(toIrc, d, conn[d].acct) \/ Pushed(toIrc, d)  BY <2>5 DEF Watched
  <2>6. CASE Still(toNs, d) /\ view[d] # None /\ view[d].due # None
    <3>1. Still(toNs', d) /\ ~About(m, d)  BY <1>1, <2>6, AboutRest
    <3>2. m.c # d  BY <2>3, <3>1 DEF About, Feeds
    <3>3. view'[d] = view[d]  BY <3>2
    <3> QED  BY <2>6, <3>1, <3>3 DEF Watched
  <2>7. CASE Asking(toNs, d) /\ Asking(toNs', d)  BY <2>7 DEF Watched
  <2>8. CASE Asking(toNs, d) /\ ~Asking(toNs', d)
    <3>1. About(m, d) /\ m.k # "SVCACCOUNT" /\ Still(toNs', d)  BY <1>1, <2>8, AboutRest
    <3>2. m.c = d /\ m.k \in {"SVCUSER", "SVCNICK"}  BY <3>1 DEF About
    <3>3. ~Introduced(toNs', d) /\ \A i \in 1..Len(toNs') : ~Sets(toNs'[i], d)  BY <3>1 DEF Still, About, Introduced, Sets
    <3>4. /\ view'[d] # None
          /\ Right(view', toNs', d, conn[d].acct) \/ Coming(toIrc, d, conn[d].acct)
      <4>1. Accounts' /\ watch' = watch /\ conn' = conn /\ toIrc' = toIrc  OBVIOUS
      <4> QED  BY <2>1, <3>3, <4>1 DEF Accounts
    <3>5. CASE Coming(toIrc, d, conn[d].acct)  BY <3>5 DEF Watched
    <3>6. CASE Right(view', toNs', d, conn[d].acct)
      <4>1. view'[d].acct = conn[d].acct  BY <3>3, <3>6 DEF Right
      <4>2. view'[d].nick = conn[d].nick
        <5>1. Named' /\ Gone' /\ NsTyped' /\ up' = up /\ watch' = watch /\ conn' = conn  OBVIOUS
        <5>2. Leads(Picture(view'), toNs', AtHub(conn, watch))  BY <5>1 DEF Named
        <5>3. \A i \in 1..Len(toNs') : ~(toNs'[i].k \in {"SVCUSER", "SVCNICK", "SVCQUIT"} /\ toNs'[i].c = d)
          BY <2>1, <3>1, <5>1 DEF Still, About, Gone
        <5>4. Picture(view')[d] = AtHub(conn, watch)[d]
          <6> DEFINE p == Picture(view')
                     q == toNs'
                     r == AtHub(conn, watch)
          <6>1. Leads(p, q, r) /\ q \in Seq(NsLine)  BY <1>1, <5>2
          <6>2. \A i \in 1..Len(q) : ~(q[i].k \in {"SVCUSER", "SVCNICK", "SVCQUIT"} /\ q[i].c = d)  BY <5>3
          <6> HIDE DEF p, q, r
          <6>3. p[d] = r[d]  BY <6>1, <6>2, LeadsSame
          <6> QED  BY <6>3 DEF p, r
        <5>5. AtHub(conn, watch)[d] = conn[d].nick  BY <2>1 DEF AtHub
        <5>6. Picture(view')[d] = view'[d].nick  BY <3>4, <5>1, SeenForm DEF NsTyped
        <5> QED  BY <5>4, <5>5, <5>6
      <4>3. CASE view'[d].due # None  BY <3>1, <3>4, <4>3 DEF Watched
      <4>4. CASE view'[d].due = None
        <5>1. OwnerOf(conn[d].nick) \in {None, conn[d].acct}  BY <2>1, <3>2, <3>4, <4>1, <4>2, <4>4
        <5>2. conn[d].nick \in Nick /\ store \in Stores  BY <2>1 DEF HubTyped, NsTyped, Stores
        <5>3. Allowed(store, conn[d].nick, conn[d].acct)  BY <5>1, <5>2, AllowedOwner
        <5>4. store' = store /\ conn' = conn  OBVIOUS
        <5> QED  BY <5>3, <5>4 DEF Watched
      <4> QED  BY <4>3, <4>4
    <3> QED  BY <3>4, <3>5, <3>6
  <2> QED  BY <2>2, <2>4, <2>5, <2>6, <2>7, <2>8 DEF Watched
<1> QED  BY <1>7, <1>8, <1>9, <1>10, <1>11

\* The four lines of the feed (ev_user, ev_nick, ev_quit, ev_account).
LEMMA FeedsKept ==
    ASSUME Inv, Inv', WInv, NsUser \/ NsNick \/ NsQuit \/ NsAccount
    PROVE  WInv'
<1> DEFINE m == Msg
           c == m.c
<1>1. view \in [Conn -> Seen \cup {None}] /\ toIrc \in Seq(IrcLine)  BY DEF Inv, NsTyped, LinkTyped
<1>2. ASSUME NEW k \in Feeds, Heard(k), Out(<< >>), ByNs, UNCHANGED <<store, ghosts>>
      PROVE  /\ up /\ toNs # << >> /\ toNs' = Tail(toNs) /\ m = Head(toNs) /\ m \in NsLine /\ m.k = k /\ m.k \in Feeds
             /\ UNCHANGED <<conn, up, watch, toIrc, store, excused>>
  BY <1>1, <1>2, HeardForm DEF Out, ByNs, hub, ghosts
<1>3. \A n, a : Due(n, a) = None /\ Enforce => OwnerOf(n) \in {None, a}  BY DEF Due
<1>4. CASE NsUser
  <2>1. Heard("SVCUSER") /\ Out(<< >>) /\ ByNs /\ UNCHANGED <<store, ghosts>> /\ "SVCUSER" \in Feeds  BY <1>4 DEF NsUser, Feeds
  <2>2. /\ up /\ toNs # << >> /\ toNs' = Tail(toNs) /\ m = Head(toNs) /\ m \in NsLine /\ m.k = "SVCUSER" /\ m.k \in Feeds
        /\ UNCHANGED <<conn, up, watch, toIrc, store, excused>>
    BY <1>2, <2>1
  <2>3. c \in Conn  BY <2>2, NsForm
  <2>4. view[c] = None
    <3>1. m = toNs[1] /\ 1 \in 1..Len(toNs)  BY <2>2, QueueRest DEF Inv, LinkTyped
    <3> QED  BY <2>2, <3>1 DEF WInv, Once
  <2> DEFINE u == [nick |-> m.nick, acct |-> m.acct, due |-> Due(m.nick, m.acct)]
  <2>5. view' = [view EXCEPT ![c] = u]  BY <1>4, <2>4 DEF NsUser
  <2>6. u.nick = m.nick /\ u.acct = m.acct /\ u.due = Due(m.nick, m.acct)  OBVIOUS
  <2> HIDE DEF u, m
  <2>7. view'[c] = u /\ \A d \in Conn \ {c} : view'[d] = view[d]  BY <1>1, <2>3, <2>5
  <2> QED  BY <1>3, <2>2, <2>6, <2>7, FeedKept
<1>5. CASE NsNick
  <2>1. Heard("SVCNICK") /\ Out(<< >>) /\ ByNs /\ UNCHANGED <<store, ghosts>> /\ "SVCNICK" \in Feeds  BY <1>5 DEF NsNick, Feeds
  <2>2. /\ up /\ toNs # << >> /\ toNs' = Tail(toNs) /\ m = Head(toNs) /\ m \in NsLine /\ m.k = "SVCNICK" /\ m.k \in Feeds
        /\ UNCHANGED <<conn, up, watch, toIrc, store, excused>>
    BY <1>2, <2>1
  <2>3. c \in Conn  BY <2>2, NsForm
  <2>4. CASE view[c] = None
    <3>1. view' = view  BY <1>5, <2>4 DEF NsNick
    <3> HIDE DEF m
    <3> QED  BY <2>2, <2>4, <3>1, FeedKept
  <2>5. CASE view[c] # None
    <3> DEFINE u == [view[c] EXCEPT !.nick = m.nick, !.due = Due(m.nick, view[c].acct)]
    <3>1. view' = [view EXCEPT ![c].nick = m.nick, ![c].due = Due(m.nick, view[c].acct)]  BY <1>5, <2>5 DEF NsNick
    <3>2. view' = [view EXCEPT ![c] = u]  BY <1>1, <2>3, <2>5, <3>1
    <3>3. u.nick = m.nick /\ u.acct = view[c].acct /\ u.due = Due(m.nick, view[c].acct)
      <4>1. view[c] \in Seen  BY <1>1, <2>3, <2>5
      <4> QED  BY <4>1 DEF Seen
    <3> HIDE DEF u, m
    <3>4. view'[c] = u /\ \A d \in Conn \ {c} : view'[d] = view[d]  BY <1>1, <2>3, <3>2
    <3> QED  BY <1>3, <2>2, <2>5, <3>3, <3>4, FeedKept
  <2> QED  BY <2>4, <2>5
<1>6. CASE NsQuit
  <2>1. Heard("SVCQUIT") /\ Out(<< >>) /\ ByNs /\ UNCHANGED <<store, ghosts>> /\ "SVCQUIT" \in Feeds  BY <1>6 DEF NsQuit, Feeds
  <2>2. /\ up /\ toNs # << >> /\ toNs' = Tail(toNs) /\ m = Head(toNs) /\ m \in NsLine /\ m.k = "SVCQUIT" /\ m.k \in Feeds
        /\ UNCHANGED <<conn, up, watch, toIrc, store, excused>>
    BY <1>2, <2>1
  <2>3. c \in Conn /\ view' = [view EXCEPT ![c] = None]  BY <1>6, <2>2, NsForm DEF NsQuit
  <2> HIDE DEF m
  <2>4. view'[c] = None /\ \A d \in Conn \ {c} : view'[d] = view[d]  BY <1>1, <2>3
  <2> QED  BY <2>2, <2>4, FeedKept
<1>7. CASE NsAccount
  <2>1. Heard("SVCACCOUNT") /\ Out(<< >>) /\ ByNs /\ UNCHANGED <<store, ghosts>> /\ "SVCACCOUNT" \in Feeds
    BY <1>7 DEF NsAccount, Feeds
  <2>2. /\ up /\ toNs # << >> /\ toNs' = Tail(toNs) /\ m = Head(toNs) /\ m \in NsLine /\ m.k = "SVCACCOUNT" /\ m.k \in Feeds
        /\ UNCHANGED <<conn, up, watch, toIrc, store, excused>>
    BY <1>2, <2>1
  <2>3. c \in Conn  BY <2>2, NsForm
  <2>4. view[c] = None => view' = view  BY <1>7 DEF NsAccount
  <2>5. \A d \in Conn \ {c} : view'[d] = view[d]
    <3>1. CASE view[c] = None  BY <2>4, <3>1
    <3>2. CASE view[c] # None
      <4>1. view' = [view EXCEPT ![c].acct = m.acct, ![c].due = IF m.acct = @ THEN None ELSE @]  BY <1>7, <3>2 DEF NsAccount
      <4> HIDE DEF m
      <4> QED  BY <1>1, <4>1
    <3> QED  BY <3>1, <3>2
  <2> HIDE DEF m
  <2> QED  BY <2>2, <2>4, <2>5, FeedKept
<1> QED  BY <1>4, <1>5, <1>6, <1>7

(***************************************************************************)
(* What else NickServ does.                                                *)
(***************************************************************************)
\* An order after which d is looked at again, or has logged in.
Answers(out, d) ==
    \E i \in 1..Len(out) : out[i].c = d /\ (out[i].k = "SVSNICK" \/ (out[i].k = "SVSLOGIN" /\ out[i].acct # None))

LEMMA Wider == ASSUME NEW S, NEW T, NEW q \in Seq(S) PROVE q \in Seq(S \cup T)
<1>1. Len(q) \in Nat /\ q \in [1..Len(q) -> S]  BY LenProperties
<1>2. q \in [1..Len(q) -> S \cup T]  BY <1>1
<1> QED  BY <1>1, <1>2

\* Nobody has got a new owner of his nick, and a deadline went with an order.
LEMMA NsKept ==
    ASSUME Inv, WInv, UNCHANGED <<conn, up, watch>>, NsRead, NEW S, NEW out \in Seq(S), Out(out),
           Lone(store'), \A i \in 1..Len(out) : out[i].k # "SVCWATCH", excused \subseteq excused',
           \A d \in Conn : view'[d] = None <=> view[d] = None,
           \A d \in Conn : \A b \in Nick :
             conn[d].st = "user" /\ d \notin excused' /\ Filed(store', conn[d].nick, b) => Filed(store, conn[d].nick, b),
           \A d \in Conn : view[d] # None /\ view[d].due # None => view'[d].due # None \/ Answers(out, d)
    PROVE  WInv'
<1> USE DEF Inv, WInv
<1>1. toNs \in Seq(NsLine) /\ toIrc \in Seq(IrcLine) /\ toIrc' = toIrc \o out /\ LinkTyped  BY DEF LinkTyped, Out
<1>2. \/ toNs' = toNs
      \/ toNs # << >> /\ toNs' = Tail(toNs) /\ \A c : ~About(Head(toNs), c)
  BY DEF NsRead, Feeds, About
<1>3. \A c : Introduced(toNs', c) => Introduced(toNs, c)  BY <1>1, <1>2, OnceLeft
<1>4. (\A c : view[c] = None /\ Introduced(toNs', c) => view'[c] = None) => Once'  BY <1>1, <1>2, OnceLeft
<1>5. \A c : (Asking(toNs, c) => Asking(toNs', c)) /\ (Still(toNs, c) => Still(toNs', c))
  <2>1. CASE toNs' = toNs  BY <2>1
  <2>2. CASE toNs # << >> /\ toNs' = Tail(toNs) /\ \A c : ~About(Head(toNs), c)  BY <1>1, <2>2, AboutRest
  <2> QED  BY <1>2, <2>1, <2>2
<1>6. /\ \A i \in 1..Len(toIrc) : i \in 1..Len(toIrc') /\ toIrc'[i] = toIrc[i]
      /\ \A i \in 1..Len(out) : i + Len(toIrc) \in 1..Len(toIrc') /\ toIrc'[i + Len(toIrc)] = out[i]
      /\ \A i \in 1..Len(toIrc') : \/ i \in 1..Len(toIrc) /\ toIrc'[i] = toIrc[i]
                                   \/ i - Len(toIrc) \in 1..Len(out) /\ toIrc'[i] = out[i - Len(toIrc)]
  <2> DEFINE A == S \cup IrcLine
  <2>1. toIrc \in Seq(A) /\ out \in Seq(A)
    <3>1. toIrc \in Seq(IrcLine \cup S)  BY <1>1, Wider
    <3>2. IrcLine \cup S = S \cup IrcLine  OBVIOUS
    <3> QED  BY <3>1, <3>2, Wider
  <2> HIDE DEF A
  <2> QED  BY <1>1, <2>1, QueueJoined
<1>7. Newcomers'
  <2>1. SUFFICES ASSUME NEW c \in Conn, conn[c].st \in {"none", "open"} \/ (up /\ ~watch)
                 PROVE  view'[c] = None /\ ~Introduced(toNs', c)
    BY DEF Newcomers
  <2>2. view[c] = None /\ ~Introduced(toNs, c)  BY <2>1 DEF Newcomers
  <2> QED  BY <1>3, <2>2
<1>8. Once'
  <2>1. ASSUME NEW c, Introduced(toNs', c)  PROVE c \in Conn
    <3>1. PICK i \in 1..Len(toNs) : toNs[i].k = "SVCUSER" /\ toNs[i].c = c  BY <1>3, <2>1 DEF Introduced
    <3>2. toNs[i] \in NsLine  BY <1>1
    <3> QED  BY <3>1, <3>2, NsForm
  <2> QED  BY <1>4, <2>1
<1>9. Watching'
  <2>1. \A i \in 1..Len(toIrc') : toIrc'[i].k = "SVCWATCH" => i \in 1..Len(toIrc) /\ toIrc'[i] = toIrc[i]  BY <1>6
  <2> QED  BY <2>1 DEF Watching
<1>10. Guarded'
  <2>1. SUFFICES ASSUME watch, Enforce, NEW d \in Conn, conn[d].st = "user", d \notin excused'  PROVE Watched(d)'
    BY DEF Guarded
  <2>2. Watched(d) /\ conn' = conn  BY <2>1 DEF Guarded
  <2>3. CASE Allowed(store, conn[d].nick, conn[d].acct)
    <3>1. Allowed(store', conn[d].nick, conn[d].acct)  BY <2>1, <2>3 DEF Allowed
    <3> QED  BY <2>2, <3>1 DEF Watched
  <2>4. CASE Coming(toIrc, d, conn[d].acct)
    <3>1. Coming(toIrc', d, conn[d].acct)  BY <1>6, <2>4 DEF Coming
    <3> QED  BY <2>2, <3>1 DEF Watched
  <2>5. CASE Pushed(toIrc, d)
    <3>1. Pushed(toIrc', d)  BY <1>6, <2>5 DEF Pushed
    <3> QED  BY <3>1 DEF Watched
  <2>6. CASE Asking(toNs, d)  BY <1>5, <2>6 DEF Watched
  <2>7. CASE Still(toNs, d) /\ view[d] # None /\ view[d].due # None
    <3>1. Still(toNs', d) /\ view'[d] # None  BY <1>5, <2>7
    <3>2. CASE view'[d].due # None  BY <3>1, <3>2 DEF Watched
    <3>3. CASE Answers(out, d)
      <4>1. PICK i \in 1..Len(out) : out[i].c = d /\ (out[i].k = "SVSNICK" \/ (out[i].k = "SVSLOGIN" /\ out[i].acct # None))
        BY <3>3 DEF Answers
      <4>2. i + Len(toIrc) \in 1..Len(toIrc') /\ toIrc'[i + Len(toIrc)] = out[i]  BY <1>6
      <4>3. CASE out[i].k = "SVSNICK"
        <5>1. Pushed(toIrc', d)  BY <4>1, <4>2, <4>3 DEF Pushed
        <5> QED  BY <5>1 DEF Watched
      <4>4. CASE out[i].k = "SVSLOGIN" /\ out[i].acct # None
        <5>1. Coming(toIrc', d, conn[d].acct)  BY <4>1, <4>2, <4>4 DEF Coming
        <5> QED  BY <2>2, <5>1 DEF Watched
      <4> QED  BY <4>1, <4>3, <4>4
    <3> QED  BY <2>7, <3>2, <3>3
  <2> QED  BY <2>2, <2>3, <2>4, <2>5, <2>6, <2>7 DEF Watched
<1> QED  BY <1>7, <1>8, <1>9, <1>10

\* No nick has got a new owner.
Fewer(t, s) == \A a \in Nick : t[a] # None => s[a] # None /\ t[a].nicks \subseteq s[a].nicks

\* The accounts give nobody a nick, and a deadline goes with an order only.
LEMMA NsStill ==
    ASSUME Inv, WInv, UNCHANGED <<conn, up, watch>>, NsRead, NEW S, NEW out \in Seq(S), Out(out),
           \A i \in 1..Len(out) : out[i].k # "SVCWATCH", Fewer(store', store), excused \subseteq excused',
           \A d \in Conn : view'[d] = None <=> view[d] = None,
           \A d \in Conn : view[d] # None /\ view[d].due # None => view'[d].due # None \/ Answers(out, d)
    PROVE  WInv'
<1>1. \A n, b \in Nick : Filed(store', n, b) => Filed(store, n, b)  BY DEF Fewer, Filed
<1>2. Lone(store')  BY <1>1 DEF Lone, WInv
<1>3. \A d \in Conn : \A b \in Nick :
        conn[d].st = "user" /\ d \notin excused' /\ Filed(store', conn[d].nick, b) => Filed(store, conn[d].nick, b)
  BY <1>1 DEF Inv, HubTyped
<1> QED  BY <1>2, <1>3, NsKept

\* Neither does the picture change.
LEMMA NsIdle ==
    ASSUME Inv, WInv, UNCHANGED <<conn, up, watch, view, excused>>, NsRead, NEW S, NEW out \in Seq(S), Out(out),
           \A i \in 1..Len(out) : out[i].k # "SVCWATCH", Fewer(store', store)
    PROVE  WInv'
<1>1. \A d \in Conn : view'[d] = view[d]  OBVIOUS
<1>2. excused \subseteq excused'  OBVIOUS
<1> QED  BY <1>1, <1>2, NsStill

\* The exchanges change neither accounts nor picture.
LEMMA SaslKept ==
    ASSUME Inv, WInv,
           NsStart \/ NsAbort \/ NsAbandon \/ NsUnknown \/ NsPlain \/ NsScramFirst \/ NsScramFinal \/ NsScramAck \/ NsExternal
    PROVE  WInv'
<1>1. \A S : << >> \in Seq(S) /\ 1..Len(<< >>) = {}  BY OneLine
<1>2. store' = store => Fewer(store', store)  BY DEF Fewer
<1>3. ASSUME NEW k \in {"START", "ABORT", "DATA"}, Heard(k), ByNs, UNCHANGED <<store, view, excused>>
      PROVE  NsRead /\ UNCHANGED <<conn, up, watch, store, view, excused>>
  BY <1>3, HeardForm DEF Feeds, ByNs, hub
<1>4. ASSUME NEW m, DataFor(m)  PROVE NsRead /\ UNCHANGED <<conn, up, watch, store, view, excused>>
  <2>1. Heard("DATA") /\ ByNs /\ UNCHANGED <<store, view, excused>>  BY <1>4 DEF DataFor
  <2> QED  BY <1>3, <2>1
<1>5. ASSUME NEW m, DataFor(m), NEW c, NEW a, Done(c, a)  PROVE WInv'
  <2> DEFINE l == LoginLine(c, a)
             v == Verdict(c, a # None)
             out == IF a # None THEN <<l, v>> ELSE <<v>>
  <2>1. Out((IF a # None THEN <<l>> ELSE << >>) \o <<v>>) /\ l.k # "SVCWATCH" /\ v.k # "SVCWATCH"
    BY <1>5 DEF Done, LoginLine, Verdict
  <2> HIDE DEF l, v
  <2>2. <<v>> \in Seq({l, v}) /\ <<l>> \o <<v>> = <<l, v>> /\ << >> \o <<v>> = <<v>>
    <3>1. <<v>> \in Seq({l, v})  BY OneLine
    <3>2. <<l>> \o <<v>> = <<l, v>>
      <4>1. l \in {l, v} /\ v \in {l, v}  OBVIOUS
      <4> QED  BY <4>1, TwoLines
    <3> QED  BY <3>1, <3>2
  <2>3. Out(out)  BY <2>1, <2>2
  <2>4. out \in Seq({l, v}) /\ \A i \in 1..Len(out) : out[i] \in {l, v}
    <3>1. CASE a # None  BY <3>1, OneLine
    <3>2. CASE a = None  BY <3>2, OneLine
    <3> QED  BY <3>1, <3>2
  <2> HIDE DEF out
  <2>5. \A i \in 1..Len(out) : out[i].k # "SVCWATCH"  BY <2>1, <2>4
  <2> QED  BY <1>2, <1>4, <1>5, <2>3, <2>4, <2>5, NsIdle
<1>6. ASSUME NEW m, DataFor(m), NEW x, Go(x)  PROVE WInv'
  <2> DEFINE l == [k |-> "CHALLENGE", c |-> x.c]
  <2>1. Out(<<l>>) /\ l.k # "SVCWATCH"  BY <1>6 DEF Go
  <2> HIDE DEF l
  <2>2. <<l>> \in Seq({l}) /\ \A i \in 1..Len(<<l>>) : <<l>>[i] = l  BY OneLine
  <2> QED  BY <1>2, <1>4, <1>6, <2>1, <2>2, NsIdle
<1>7. ASSUME NsRead, UNCHANGED <<conn, up, watch, store, view, excused>>, Out(<< >>)  PROVE WInv'
  <2>1. << >> \in Seq({})  BY OneLine
  <2> QED  BY <1>1, <1>2, <1>7, <2>1, NsIdle
<1>8. CASE NsStart
  <2>1. Heard("START") /\ ByNs /\ UNCHANGED <<store, view, excused>> /\ Out(<< >>)  BY <1>8 DEF NsStart, ghosts
  <2> QED  BY <1>3, <1>7, <2>1
<1>9. CASE NsAbort
  <2>1. Heard("ABORT") /\ ByNs /\ UNCHANGED <<store, view, excused>> /\ Out(<< >>)  BY <1>9 DEF NsAbort, ghosts
  <2> QED  BY <1>3, <1>7, <2>1
<1>10. CASE NsAbandon
  <2>1. UNCHANGED <<conn, up, watch, toNs, toIrc, view, store, excused>>  BY <1>10 DEF NsAbandon, hub, ghosts
  <2>2. NsRead /\ Out(<< >>)  BY <2>1 DEF NsRead, Out, Inv, LinkTyped
  <2> QED  BY <1>7, <2>1, <2>2
<1>11. CASE NsUnknown
  <2> DEFINE m == Verdict(Msg.c, FALSE)
  <2>1. Heard("DATA") /\ ByNs /\ UNCHANGED <<store, view, excused>> /\ Out(<<m>>)  BY <1>11 DEF NsUnknown, ghosts
  <2>2. m.k # "SVCWATCH"  BY DEF Verdict
  <2> HIDE DEF m
  <2>3. <<m>> \in Seq({m}) /\ \A i \in 1..Len(<<m>>) : <<m>>[i] = m  BY OneLine
  <2> QED  BY <1>2, <1>3, <2>1, <2>2, <2>3, NsIdle
<1>12. CASE NsPlain  BY <1>5, <1>12 DEF NsPlain
<1>13. CASE NsScramFirst  BY <1>5, <1>6, <1>13 DEF NsScramFirst
<1>14. CASE NsScramFinal  BY <1>5, <1>6, <1>14 DEF NsScramFinal
<1>15. CASE NsScramAck  BY <1>5, <1>15 DEF NsScramAck
<1>16. CASE NsExternal  BY <1>5, <1>16 DEF NsExternal
<1> QED  BY <1>8, <1>9, <1>10, <1>11, <1>12, <1>13, <1>14, <1>15, <1>16

\* Nothing a command changes of an account gives it a nick, GROUP and REGISTER excepted.
LEMMA EditsFewer ==
    ASSUME store \in Stores, NEW a \in Nick, store[a] \in Account
    PROVE  /\ \A p : Fewer(Rekeyed(a, p), store)
           /\ Fewer([store EXCEPT ![a].reset = TRUE], store) /\ Fewer([store EXCEPT ![a].code = TRUE], store)
           /\ Fewer([store EXCEPT ![a].verified = TRUE, ![a].code = FALSE], store)
           /\ \A c : Fewer([store EXCEPT ![a].cert = c], store)
           /\ \A n : Fewer([store EXCEPT ![a].nicks = @ \ {n}], store)
           /\ \A b : Fewer([store EXCEPT ![a].suspended = b], store)
           /\ Fewer([store EXCEPT ![a] = None], store)
<1> DEFINE x == store[a]
<1>1. x # None /\ x \in Account  BY Consts
<1>2. ASSUME NEW y, y # None => y.nicks \subseteq x.nicks  PROVE Fewer([store EXCEPT ![a] = y], store)
  <2> DEFINE t == [store EXCEPT ![a] = y]
  <2>1. t[a] = y /\ \A b \in Nick \ {a} : t[b] = store[b]  BY DEF Stores
  <2> HIDE DEF t
  <2>2. ASSUME NEW b \in Nick, t[b] # None  PROVE store[b] # None /\ t[b].nicks \subseteq store[b].nicks
    <3>1. CASE b = a  BY <1>1, <1>2, <2>1, <2>2, <3>1
    <3>2. CASE b # a  BY <2>1, <2>2, <3>2
    <3> QED  BY <3>1, <3>2
  <2>3. Fewer(t, store)  BY <2>2 DEF Fewer
  <2> QED  BY <2>3 DEF t
<1>3. ASSUME NEW p  PROVE Fewer(Rekeyed(a, p), store)
  <2>1. [x EXCEPT !.pw = p, !.reset = FALSE].nicks = x.nicks  BY <1>1 DEF Account
  <2>2. Rekeyed(a, p) = [store EXCEPT ![a] = [x EXCEPT !.pw = p, !.reset = FALSE]]  BY DEF Rekeyed, Stores
  <2> QED  BY <1>2, <2>1, <2>2
<1>4. Fewer([store EXCEPT ![a].reset = TRUE], store)
  <2>1. [x EXCEPT !.reset = TRUE].nicks = x.nicks  BY <1>1 DEF Account
  <2> QED  BY <1>2, <2>1
<1>5. Fewer([store EXCEPT ![a].code = TRUE], store)
  <2>1. [x EXCEPT !.code = TRUE].nicks = x.nicks  BY <1>1 DEF Account
  <2> QED  BY <1>2, <2>1
<1>6. Fewer([store EXCEPT ![a].verified = TRUE, ![a].code = FALSE], store)
  <2>1. [x EXCEPT !.verified = TRUE, !.code = FALSE].nicks = x.nicks  BY <1>1 DEF Account
  <2>2. [store EXCEPT ![a].verified = TRUE, ![a].code = FALSE] = [store EXCEPT ![a] = [x EXCEPT !.verified = TRUE, !.code = FALSE]]
    BY DEF Stores
  <2> QED  BY <1>2, <2>1, <2>2
<1>7. ASSUME NEW c  PROVE Fewer([store EXCEPT ![a].cert = c], store)
  <2>1. [x EXCEPT !.cert = c].nicks = x.nicks  BY <1>1 DEF Account
  <2> QED  BY <1>2, <2>1
<1>8. ASSUME NEW n  PROVE Fewer([store EXCEPT ![a].nicks = @ \ {n}], store)
  <2>1. [x EXCEPT !.nicks = @ \ {n}].nicks \subseteq x.nicks  BY <1>1 DEF Account
  <2> QED  BY <1>2, <2>1
<1>9. ASSUME NEW b  PROVE Fewer([store EXCEPT ![a].suspended = b], store)
  <2>1. [x EXCEPT !.suspended = b].nicks = x.nicks  BY <1>1 DEF Account
  <2> QED  BY <1>2, <2>1
<1>10. Fewer([store EXCEPT ![a] = None], store)  BY <1>2
<1> QED  BY <1>3, <1>4, <1>5, <1>6, <1>7, <1>8, <1>9, <1>10

\* The commands that edit an account and tell the hub nothing.
LEMMA StoreOnlyKept ==
    ASSUME Inv, WInv,
           NsRefuse \/ NsSetPassword \/ NsResetMail \/ NsSetEmail \/ NsVerify \/ NsCert \/ NsUngroup
           \/ NsUnsuspend \/ NsSaset
    PROVE  WInv'
<1> DEFINE Same == Heard("PRIVMSG") /\ UNCHANGED <<conn, up, watch, view, excused>> /\ Out(<< >>)
<1>1. store \in Stores  BY DEF Inv, NsTyped, Stores
<1>2. ASSUME NEW k, Told(k), Keep, Out(<< >>), UNCHANGED view, UNCHANGED ghosts  PROVE Same
  BY <1>2, ValidForm DEF Keep, ghosts
<1>3. ASSUME Same, Fewer(store', store)  PROVE WInv'
  <2>1. NsRead  BY <1>3, HeardForm DEF Feeds
  <2>2. << >> \in Seq({}) /\ 1..Len(<< >>) = {}  BY OneLine
  <2>3. \A i \in 1..Len(<< >>) : << >>[i].k # "SVCWATCH"  BY <2>2
  <2> QED  BY <1>3, <2>1, <2>2, <2>3, NsIdle
<1> HIDE DEF Same
<1>4. CASE NsRefuse
  <2>1. Same /\ store' = store  BY <1>4 DEF NsRefuse, ByNs, hub, ghosts, Same
  <2>2. Fewer(store', store)  BY <2>1 DEF Fewer
  <2> QED  BY <1>3, <2>1, <2>2
<1>5. CASE NsSetPassword
  <2>1. Told("SET PASSWORD") /\ Same /\ store' = Rekeyed(OwnerOf(Mine), Cmd.new)  BY <1>2, <1>5 DEF NsSetPassword
  <2>2. OwnerOf(Mine) \in Nick /\ store[OwnerOf(Mine)] \in Account  BY <2>1, ValidForm
  <2> QED  BY <1>1, <1>3, <2>1, <2>2, EditsFewer
<1>6. CASE NsResetMail
  <2>1. Told("RESET MAIL") /\ Same /\ store' = [store EXCEPT ![OwnerOf(Cmd.arg)].reset = TRUE]  BY <1>2, <1>6 DEF NsResetMail
  <2>2. OwnerOf(Cmd.arg) \in Nick /\ store[OwnerOf(Cmd.arg)] \in Account  BY <2>1, ValidForm
  <2> QED  BY <1>1, <1>3, <2>1, <2>2, EditsFewer
<1>7. CASE NsSetEmail
  <2>1. Told("SET EMAIL") /\ Same /\ store' = [store EXCEPT ![Mine].code = TRUE]  BY <1>2, <1>7 DEF NsSetEmail
  <2>2. Mine \in Nick /\ store[Mine] \in Account  BY <2>1, ValidForm
  <2> QED  BY <1>1, <1>3, <2>1, <2>2, EditsFewer
<1>8. CASE NsVerify
  <2>1. Told("VERIFY") /\ Same /\ store' = [store EXCEPT ![Mine].verified = TRUE, ![Mine].code = FALSE]  BY <1>2, <1>8 DEF NsVerify
  <2>2. Mine \in Nick /\ store[Mine] \in Account  BY <2>1, ValidForm
  <2> QED  BY <1>1, <1>3, <2>1, <2>2, EditsFewer
<1>9. CASE NsCert
  <2>1. CASE Told("CERT ADD") /\ store' = [store EXCEPT ![Mine].cert = Me]
    <3>1. Same  BY <1>2, <1>9, <2>1 DEF NsCert
    <3>2. Mine \in Nick /\ store[Mine] \in Account  BY <2>1, ValidForm
    <3> QED  BY <1>1, <1>3, <2>1, <3>1, <3>2, EditsFewer
  <2>2. CASE Told("CERT DEL") /\ store' = [store EXCEPT ![Mine].cert = None]
    <3>1. Same  BY <1>2, <1>9, <2>2 DEF NsCert
    <3>2. Mine \in Nick /\ store[Mine] \in Account  BY <2>2, ValidForm
    <3> QED  BY <1>1, <1>3, <2>2, <3>1, <3>2, EditsFewer
  <2> QED  BY <1>9, <2>1, <2>2 DEF NsCert
<1>10. CASE NsUngroup
  <2>1. Told("UNGROUP") /\ Same /\ store' = [store EXCEPT ![Mine].nicks = @ \ {Cmd.arg}]  BY <1>2, <1>10 DEF NsUngroup
  <2>2. Mine \in Nick /\ store[Mine] \in Account  BY <2>1, ValidForm
  <2> QED  BY <1>1, <1>3, <2>1, <2>2, EditsFewer
<1>11. CASE NsUnsuspend
  <2>1. Told("UNSUSPEND") /\ Same /\ store' = [store EXCEPT ![OwnerOf(Cmd.arg)].suspended = FALSE]  BY <1>2, <1>11 DEF NsUnsuspend
  <2>2. OwnerOf(Cmd.arg) \in Nick /\ store[OwnerOf(Cmd.arg)] \in Account  BY <2>1, ValidForm
  <2> QED  BY <1>1, <1>3, <2>1, <2>2, EditsFewer
<1>12. CASE NsSaset
  <2>1. Told("SASET") /\ Same /\ store' = Rekeyed(OwnerOf(Cmd.arg), Cmd.new)  BY <1>2, <1>12 DEF NsSaset
  <2>2. OwnerOf(Cmd.arg) \in Nick /\ store[OwnerOf(Cmd.arg)] \in Account  BY <2>1, ValidForm
  <2> QED  BY <1>1, <1>3, <2>1, <2>2, EditsFewer
<1> QED  BY <1>4, <1>5, <1>6, <1>7, <1>8, <1>9, <1>10, <1>11, <1>12

(***************************************************************************)
(* A nick gets an owner: who holds it was there first.                     *)
(***************************************************************************)
\* Nobody but its holders sees a change when an unowned nick gets an owner.
LEMMA FiledMore ==
    ASSUME Inv, WInv, NEW t, NEW n \in Nick, NEW e \in Nick, OwnerOf(n) = None,
           \A x, b \in Nick : Filed(t, x, b) => Filed(store, x, b) \/ (x = n /\ b = e)
    PROVE  /\ Lone(t)
           /\ \A d \in Conn : \A b \in Nick :
                conn[d].st = "user" /\ d \notin Holders(n) /\ Filed(t, conn[d].nick, b) => Filed(store, conn[d].nick, b)
<1>1. store \in Stores  BY DEF Inv, NsTyped, Stores
<1>2. \A b \in Nick : ~Filed(store, n, b)  BY <1>1, OwnerFiled
<1>3. Lone(t)
  <2>1. ASSUME NEW x \in Nick, NEW a \in Nick, NEW b \in Nick, Filed(t, x, a), Filed(t, x, b)  PROVE a = b
    <3>1. CASE x = n  BY <1>2, <2>1, <3>1
    <3>2. CASE x # n  BY <2>1, <3>2 DEF WInv, Lone
    <3> QED  BY <3>1, <3>2
  <2> QED  BY <2>1 DEF Lone
<1>4. ASSUME NEW d \in Conn, NEW b \in Nick, conn[d].st = "user", d \notin Holders(n), Filed(t, conn[d].nick, b)
      PROVE  Filed(store, conn[d].nick, b)
  <2>1. conn[d].nick \in Nick /\ conn[d].nick # n  BY <1>4 DEF Inv, HubTyped, Holders, Users
  <2> QED  BY <1>4, <2>1
<1> QED  BY <1>3, <1>4

\* A new account has its own name only.
LEMMA FreshFiled ==
    ASSUME store \in Stores, NEW n \in Nick, OwnerOf(n) = None, NEW p
    PROVE  \A x, b \in Nick : Filed([store EXCEPT ![n] = Fresh(p)], x, b) => Filed(store, x, b) \/ (x = n /\ b = n)
<1> DEFINE t == [store EXCEPT ![n] = Fresh(p)]
<1>1. t[n].nicks = {} /\ \A b \in Nick \ {n} : t[b] = store[b]  BY DEF Stores, Fresh
<1> HIDE DEF t
<1>2. \A x, b \in Nick : Filed(t, x, b) => Filed(store, x, b) \/ (x = n /\ b = n)  BY <1>1 DEF Filed
<1> QED  BY <1>2 DEF t

\* GROUP adds one nick to one account.
LEMMA GroupFiled ==
    ASSUME store \in Stores, NEW n \in Nick, NEW a \in Nick, store[a] \in Account
    PROVE  \A x, b \in Nick : Filed([store EXCEPT ![a].nicks = @ \cup {n}], x, b) => Filed(store, x, b) \/ (x = n /\ b = a)
<1> DEFINE t == [store EXCEPT ![a].nicks = @ \cup {n}]
<1>1. t[a].nicks = store[a].nicks \cup {n} /\ store[a] # None /\ \A b \in Nick \ {a} : t[b] = store[b]
  BY Consts DEF Stores, Account
<1> HIDE DEF t
<1>2. \A x, b \in Nick : Filed(t, x, b) => Filed(store, x, b) \/ (x = n /\ b = a)  BY <1>1 DEF Filed
<1> QED  BY <1>2 DEF t

\* cmd_group: the holders of the nick are excused.
LEMMA GroupKept == ASSUME Inv, WInv, NsGroup PROVE WInv'
<1> DEFINE n == view[Me].nick
           a == Mine
<1>1. /\ Told("GROUP") /\ Out(<< >>) /\ UNCHANGED view /\ store' = [store EXCEPT ![a].nicks = @ \cup {n}]
      /\ excused' = excused \cup Holders(n)
  BY DEF NsGroup
<1>2. Heard("PRIVMSG") /\ Sender # {} /\ UNCHANGED <<conn, up, watch>> /\ a \in Nick /\ store[a] \in Account
  BY <1>1, ValidForm
<1>3. NsRead /\ n \in Nick  BY <1>2, AskedForm
<1>4. OwnerOf(n) = None  BY <1>1 DEF Told, Asked, Valid
<1>5. store \in Stores  BY DEF Inv, NsTyped, Stores
<1> HIDE DEF n, a
<1>6. \A x, b \in Nick : Filed(store', x, b) => Filed(store, x, b) \/ (x = n /\ b = a)  BY <1>1, <1>2, <1>3, <1>5, GroupFiled
<1> DEFINE t == store'
<1>7. \A x, b \in Nick : Filed(t, x, b) => Filed(store, x, b) \/ (x = n /\ b = a)  BY <1>6
<1> HIDE DEF t
<1>8. /\ Lone(t)
      /\ \A d \in Conn : \A b \in Nick :
           conn[d].st = "user" /\ d \notin Holders(n) /\ Filed(t, conn[d].nick, b) => Filed(store, conn[d].nick, b)
  BY <1>2, <1>3, <1>4, <1>7, FiledMore
<1>9. \A d \in Conn : \A b \in Nick :
        conn[d].st = "user" /\ d \notin excused' /\ Filed(store', conn[d].nick, b) => Filed(store, conn[d].nick, b)
  BY <1>1, <1>8 DEF t
<1>10. << >> \in Seq({}) /\ \A i \in 1..Len(<< >>) : << >>[i].k # "SVCWATCH"
  <2>1. << >> \in Seq({}) /\ 1..Len(<< >>) = {}  BY OneLine
  <2> QED  BY <2>1
<1>11. Lone(store')  BY <1>8 DEF t
<1>12. \A d \in Conn : view'[d] = view[d]  BY <1>1
<1>13. excused \subseteq excused'  BY <1>1
<1> QED  BY <1>1, <1>2, <1>3, <1>9, <1>10, <1>11, <1>12, <1>13, NsKept

\* ev_register: so are they when the hub relays REGISTER.
LEMMA RegisterKept == ASSUME Inv, WInv, NsRegister PROVE WInv'
<1> DEFINE ok == MayRegister(Msg.name)
           l == LoginLine(Msg.c, Msg.name)
           r == [k |-> "SVCREGRESULT", c |-> Msg.c]
           out == IF ok THEN <<l, r>> ELSE <<r>>
<1>1. Heard("SVCREGISTER") /\ UNCHANGED <<conn, up, watch, view>>  BY DEF NsRegister, ByNs, hub
<1>2. NsRead /\ Msg.name \in Nick  BY <1>1, HeardForm, NsForm DEF Feeds
<1>3. /\ store' = IF ok THEN [store EXCEPT ![Msg.name] = Fresh(Msg.pw)] ELSE store
      /\ excused' = IF ok THEN excused \cup Holders(Msg.name) ELSE excused
      /\ Out((IF ok THEN <<l>> ELSE << >>) \o <<r>>)
  BY DEF NsRegister
<1>4. l.k = "SVSLOGIN" /\ r.k = "SVCREGRESULT"  BY DEF LoginLine
<1>5. ok => OwnerOf(Msg.name) = None  BY DEF MayRegister
<1>6. store \in Stores  BY DEF Inv, NsTyped, Stores
<1> HIDE DEF l, r, ok
<1>7. Out(out)
  <2>1. <<l>> \o <<r>> = <<l, r>>
    <3>1. l \in {l, r} /\ r \in {l, r}  OBVIOUS
    <3> QED  BY <3>1, TwoLines
  <2>2. << >> \o <<r>> = <<r>>
    <3>1. <<r>> \in Seq({r})  BY OneLine
    <3> QED  BY <3>1
  <2> QED  BY <1>3, <2>1, <2>2
<1>8. out \in Seq({l, r}) /\ \A i \in 1..Len(out) : out[i] \in {l, r}
  <2>1. CASE ok  BY <2>1, OneLine
  <2>2. CASE ~ok  BY <2>2, OneLine
  <2> QED  BY <2>1, <2>2
<1> HIDE DEF out
<1>9. \A i \in 1..Len(out) : out[i].k # "SVCWATCH"  BY <1>4, <1>8
<1>10. CASE ~ok
  <2>1. store' = store /\ excused' = excused  BY <1>3, <1>10
  <2>2. Fewer(store', store)  BY <2>1 DEF Fewer
  <2> QED  BY <1>1, <1>2, <1>7, <1>8, <1>9, <2>1, <2>2, NsIdle
<1>11. CASE ok
  <2> DEFINE n == Msg.name
             p == Msg.pw
             t == [store EXCEPT ![n] = Fresh(p)]
  <2>1. store' = t /\ excused' = excused \cup Holders(n) /\ n \in Nick /\ OwnerOf(n) = None  BY <1>2, <1>3, <1>5, <1>11
  <2> HIDE DEF n, p
  <2>2. \A x, b \in Nick : Filed(t, x, b) => Filed(store, x, b) \/ (x = n /\ b = n)  BY <1>6, <2>1, FreshFiled
  <2> HIDE DEF t
  <2>3. /\ Lone(t)
        /\ \A d \in Conn : \A b \in Nick :
             conn[d].st = "user" /\ d \notin Holders(n) /\ Filed(t, conn[d].nick, b) => Filed(store, conn[d].nick, b)
    BY <2>1, <2>2, FiledMore
  <2>4. Lone(store')  BY <2>1, <2>3
  <2>5. \A d \in Conn : \A b \in Nick :
          conn[d].st = "user" /\ d \notin excused' /\ Filed(store', conn[d].nick, b) => Filed(store, conn[d].nick, b)
    BY <2>1, <2>3
  <2>6. \A d \in Conn : view'[d] = view[d]  BY <1>1
  <2>7. excused \subseteq excused'  BY <2>1
  <2> QED  BY <1>1, <1>2, <1>7, <1>8, <1>9, <2>4, <2>5, <2>6, <2>7, NsKept
<1> QED  BY <1>10, <1>11

\* GHOST and REGAIN: orders to the hub, and nothing else.
LEMMA OrderKept == ASSUME Inv, WInv, NsGhost \/ NsRegain PROVE WInv'
<1>1. ASSUME NEW k, Told(k), UNCHANGED <<store, view, excused>>,
             NEW S, NEW out \in Seq(S), Out(out), \A i \in 1..Len(out) : out[i].k # "SVCWATCH"
      PROVE  WInv'
  <2>1. Heard("PRIVMSG") /\ UNCHANGED <<conn, up, watch>>  BY <1>1, ValidForm
  <2>2. NsRead  BY <2>1, HeardForm DEF Feeds
  <2>3. Fewer(store', store)  BY <1>1 DEF Fewer
  <2> QED  BY <1>1, <2>1, <2>2, <2>3, NsIdle
<1>2. CASE NsGhost
  <2> DEFINE m == [k |-> "KILL", c |-> CHOOSE c \in Found(Cmd.arg) : TRUE]
  <2>1. Told("GHOST") /\ UNCHANGED <<store, view, excused>> /\ Out(<<m>>)  BY <1>2 DEF NsGhost, ghosts
  <2>2. m.k # "SVCWATCH"  OBVIOUS
  <2> HIDE DEF m
  <2>3. <<m>> \in Seq({m}) /\ \A i \in 1..Len(<<m>>) : <<m>>[i] = m  BY OneLine
  <2> QED  BY <1>1, <2>1, <2>2, <2>3
<1>3. CASE NsRegain
  <2> DEFINE F == Found(Cmd.arg)
             t == CHOOSE c \in F : TRUE
             far == \E c \in F : (c \in Far) # (Me \in Far)
             kill == [k |-> "KILL", c |-> t]
             off == Rename(t, GuestNick)
             on == Rename(Me, Cmd.arg)
             out == IF far THEN <<kill>> ELSE IF F = {} THEN <<on>> ELSE <<off, on>>
  <2>1. Told("REGAIN") /\ UNCHANGED <<store, view, excused>> /\ Out(out)  BY <1>3 DEF NsRegain, ghosts
  <2>2. kill.k # "SVCWATCH" /\ off.k # "SVCWATCH" /\ on.k # "SVCWATCH"  BY DEF Rename
  <2> HIDE DEF kill, off, on, F, far
  <2>3. out \in Seq({kill, off, on}) /\ \A i \in 1..Len(out) : out[i] \in {kill, off, on}
    <3>1. CASE far  BY <3>1, OneLine
    <3>2. CASE ~far /\ F = {}  BY <3>2, OneLine
    <3>3. CASE ~far /\ F # {}
      <4>1. <<off, on>> \in Seq({kill, off, on}) /\ \A i \in 1..Len(<<off, on>>) : <<off, on>>[i] \in {off, on}  BY OneLine
      <4>2. out = <<off, on>>  BY <3>3
      <4> QED  BY <4>1, <4>2
    <3> QED  BY <3>1, <3>2, <3>3
  <2> HIDE DEF out
  <2>4. \A i \in 1..Len(out) : out[i].k # "SVCWATCH"  BY <2>2, <2>3
  <2> QED  BY <1>1, <2>1, <2>3, <2>4
<1> QED  BY <1>2, <1>3

(***************************************************************************)
(* Logins, logouts and the end of a deadline.                              *)
(***************************************************************************)
\* login: the deadline goes with an account, and only for the one logged in.
LEMMA LoggedInDue ==
    ASSUME NEW v \in [Conn -> Seen \cup {None}], NEW c \in Conn, NEW a \in Anyone
    PROVE  \A d \in Conn : /\ LoggedIn(v, c, a)[d] = None <=> v[d] = None
                           /\ v[d] # None /\ v[d].due # None => LoggedIn(v, c, a)[d].due # None \/ (d = c /\ a # None)
<1> DEFINE w == LoggedIn(v, c, a)
<1>1. CASE v[c] = None
  <2>1. w = v  BY <1>1 DEF LoggedIn
  <2> HIDE DEF w
  <2>2. \A d \in Conn : (w[d] = None <=> v[d] = None) /\ (v[d] # None /\ v[d].due # None => w[d].due # None \/ (d = c /\ a # None))
    BY <2>1
  <2> QED  BY <2>2 DEF w
<1>2. CASE v[c] # None
  <2> DEFINE due == IF a # None THEN None ELSE v[c].due
             u == [v[c] EXCEPT !.acct = a, !.due = due]
  <2>1. v[c] \in Seen  BY <1>2
  <2>2. due \in Anyone  BY <2>1 DEF Seen, Anyone
  <2>3. u \in Seen /\ u.due = due  BY <2>1, <2>2 DEF Seen, Anyone
  <2>4. w = [v EXCEPT ![c] = u]
    <3>1. w = [v EXCEPT ![c].acct = a, ![c].due = IF a # None THEN None ELSE @]  BY <1>2 DEF LoggedIn
    <3> QED  BY <2>1, <3>1 DEF Seen
  <2>5. u # None /\ (a = None => u.due = v[c].due)  BY <2>3, Consts
  <2> HIDE DEF u, w
  <2>6. w[c] = u /\ \A d \in Conn \ {c} : w[d] = v[d]  BY <2>4
  <2>7. \A d \in Conn : (w[d] = None <=> v[d] = None) /\ (v[d] # None /\ v[d].due # None => w[d].due # None \/ (d = c /\ a # None))
    BY <1>2, <2>5, <2>6
  <2> QED  BY <2>7 DEF w
<1> QED  BY <1>1, <1>2

\* logout_all: deadlines stay.
LEMMA LogoutDue ==
    ASSUME view \in [Conn -> Seen \cup {None}], NEW a
    PROVE  \A c \in Conn : /\ LogoutAll(a)[c] = None <=> view[c] = None
                           /\ view[c] # None => LogoutAll(a)[c].due = view[c].due
<1> SUFFICES ASSUME NEW c \in Conn
             PROVE  /\ LogoutAll(a)[c] = None <=> view[c] = None
                    /\ view[c] # None => LogoutAll(a)[c].due = view[c].due
  OBVIOUS
<1>1. CASE c \in On(view, a)
  <2>1. view[c] \in Seen /\ view[c] # None  BY <1>1 DEF On
  <2>2. LogoutAll(a)[c] = [view[c] EXCEPT !.acct = None]  BY <1>1 DEF LogoutAll
  <2>3. [view[c] EXCEPT !.acct = None] \in Seen /\ [view[c] EXCEPT !.acct = None].due = view[c].due  BY <2>1 DEF Seen
  <2> QED  BY <2>1, <2>2, <2>3, Consts
<1>2. CASE c \notin On(view, a)  BY <1>2 DEF LogoutAll
<1> QED  BY <1>1, <1>2

\* Every line of a logout is a login to no account.
LEMMA LogoutLinesSay ==
    ASSUME NEW a
    PROVE  \A i \in 1..Len(LogoutLines(a)) : LogoutLines(a)[i].k = "SVSLOGIN"
<1> DEFINE s == CHOOSE q \in Seqs(On(view, a)) : TRUE
           q == LogoutLines(a)
<1>1. q = [i \in DOMAIN s |-> LoginLine(s[i], None)]  BY DEF LogoutLines
<1>2. q \in Seq(IrcLine)  BY LogoutLinesForm
<1>3. \A i \in DOMAIN q : q[i].k = "SVSLOGIN"  BY <1>1 DEF LoginLine
<1> HIDE DEF q
<1>4. DOMAIN q = 1..Len(q)  BY <1>2
<1>5. \A i \in 1..Len(q) : q[i].k = "SVSLOGIN"  BY <1>3, <1>4
<1> QED  BY <1>5 DEF q

\* One is logged in or out on his own word; with an account the deadline goes.
LEMMA LoginOrdered ==
    ASSUME NEW v \in [Conn -> Seen \cup {None}], NEW c \in Conn, NEW a \in Anyone, NEW l, l = LoginLine(c, a)
    PROVE  /\ <<l>> \in Seq({l}) /\ \A i \in 1..Len(<<l>>) : <<l>>[i].k # "SVCWATCH"
           /\ \A d \in Conn : LoggedIn(v, c, a)[d] = None <=> v[d] = None
           /\ \A d \in Conn : v[d] # None /\ v[d].due # None => LoggedIn(v, c, a)[d].due # None \/ Answers(<<l>>, d)
<1>1. l.k = "SVSLOGIN" /\ l.c = c /\ l.acct = a  BY DEF LoginLine
<1>2. <<l>> \in Seq({l}) /\ 1 \in 1..Len(<<l>>) /\ <<l>>[1] = l /\ \A i \in 1..Len(<<l>>) : <<l>>[i] = l
  <2>1. l \in {l}  OBVIOUS
  <2>2. <<l>> \in Seq({l}) /\ Len(<<l>>) = 1 /\ <<l>>[1] = l /\ \A i \in 1..Len(<<l>>) : <<l>>[i] = l  BY <2>1, OneLine
  <2> QED  BY <2>2
<1>3. a # None => Answers(<<l>>, c)  BY <1>1, <1>2 DEF Answers
<1>4. \A d \in Conn : /\ LoggedIn(v, c, a)[d] = None <=> v[d] = None
                      /\ v[d] # None /\ v[d].due # None => LoggedIn(v, c, a)[d].due # None \/ (d = c /\ a # None)
  BY LoggedInDue
<1> QED  BY <1>1, <1>2, <1>3, <1>4

\* A login or logout by command.
LEMMA LoginKeptHere ==
    ASSUME Inv, WInv, Heard("PRIVMSG"), Sender # {}, UNCHANGED <<conn, up, watch, store, excused>>, NEW a \in Anyone,
           view' = LoggedIn(view, Me, a), Out(<<LoginLine(Me, a)>>)
    PROVE  WInv'
<1> DEFINE l == LoginLine(Me, a)
           out == <<l>>
<1>1. NsRead /\ Me \in Conn  BY AskedForm
<1>2. view \in [Conn -> Seen \cup {None}]  BY DEF Inv, NsTyped
<1>3. /\ <<l>> \in Seq({l}) /\ \A i \in 1..Len(<<l>>) : <<l>>[i].k # "SVCWATCH"
      /\ \A d \in Conn : LoggedIn(view, Me, a)[d] = None <=> view[d] = None
      /\ \A d \in Conn : view[d] # None /\ view[d].due # None => LoggedIn(view, Me, a)[d].due # None \/ Answers(<<l>>, d)
  BY <1>1, <1>2, LoginOrdered
<1>4. Out(out)  OBVIOUS
<1> HIDE DEF l
<1>5. out \in Seq({l}) /\ \A i \in 1..Len(out) : out[i].k # "SVCWATCH"  BY <1>3
<1>6. \A d \in Conn : view'[d] = None <=> view[d] = None  BY <1>3
<1>7. \A d \in Conn : view[d] # None /\ view[d].due # None => view'[d].due # None \/ Answers(out, d)  BY <1>3
<1>8. Fewer(store', store) /\ excused \subseteq excused'  BY DEF Fewer
<1> HIDE DEF out
<1> QED  BY <1>1, <1>4, <1>5, <1>6, <1>7, <1>8, NsStill

\* All of an account are logged out.
LEMMA LogoutKept ==
    ASSUME Inv, WInv, Heard("PRIVMSG"), UNCHANGED <<conn, up, watch, excused>>, NEW a,
           view' = LogoutAll(a), Out(LogoutLines(a)), Fewer(store', store)
    PROVE  WInv'
<1> DEFINE q == LogoutLines(a)
<1>1. NsRead  BY HeardForm DEF Feeds
<1>2. view \in [Conn -> Seen \cup {None}]  BY DEF Inv, NsTyped
<1>3. \A c \in Conn : (view'[c] = None <=> view[c] = None) /\ (view[c] # None => view'[c].due = view[c].due)
  BY <1>2, LogoutDue
<1>4. q \in Seq(IrcLine) /\ Out(q)  BY LogoutLinesForm
<1>5. \A i \in 1..Len(q) : q[i].k = "SVSLOGIN"  BY LogoutLinesSay
<1> HIDE DEF q
<1>6. \A i \in 1..Len(q) : q[i].k # "SVCWATCH"  BY <1>5
<1>7. excused \subseteq excused'  OBVIOUS
<1>8. \A d \in Conn : view[d] # None /\ view[d].due # None => view'[d].due # None \/ Answers(q, d)  BY <1>3
<1>9. \A d \in Conn : view'[d] = None <=> view[d] = None  BY <1>3
<1> QED  BY <1>1, <1>4, <1>6, <1>7, <1>8, <1>9, NsStill

\* REGISTER to NickServ: an account, and a login to it.
LEMMA CmdRegisterKept == ASSUME Inv, WInv, NsCmdRegister PROVE WInv'
<1> DEFINE n == view[Me].nick
           p == Cmd.pw
           t == [store EXCEPT ![n] = Fresh(p)]
           l == LoginLine(Me, n)
           out == <<l>>
<1>1. /\ Told("REGISTER") /\ store' = t /\ view' = LoggedIn(view, Me, n) /\ Out(out)
      /\ excused' = excused \cup Holders(n)
  BY DEF NsCmdRegister
<1>2. Heard("PRIVMSG") /\ Sender # {} /\ UNCHANGED <<conn, up, watch>>  BY <1>1, ValidForm
<1>3. NsRead /\ n \in Nick /\ Me \in Conn  BY <1>2, AskedForm
<1>4. OwnerOf(n) = None  BY <1>1 DEF Told, Asked, Valid, MayRegister
<1>5. store \in Stores /\ view \in [Conn -> Seen \cup {None}]  BY DEF Inv, NsTyped, Stores
<1> HIDE DEF n, p
<1>6. n \in Anyone  BY <1>3 DEF Anyone
<1>7. /\ <<l>> \in Seq({l}) /\ \A i \in 1..Len(<<l>>) : <<l>>[i].k # "SVCWATCH"
      /\ \A d \in Conn : LoggedIn(view, Me, n)[d] = None <=> view[d] = None
      /\ \A d \in Conn : view[d] # None /\ view[d].due # None => LoggedIn(view, Me, n)[d].due # None \/ Answers(<<l>>, d)
  BY <1>3, <1>5, <1>6, LoginOrdered
<1>8. \A x, b \in Nick : Filed(t, x, b) => Filed(store, x, b) \/ (x = n /\ b = n)  BY <1>3, <1>4, <1>5, FreshFiled
<1> HIDE DEF t, l
<1>9. /\ Lone(t)
      /\ \A d \in Conn : \A b \in Nick :
           conn[d].st = "user" /\ d \notin Holders(n) /\ Filed(t, conn[d].nick, b) => Filed(store, conn[d].nick, b)
  BY <1>3, <1>4, <1>8, FiledMore
<1>10. Lone(store')  BY <1>1, <1>9
<1>11. \A d \in Conn : \A b \in Nick :
         conn[d].st = "user" /\ d \notin excused' /\ Filed(store', conn[d].nick, b) => Filed(store, conn[d].nick, b)
  BY <1>1, <1>9
<1>12. \A d \in Conn : view'[d] = None <=> view[d] = None  BY <1>1, <1>7
<1>13. \A d \in Conn : view[d] # None /\ view[d].due # None => view'[d].due # None \/ Answers(out, d)  BY <1>1, <1>7
<1>14. out \in Seq({l}) /\ \A i \in 1..Len(out) : out[i].k # "SVCWATCH"  BY <1>7
<1>15. excused \subseteq excused'  BY <1>1
<1> HIDE DEF out
<1> QED  BY <1>1, <1>2, <1>3, <1>10, <1>11, <1>12, <1>13, <1>14, <1>15, NsKept

\* RESETPASS: everybody out, then the one who asked in.
LEMMA ResetPassKept == ASSUME Inv, WInv, NsResetPass PROVE WInv'
<1> DEFINE a == OwnerOf(Cmd.arg)
           v == LogoutAll(a)
           in == v[Me].acct = None /\ ~Suspended(a)
           l == LoginLine(Me, a)
           q == LogoutLines(a)
<1>1. Told("RESETPASS") /\ UNCHANGED excused /\ store' = Rekeyed(a, Cmd.new)  BY DEF NsResetPass
<1>2. Heard("PRIVMSG") /\ Sender # {} /\ UNCHANGED <<conn, up, watch>> /\ a \in Nick /\ store[a] \in Account  BY <1>1, ValidForm
<1>3. NsRead /\ Me \in Conn /\ a \in Anyone /\ a # None  BY <1>2, AskedForm, Consts DEF Anyone
<1>4. view \in [Conn -> Seen \cup {None}] /\ store \in Stores  BY DEF Inv, NsTyped, Stores
<1>5. Fewer(store', store)  BY <1>1, <1>2, <1>4, EditsFewer
<1>6. view' = (IF in THEN LoggedIn(v, Me, a) ELSE v) /\ Out(q \o IF in THEN <<l>> ELSE << >>)
  BY DEF NsResetPass
<1>7. /\ v \in [Conn -> Seen \cup {None}]
      /\ \A c \in Conn : (v[c] = None <=> view[c] = None) /\ (view[c] # None => v[c].due = view[c].due)
  <2>1. v \in [Conn -> Seen \cup {None}]  BY <1>4, LogoutForm
  <2>2. \A c \in Conn : (v[c] = None <=> view[c] = None) /\ (view[c] # None => v[c].due = view[c].due)  BY <1>4, LogoutDue
  <2> QED  BY <2>1, <2>2
<1>8. q \in Seq(IrcLine)  BY LogoutLinesForm
<1>9. \A i \in 1..Len(q) : q[i].k = "SVSLOGIN"  BY LogoutLinesSay
<1>10. l \in IrcLine /\ l.k = "SVSLOGIN" /\ l.c = Me /\ l.acct = a  BY <1>3, IrcLines DEF LoginLine
<1> HIDE DEF l, q, v, a
<1>11. excused \subseteq excused'  BY <1>1
<1>12. CASE ~in
  <2>1. view' = v  BY <1>6, <1>12
  <2>2. Out(q)
    <3>1. q \o << >> = q  BY <1>8
    <3> QED  BY <1>6, <1>12, <3>1
  <2>3. \A i \in 1..Len(q) : q[i].k # "SVCWATCH"  BY <1>9
  <2>4. \A d \in Conn : view'[d] = None <=> view[d] = None  BY <1>7, <2>1
  <2>5. \A d \in Conn : view[d] # None /\ view[d].due # None => view'[d].due # None \/ Answers(q, d)  BY <1>7, <2>1
  <2> QED  BY <1>2, <1>3, <1>5, <1>8, <1>11, <2>2, <2>3, <2>4, <2>5, NsStill
<1>13. CASE in
  <2> DEFINE out == q \o <<l>>
             w == LoggedIn(v, Me, a)
  <2>1. view' = w /\ Out(out)  BY <1>6, <1>13
  <2>2. \A d \in Conn : (w[d] = None <=> v[d] = None) /\ (v[d] # None /\ v[d].due # None => w[d].due # None \/ d = Me)
    BY <1>3, <1>7, LoggedInDue
  <2>3. <<l>> \in Seq(IrcLine) /\ Len(<<l>>) = 1 /\ 1 \in 1..Len(<<l>>) /\ <<l>>[1] = l /\ \A i \in 1..Len(<<l>>) : <<l>>[i] = l
    BY <1>10, OneLine
  <2>4. out \in Seq(IrcLine)  BY <1>8, <2>3, QueueJoined
  <2>5. \A i \in 1..Len(<<l>>) : i + Len(q) \in 1..Len(out) /\ out[i + Len(q)] = <<l>>[i]  BY <1>8, <2>3, QueueJoined
  <2>6. \A i \in 1..Len(out) : \/ i \in 1..Len(q) /\ out[i] = q[i]
                               \/ i - Len(q) \in 1..Len(<<l>>) /\ out[i] = <<l>>[i - Len(q)]
    BY <1>8, <2>3, QueueJoined
  <2> HIDE DEF out, w
  <2>7. \A i \in 1..Len(out) : out[i].k # "SVCWATCH"  BY <1>9, <1>10, <2>3, <2>6
  <2>8. Answers(out, Me)
    <3>1. 1 + Len(q) \in 1..Len(out) /\ out[1 + Len(q)] = l  BY <2>3, <2>5
    <3> QED  BY <1>3, <1>10, <3>1 DEF Answers
  <2>9. \A d \in Conn : view'[d] = None <=> view[d] = None  BY <1>7, <2>1, <2>2
  <2>10. \A d \in Conn : view[d] # None /\ view[d].due # None => view'[d].due # None \/ Answers(out, d)
    BY <1>7, <2>1, <2>2, <2>8
  <2> QED  BY <1>2, <1>3, <1>5, <1>11, <2>1, <2>4, <2>7, <2>9, <2>10, NsStill
<1> QED  BY <1>12, <1>13

\* The other commands that log in and out, and the deadline itself (ns_tick).
LEMMA LoginsKept ==
    ASSUME Inv, WInv, NsIdentify \/ NsLogout \/ NsDrop \/ NsSuspend \/ NsEnforce
    PROVE  WInv'
<1>1. store \in Stores /\ view \in [Conn -> Seen \cup {None}]  BY DEF Inv, NsTyped, Stores
<1>2. None \in Anyone /\ \A n \in Nick : n \in Anyone /\ n # None  BY Consts DEF Anyone
<1>3. CASE NsIdentify
  <2>1. /\ Told("IDENTIFY") /\ UNCHANGED <<store, excused>>
        /\ view' = LoggedIn(view, Me, CheckedHere) /\ Out(<<LoginLine(Me, CheckedHere)>>)
    BY <1>3 DEF NsIdentify
  <2>2. Heard("PRIVMSG") /\ Sender # {} /\ UNCHANGED <<conn, up, watch>> /\ CheckedHere \in Nick  BY <2>1, ValidForm
  <2> QED  BY <1>2, <2>1, <2>2, LoginKeptHere
<1>4. CASE NsLogout
  <2>1. /\ Told("LOGOUT") /\ UNCHANGED <<store, excused>>
        /\ view' = LoggedIn(view, Me, None) /\ Out(<<LoginLine(Me, None)>>)
    BY <1>4 DEF NsLogout, ghosts
  <2>2. Heard("PRIVMSG") /\ Sender # {} /\ UNCHANGED <<conn, up, watch>>  BY <2>1, ValidForm
  <2> QED  BY <1>2, <2>1, <2>2, LoginKeptHere
<1>5. ASSUME NEW k, NEW a, Told(k), LoggedOut(a), Fewer(store', store)  PROVE WInv'
  <2>1. Heard("PRIVMSG") /\ UNCHANGED <<conn, up, watch>>  BY <1>5, ValidForm
  <2>2. view' = LogoutAll(a) /\ Out(LogoutLines(a)) /\ UNCHANGED excused  BY <1>5 DEF LoggedOut, ghosts
  <2> QED  BY <1>5, <2>1, <2>2, LogoutKept
<1>6. CASE NsDrop
  <2>1. CASE Told("DROP") /\ LoggedOut(OwnerOf(Mine)) /\ store' = [store EXCEPT ![OwnerOf(Mine)] = None]
    <3>1. OwnerOf(Mine) \in Nick /\ store[OwnerOf(Mine)] \in Account  BY <2>1, ValidForm
    <3>2. Fewer(store', store)  BY <1>1, <2>1, <3>1, EditsFewer
    <3> QED  BY <1>5, <2>1, <3>2
  <2>2. CASE Told("FDROP") /\ LoggedOut(OwnerOf(Cmd.arg)) /\ store' = [store EXCEPT ![OwnerOf(Cmd.arg)] = None]
    <3>1. OwnerOf(Cmd.arg) \in Nick /\ store[OwnerOf(Cmd.arg)] \in Account  BY <2>2, ValidForm
    <3>2. Fewer(store', store)  BY <1>1, <2>2, <3>1, EditsFewer
    <3> QED  BY <1>5, <2>2, <3>2
  <2> QED  BY <1>6, <2>1, <2>2 DEF NsDrop
<1>7. CASE NsSuspend
  <2>1. /\ Told("SUSPEND") /\ LoggedOut(OwnerOf(Cmd.arg))
        /\ store' = [store EXCEPT ![OwnerOf(Cmd.arg)].suspended = TRUE]
    BY <1>7 DEF NsSuspend
  <2>2. OwnerOf(Cmd.arg) \in Nick /\ store[OwnerOf(Cmd.arg)] \in Account  BY <2>1, ValidForm
  <2>3. Fewer(store', store)  BY <1>1, <2>1, <2>2, EditsFewer
  <2> QED  BY <1>5, <2>1, <2>3
<1>8. CASE NsEnforce
  <2>1. PICK c \in Conn : /\ view[c] # None /\ view[c].due # None
                          /\ view' = [view EXCEPT ![c].due = None] /\ Out(<<Rename(c, GuestNick)>>)
    BY <1>8 DEF NsEnforce
  <2>2. UNCHANGED <<conn, up, watch, toNs, store, excused>>  BY <1>8 DEF NsEnforce, hub, ghosts
  <2> DEFINE m == Rename(c, GuestNick)
             u == [view[c] EXCEPT !.due = None]
             out == <<m>>
  <2>3. m.k = "SVSNICK" /\ m.c = c  BY DEF Rename
  <2>4. u \in Seen
    <3>1. view[c] \in Seen  BY <1>1, <2>1
    <3> QED  BY <1>2, <3>1 DEF Seen, Anyone
  <2>5. view' = [view EXCEPT ![c] = u] /\ Out(out)  BY <1>1, <2>1
  <2> HIDE DEF m, u
  <2>6. view'[c] = u /\ u # None /\ \A d \in Conn \ {c} : view'[d] = view[d]  BY <1>1, <2>4, <2>5, Consts
  <2>7. out \in Seq({m}) /\ 1 \in 1..Len(out) /\ out[1] = m /\ \A i \in 1..Len(out) : out[i] = m
    <3>1. m \in {m}  OBVIOUS
    <3>2. out \in Seq({m}) /\ Len(out) = 1 /\ out[1] = m /\ \A i \in 1..Len(out) : out[i] = m  BY <3>1, OneLine
    <3> QED  BY <3>2
  <2> HIDE DEF out
  <2>8. Answers(out, c) /\ \A i \in 1..Len(out) : out[i].k # "SVCWATCH"  BY <2>3, <2>7 DEF Answers
  <2>9. NsRead  BY <2>2 DEF NsRead
  <2>10. Fewer(store', store) /\ excused \subseteq excused'  BY <2>2 DEF Fewer
  <2>11. \A d \in Conn : view'[d] = None <=> view[d] = None  BY <2>1, <2>6
  <2>12. \A d \in Conn : view[d] # None /\ view[d].due # None => view'[d].due # None \/ Answers(out, d)  BY <2>6, <2>8
  <2> QED  BY <2>2, <2>5, <2>7, <2>8, <2>9, <2>10, <2>11, <2>12, NsStill
<1> QED  BY <1>3, <1>4, <1>6, <1>7, <1>8

(***************************************************************************)
(* Everything together.                                                    *)
(***************************************************************************)
LEMMA NsStepKept ==
    ASSUME Inv, Inv', WInv, NsStep
    PROVE  WInv'
<1>1. CASE NsUser \/ NsNick \/ NsQuit \/ NsAccount  BY <1>1, FeedsKept
<1>2. CASE NsStart \/ NsAbort \/ NsUnknown \/ NsPlain \/ NsScramFirst \/ NsScramFinal \/ NsScramAck \/ NsExternal
  BY <1>2, SaslKept
<1>3. CASE NsRegister  BY <1>3, RegisterKept
<1>4. CASE NsGroup  BY <1>4, GroupKept
<1>5. CASE NsGhost \/ NsRegain  BY <1>5, OrderKept
<1>6. CASE NsRefuse \/ NsSetPassword \/ NsResetMail \/ NsSetEmail \/ NsVerify \/ NsCert \/ NsUngroup \/ NsUnsuspend \/ NsSaset
  BY <1>6, StoreOnlyKept
<1>7. CASE NsResetPass  BY <1>7, ResetPassKept
<1>8. CASE NsCmdRegister  BY <1>8, CmdRegisterKept
<1>9. CASE NsIdentify \/ NsLogout \/ NsDrop \/ NsSuspend  BY <1>9, LoginsKept
<1> QED  BY <1>1, <1>2, <1>3, <1>4, <1>5, <1>6, <1>7, <1>8, <1>9 DEF NsStep

LEMMA NothingKept ==
    ASSUME WInv, UNCHANGED <<conn, up, watch, toNs, toIrc, store, view, excused>>
    PROVE  WInv'
<1> USE DEF WInv
<1>1. Lone(store)' /\ Newcomers' /\ Once' /\ Watching'  BY DEF Lone, Filed, Newcomers, Once, Watching
<1>2. Guarded'
  <2>1. \A c : Watched(c) => Watched(c)'  BY DEF Watched
  <2> QED  BY <2>1 DEF Guarded
<1> QED  BY <1>1, <1>2

\* What time brings.
LEMMA TimersKept ==
    ASSUME Inv, WInv, Timers
    PROVE  WInv'
<1>1. ASSUME NEW c \in Conn, SaslTimeout(c)  PROVE WInv'
  <2>1. c \in Here /\ Put(c, SaslFinish(c, FALSE)) /\ DullRead /\ UNCHANGED <<up, watch, store, view, excused>>
    BY <1>1 DEF SaslTimeout, DullRead, ns, ghosts
  <2> QED  BY <2>1, FinishKept
<1>2. ASSUME NEW c \in Conn, Rescue(c)  PROVE WInv'
  <2> DEFINE k == [conn[c] EXCEPT !.held = FALSE]
  <2>1. conn \in [Conn -> KConn] /\ conn[c] \in KConn /\ toNs \in Seq(NsLine)  BY DEF Inv, HubTyped, LinkTyped
  <2>2. k \in KConn /\ k.st = conn[c].st /\ k.nick = conn[c].nick /\ k.acct = conn[c].acct  BY <2>1 DEF KConn
  <2>3. /\ conn' = [conn EXCEPT ![c] = k] /\ toNs' = toNs \o << >> /\ DullRead
        /\ UNCHANGED <<up, watch, store, view, excused>>
    BY <1>2, <2>1 DEF Rescue, DullRead, ns, ghosts
  <2>4. << >> \in Seq(NsLine) /\ 1..Len(<< >>) = {}  BY OneLine
  <2> HIDE DEF k
  <2> QED  BY <2>2, <2>3, <2>4, HubDull
<1>3. CASE NsAbandon  BY <1>3, SaslKept
<1>4. CASE NsEnforce  BY <1>4, LoginsKept
<1>5. CASE Calm
  <2>1. UNCHANGED <<conn, up, watch, toNs, toIrc, store, view, excused>>  BY <1>5 DEF Calm, ghosts
  <2> QED  BY <2>1, NothingKept
<1> QED  BY <1>1, <1>2, <1>3, <1>4, <1>5 DEF Timers

\* The link breaks, and a new picture begins.
LEMMA LinkKept ==
    ASSUME Inv, WInv, LoseLink \/ LinkUp
    PROVE  WInv'
<1> USE DEF WInv
<1>1. Len(<< >>) = 0 /\ 1..Len(<< >>) = {}  BY OneLine
<1>2. CASE LoseLink
  <2>1. UNCHANGED <<conn, store, view>> /\ up' = FALSE /\ watch' = FALSE /\ toNs' = << >> /\ toIrc' = << >>
    BY <1>2 DEF LoseLink, ns, ghosts
  <2>2. Lone(store)'  BY <2>1 DEF Lone, Filed
  <2>3. Newcomers'  BY <1>1, <2>1 DEF Newcomers, Introduced
  <2>4. Once' /\ Watching' /\ Guarded'  BY <1>1, <2>1 DEF Once, Watching, Guarded
  <2> QED  BY <2>2, <2>3, <2>4
<1>3. CASE LinkUp
  <2> DEFINE m == [k |-> "SVCWATCH"]
  <2>1. /\ ~up /\ up' = TRUE /\ view' = [c \in Conn |-> None] /\ toIrc' = toIrc \o <<m>> /\ UNCHANGED <<conn, watch, toNs, store>>
    BY <1>3 DEF LinkUp, Out
  <2>2. ~watch /\ toNs = << >> /\ toIrc = << >>  BY <2>1 DEF Inv, LinkTyped
  <2> HIDE DEF m
  <2>3. toIrc' = <<m>> /\ \A i \in 1..Len(<<m>>) : i = 1
    <3>1. m \in {m}  OBVIOUS
    <3>2. <<m>> \in Seq({m}) /\ Len(<<m>>) = 1  BY <3>1, OneLine
    <3>3. << >> \o <<m>> = <<m>>  BY <3>2
    <3>4. 1..1 = {1}  OBVIOUS
    <3> QED  BY <2>1, <2>2, <3>2, <3>3, <3>4
  <2>4. Lone(store)'  BY <2>1 DEF Lone, Filed
  <2>5. Newcomers'  BY <1>1, <2>1, <2>2 DEF Newcomers, Introduced
  <2>6. Once' /\ Guarded'  BY <1>1, <2>1, <2>2 DEF Once, Guarded
  <2>7. Watching'  BY <2>1, <2>2, <2>3 DEF Watching
  <2> QED  BY <2>4, <2>5, <2>6, <2>7
<1> QED  BY <1>2, <1>3

LEMMA WatchStep == Inv /\ WInv /\ [Next]_vars => Inv' /\ WInv'
<1> SUFFICES ASSUME Inv, WInv, [Next]_vars  PROVE Inv' /\ WInv'  OBVIOUS
<1>1. Inv'  BY Step
<1>2. CASE Next
  <2>1. UNCHANGED play  BY <1>2 DEF Next
  <2>2. CASE ByUsers  BY <1>1, <2>1, <2>2, ByUsersKept
  <2>3. CASE HubStep  BY <1>1, <2>1, <2>3, HubStepKept
  <2>4. CASE NsStep  BY <1>1, <2>4, NsStepKept
  <2>5. CASE Timers  BY <1>1, <2>5, TimersKept
  <2>6. CASE LoseLink \/ LinkUp  BY <1>1, <2>6, LinkKept
  <2>7. WInv'  BY <1>2, <2>2, <2>3, <2>4, <2>5, <2>6 DEF Next
  <2> QED  BY <1>1, <2>7
<1>3. CASE UNCHANGED vars
  <2>1. UNCHANGED <<conn, up, watch, toNs, toIrc, store, view, excused>>  BY <1>3 DEF vars, hub, ns, ghosts
  <2> QED  BY <1>1, <2>1, NothingKept
<1> QED  BY <1>2, <1>3

LEMMA WatchStart == Init => Inv /\ WInv
<1> SUFFICES ASSUME Init  PROVE Inv /\ WInv  OBVIOUS
<1>1. Inv  BY Start
<1>2. /\ play \in Plays /\ up = TRUE /\ watch = TRUE /\ toNs = << >> /\ toIrc = << >> /\ store = play.store
      /\ view = [c \in Conn |-> IF play.start[c] = "user"
                                THEN [nick |-> FirstNick[c], acct |-> play.acct[c], due |-> Due(FirstNick[c], play.acct[c])]
                                ELSE None]
  BY DEF Init
<1>3. Len(<< >>) = 0 /\ 1..Len(<< >>) = {}  BY OneLine
<1>4. ASSUME NEW c \in Conn
      PROVE  /\ conn[c].st = play.start[c] /\ conn[c].acct = play.acct[c]
             /\ (play.start[c] # "none" => conn[c].nick = FirstNick[c])
  <2>1. PICK p : conn = [x \in Conn |->
                  [st |-> play.start[x], nick |-> IF play.start[x] = "none" THEN None ELSE FirstNick[x],
                   acct |-> play.acct[x], mech |-> None, style |-> "legacy", held |-> FALSE, pass |-> p[x],
                   ready |-> play.start[x] = "user", regs |-> 0]]
    BY DEF Init
  <2> QED  BY <2>1
<1>5. Lone(store)
  <2>1. Lone(play.store)  BY <1>2, Types
  <2> QED  BY <1>2, <2>1
<1>6. Newcomers  BY <1>2, <1>3, <1>4 DEF Newcomers, Introduced
<1>7. Once /\ Watching  BY <1>2, <1>3 DEF Once, Watching
<1>8. Guarded
  <2>1. SUFFICES ASSUME Enforce, NEW c \in Conn, conn[c].st = "user"  PROVE Watched(c)  BY DEF Guarded
  <2>2. play.start[c] = "user" /\ conn[c].nick = FirstNick[c] /\ conn[c].acct = play.acct[c] /\ FirstNick[c] \in Nick
    BY <1>4, <2>1, Consts
  <2>3. view[c].due = Due(FirstNick[c], play.acct[c])  BY <1>2, <2>2
  <2>4. view[c] # None  BY <1>1, <1>2, <1>3, <2>1 DEF Inv, Accounts, Introduced
  <2>5. CASE view[c].due # None
    <3>1. Still(toNs, c)  BY <1>2, <1>3 DEF Still
    <3> QED  BY <2>4, <2>5, <3>1 DEF Watched
  <2>6. CASE view[c].due = None
    <3>1. OwnerOf(FirstNick[c]) \in {None, play.acct[c]}  BY <2>1, <2>3, <2>6 DEF Due
    <3>2. store \in Stores  BY <1>1 DEF Inv, NsTyped, Stores
    <3>3. Allowed(store, FirstNick[c], play.acct[c])  BY <1>5, <2>2, <3>1, <3>2, AllowedOwner
    <3> QED  BY <2>2, <3>3 DEF Watched
  <2> QED  BY <2>5, <2>6
<1> QED  BY <1>1, <1>5, <1>6, <1>7, <1>8 DEF WInv

\* Once nothing is on the link, whoever sits on somebody's nick has a deadline, unless
\* he was there first, changed his account there or could not be renamed: between the
\* step that put him there and NickServ's look at it, in every interleaving of the feed
\* with logins, renames, drops and broken links, a line or an order for him is on its way
\* (enforce_check, ev_user, ev_nick, svc_command).
THEOREM SquattersHolds == Spec => []Squatters
<1>1. Spec => [](Inv /\ WInv)  BY WatchStart, WatchStep, PTL DEF Spec
<1>2. Inv /\ WInv => Squatters
  <2> SUFFICES ASSUME Inv, WInv, Quiet, Enforce, NEW c \in Users \ excused
               PROVE  OwnerOf(conn[c].nick) \in {None, conn[c].acct} \/ view[c].due # None
    BY DEF Squatters
  <2>1. up /\ watch /\ toNs = << >> /\ toIrc = << >>  BY DEF Quiet
  <2>2. Len(<< >>) = 0 /\ 1..Len(<< >>) = {}  BY OneLine
  <2>3. c \in Conn /\ conn[c].st = "user" /\ Watched(c)  BY <2>1 DEF Users, WInv, Guarded
  <2>4. Allowed(store, conn[c].nick, conn[c].acct) \/ view[c].due # None
    BY <2>1, <2>2, <2>3 DEF Watched, Coming, Pushed, Asking
  <2>5. conn[c].nick \in Nick /\ store \in Stores /\ Lone(store)  BY <2>3 DEF Inv, HubTyped, NsTyped, Stores, WInv
  <2>6. Allowed(store, conn[c].nick, conn[c].acct) => OwnerOf(conn[c].nick) \in {None, conn[c].acct}  BY <2>5, AllowedOwner
  <2> QED  BY <2>4, <2>6
<1> QED  BY <1>1, <1>2, PTL
=============================================================================
