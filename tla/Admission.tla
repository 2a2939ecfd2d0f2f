----------------------------- MODULE Admission -----------------------------
(***************************************************************************)
(* Who may connect (net.c accept_common): the limit on connections, the    *)
(* bans known by address, the connect-flood counter, the caps of the       *)
(* connection classes and the cap for one address; the proxy scan that a   *)
(* new connection starts, and the exemption of the connection a probe      *)
(* makes back to us (protection.c); and what moves the counts afterwards:  *)
(* an address handed over by a gateway (cmd_reg.c), a rehash, the end of a *)
(* connection (server.c).                                                  *)
(*                                                                         *)
(* An address stands for its limit key (server_ip_key).  Bans are the      *)
(* subject of Bans: here they are the addresses refused.                   *)
(***************************************************************************)
EXTENDS Integers, Sequences, FiniteSets

CONSTANTS
    Addr, Gateways,        \* addresses; those of trusted gateways and proxies
    Classes, ClassOf,      \* [[classes]] and the first one whose hosts match an address, or None
    Caps,                  \* what max_clients of the classes may be set to; 0: no limit
    max_connections, max_connections_per_ip, ClassPerIp,
    connect_flood_max, connect_flood_window, FloodSlots,
    Probes, scan_max_concurrent, scan_timeout, RECENT_GRACE, scan_negcache,
    Slot,                  \* where an address hashes to in the recent and the negative table
    MaxClock, MaxAttempts,
    MaxRare,               \* verdicts, rehashes, expired bans
    None
ASSUME AdmissionTypes ==
    /\ IsFiniteSet(Addr) /\ None \notin Addr \cup Classes
    /\ Gateways \subseteq Addr /\ ClassOf \in [Addr -> Classes \cup {None}] /\ Caps \subseteq [Classes -> Nat] /\ Caps # {}
    /\ {max_connections, max_connections_per_ip, connect_flood_max, connect_flood_window, FloodSlots} \subseteq Nat
    /\ ClassPerIp \in [Classes -> Nat] /\ {Probes, scan_max_concurrent, scan_timeout, RECENT_GRACE, scan_negcache} \subseteq Nat
    /\ FloodSlots > 0 /\ {MaxClock, MaxAttempts, MaxRare} \subseteq Nat

VARIABLES
    conns,       \* all_clients, the newest first
    n_clients, ip_counts, class_count,
    cap,         \* max_clients of each class now
    banned,
    tracks,      \* g_connect_tracks
    seen,        \* what the tracks stand for: a counter of each address, from its last entry in the table on
    scans,       \* probes in flight for an address
    recent, negcache,
    relays,      \* connections taken for a probe's, since the last scan of the address began
    now, attempts, rare
counts == <<n_clients, ip_counts, class_count>>
prot == <<scans, recent, negcache, relays>>
vars == <<conns, counts, cap, banned, tracks, seen, prot, now, attempts, rare>>

Rare == rare < MaxRare /\ rare' = rare + 1
Members(c) == {i \in DOMAIN conns : conns[i].class = c}
Without(s, i) == SubSeq(s, 1, i - 1) \o SubSeq(s, i + 1, Len(s))

(***************************************************************************)
(* Connection classes.                                                     *)
(***************************************************************************)
\* net_release_class
Released(cnt, c) == IF c # None /\ cnt[c] > 0 THEN [cnt EXCEPT ![c] = @ - 1] ELSE cnt

\* Mutant: a class that has no room left keeps its name on the connection.
AssignKept(caps, cnt, old, ip) ==
    LET r == Released(cnt, old)
        c == ClassOf[ip] IN
    IF c = None THEN [ok |-> TRUE, count |-> r, class |-> None]
    ELSE IF caps[c] > 0 /\ r[c] >= caps[c] THEN [ok |-> FALSE, count |-> r, class |-> c]
    ELSE [ok |-> TRUE, count |-> [r EXCEPT ![c] = @ + 1], class |-> c]

\* net_assign_class: the class the connection was in is left first.
Assign(caps, cnt, old, ip) ==
    LET r == Released(cnt, old)
        c == ClassOf[ip] IN
    IF c = None THEN [ok |-> TRUE, count |-> r, class |-> None]
    ELSE IF caps[c] > 0 /\ r[c] >= caps[c] THEN [ok |-> FALSE, count |-> r, class |-> None]
    ELSE [ok |-> TRUE, count |-> [r EXCEPT ![c] = @ + 1], class |-> c]

\* net_reclass_all: counted anew, the newest connection first.
Reclassed(caps) ==
    LET walk[i \in 0..Len(conns)] ==
          IF i = 0 THEN [count |-> [c \in Classes |-> 0], list |-> <<>>]
          ELSE LET to == Assign(caps, walk[i - 1].count, None, conns[i].ip) IN
               [count |-> to.count, list |-> Append(walk[i - 1].list, [conns[i] EXCEPT !.class = to.class])]
    IN walk[Len(conns)]

PerIp(c) == IF c # None /\ ClassPerIp[c] > 0 THEN ClassPerIp[c] ELSE max_connections_per_ip

(***************************************************************************)
(* The connect-flood table.                                                *)
(***************************************************************************)
Empty == [ip |-> None, start |-> 0, count |-> 0]
Older(i, j) == tracks[i].start < tracks[j].start \/ (tracks[i].start = tracks[j].start /\ i < j)

\* Mutant: an address without a slot takes the one its second hashes to.
BySecond(a) ==
    IF \E i \in DOMAIN tracks : tracks[i].ip = a THEN CHOOSE i \in DOMAIN tracks : tracks[i].ip = a
    ELSE (now % FloodSlots) + 1

\* The slot of an address, else the first empty one, else the one whose window began first.
SlotFor(a) ==
    LET mine == {i \in DOMAIN tracks : tracks[i].ip = a}
        free == {i \in DOMAIN tracks : tracks[i].ip = None} IN
    IF mine # {} THEN CHOOSE i \in mine : TRUE
    ELSE IF free # {} THEN CHOOSE i \in free : \A j \in free : i <= j
    ELSE CHOOSE i \in DOMAIN tracks : \A j \in DOMAIN tracks \ {i} : Older(i, j)

Count(t, a) ==
    IF t.ip # a \/ now - t.start > connect_flood_window
    THEN [ip |-> a, start |-> now, count |-> 1]
    ELSE [t EXCEPT !.count = @ + 1]
Entered(a) == \E i \in DOMAIN tracks : tracks[i].ip = a
\* The counter of an address starts anew only when it enters the table.
Counter(a) == [seen EXCEPT ![a] = IF Entered(a) THEN Count(@, a) ELSE [ip |-> a, start |-> now, count |-> 1]]
\* net_connect_flood_hit
Tracked(a) == [tracks EXCEPT ![SlotFor(a)] = Count(@, a)]
FloodHit(a) == connect_flood_max > 0 /\ Tracked(a)[SlotFor(a)].count > connect_flood_max

(***************************************************************************)
(* The proxy scan.                                                         *)
(***************************************************************************)
slot_live(tab, a) == tab[Slot[a]].ip = a /\ tab[Slot[a]].until > now
slot_set(tab, a, until) == [tab EXCEPT ![Slot[a]] = [ip |-> a, until |-> until]]
\* protection_ip_related, which ends the exemption it grants
Related(a) == scans[a] > 0 \/ slot_live(recent, a)
Consumed(a) == IF Related(a) THEN slot_set(recent, a, now) ELSE recent

n_scans == Cardinality({p \in Addr \X (1..Probes) : p[2] <= scans[p[1]]})
\* Mutant: the probes in flight are compared before the new ones are counted.
ScansAtLimit(a) == ~Related(a) /\ Probes > 0 /\ ~slot_live(negcache, a) /\ scans[a] = 0 /\ n_scans <= scan_max_concurrent

\* protection_scan_start
Scans(a) == ~Related(a) /\ Probes > 0 /\ ~slot_live(negcache, a) /\ scans[a] = 0 /\ n_scans + Probes <= scan_max_concurrent

(***************************************************************************)
(* accept_common: its refusals, in their order, and the admission.         *)
(***************************************************************************)
Attempt == attempts < MaxAttempts /\ attempts' = attempts + 1
Screened(a) == (max_connections > 0 => n_clients < max_connections) /\ a \notin banned
\* The relays and the flood counter have been looked at.
Passed(a) ==
    /\ Attempt /\ Screened(a) /\ (Related(a) \/ ~FloodHit(a))
    /\ IF Related(a) \/ connect_flood_max = 0 THEN UNCHANGED <<tracks, seen>>
       ELSE tracks' = Tracked(a) /\ seen' = Counter(a)
Assigned(a) == Assign(cap, class_count, None, a)

RefuseEarly(a) == Attempt /\ ~Screened(a) /\ UNCHANGED <<conns, counts, cap, banned, tracks, seen, prot, now, rare>>

RefuseFlood(a) ==
    /\ Attempt /\ Screened(a) /\ ~Related(a) /\ FloodHit(a)
    /\ tracks' = Tracked(a) /\ seen' = Counter(a)
    /\ banned' = banned \cup {a}
    /\ UNCHANGED <<conns, counts, cap, prot, now, rare>>

RefuseClass(a) ==
    /\ Passed(a) /\ ~Assigned(a).ok
    /\ recent' = Consumed(a)
    /\ UNCHANGED <<conns, counts, cap, banned, scans, negcache, relays, now, rare>>

\* Mutant: the cap is off by one.
OverIpLate(a) == ~Related(a) /\ PerIp(Assigned(a).class) > 0 /\ ip_counts[a] > PerIp(Assigned(a).class)

OverIp(a) == ~Related(a) /\ PerIp(Assigned(a).class) > 0 /\ ip_counts[a] >= PerIp(Assigned(a).class)
\* The connection is freed by client_free, which knows nothing of its class.
RefuseHost(a) ==
    /\ Passed(a) /\ Assigned(a).ok /\ OverIp(a)
    /\ class_count' = Assigned(a).count
    /\ recent' = Consumed(a)
    /\ UNCHANGED <<conns, n_clients, ip_counts, cap, banned, scans, negcache, relays, now, rare>>

Admit(a) ==
    /\ Passed(a) /\ Assigned(a).ok /\ ~OverIp(a)
    /\ conns' = <<[ip |-> a, key |-> a, class |-> Assigned(a).class, quit |-> FALSE, webirc |-> FALSE, relay |-> Related(a)]>> \o conns
    /\ n_clients' = n_clients + 1
    /\ ip_counts' = [ip_counts EXCEPT ![a] = @ + 1]
    /\ class_count' = Assigned(a).count
    /\ IF Scans(a)
       THEN /\ scans' = [scans EXCEPT ![a] = Probes]
            /\ recent' = slot_set(recent, a, now + scan_timeout + RECENT_GRACE)
            /\ relays' = [relays EXCEPT ![a] = 0]
       ELSE /\ recent' = Consumed(a)
            /\ relays' = IF Related(a) THEN [relays EXCEPT ![a] = @ + 1] ELSE relays
            /\ UNCHANGED scans
    /\ UNCHANGED <<cap, banned, negcache, now, rare>>

(***************************************************************************)
(* Afterwards.                                                             *)
(***************************************************************************)
\* client_apply_real_address: WEBIRC or a PROXY header names the real address.
RealAddress(i, a) ==
    /\ conns[i].ip \in Gateways /\ ~conns[i].webirc /\ ~conns[i].quit
    /\ LET x == Assign(cap, class_count, conns[i].class, a) IN
       /\ class_count' = x.count
       /\ conns' = [conns EXCEPT ![i] = [@ EXCEPT !.ip = a, !.class = x.class, !.webirc = x.ok, !.quit = ~x.ok \/ a \in banned]]
    /\ UNCHANGED <<n_clients, ip_counts, cap, banned, tracks, seen, prot, now, attempts, rare>>

Enforced(a) == [i \in DOMAIN conns |-> IF conns[i].ip = a THEN [conns[i] EXCEPT !.quit = TRUE] ELSE conns[i]]

\* A DNSBL verdict bans the address and disconnects all of it; one about a gateway is not used.
Listed(i) ==
    /\ Rare /\ ~conns[i].webirc /\ ~conns[i].quit
    /\ banned' = banned \cup {conns[i].ip}
    /\ conns' = Enforced(conns[i].ip)
    /\ UNCHANGED <<counts, cap, tracks, seen, prot, now, attempts>>

\* scan_done_clean: one probe ends without a hit, at the latest by its deadline.
ProbeClean(a) ==
    /\ scans[a] > 0
    /\ scans' = [scans EXCEPT ![a] = @ - 1]
    /\ IF scans[a] = 1
       THEN /\ recent' = slot_set(recent, a, now + RECENT_GRACE)
            /\ negcache' = IF scan_negcache > 0 THEN slot_set(negcache, a, now + scan_negcache) ELSE negcache
       ELSE UNCHANGED <<recent, negcache>>
    /\ UNCHANGED <<conns, counts, cap, banned, tracks, seen, relays, now, attempts, rare>>

\* scan_hit: one is enough.
ProbeHit(a) ==
    /\ Rare /\ scans[a] > 0
    /\ scans' = [scans EXCEPT ![a] = 0]
    /\ recent' = slot_set(recent, a, now + RECENT_GRACE)
    /\ banned' = banned \cup {a}
    /\ conns' = Enforced(a)
    /\ UNCHANGED <<counts, cap, tracks, seen, negcache, relays, now, attempts>>

Leave(i) ==
    /\ ~conns[i].quit
    /\ conns' = [conns EXCEPT ![i].quit = TRUE]
    /\ UNCHANGED <<counts, cap, banned, tracks, seen, prot, now, attempts, rare>>

\* Mutant: the count that is given back is the one of the address it has now.
CloseByAddress(i) ==
    /\ conns[i].quit
    /\ conns' = Without(conns, i)
    /\ n_clients' = n_clients - 1
    /\ ip_counts' = [ip_counts EXCEPT ![conns[i].ip] = IF @ > 0 THEN @ - 1 ELSE 0]
    /\ class_count' = Released(class_count, conns[i].class)
    /\ UNCHANGED <<cap, banned, tracks, seen, prot, now, attempts, rare>>

\* server_remove_client, unlink_connection: at the end of the pass
Close(i) ==
    /\ conns[i].quit
    /\ conns' = Without(conns, i)
    /\ n_clients' = n_clients - 1
    /\ ip_counts' = [ip_counts EXCEPT ![conns[i].key] = IF @ > 0 THEN @ - 1 ELSE 0]
    /\ class_count' = Released(class_count, conns[i].class)
    /\ UNCHANGED <<cap, banned, tracks, seen, prot, now, attempts, rare>>

\* server_rehash
Rehash(caps) ==
    /\ Rare
    /\ cap' = caps
    /\ class_count' = Reclassed(caps).count /\ conns' = Reclassed(caps).list
    /\ UNCHANGED <<n_clients, ip_counts, banned, tracks, seen, prot, now, attempts>>

Unban(a) ==
    /\ Rare /\ a \in banned
    /\ banned' = banned \ {a}
    /\ UNCHANGED <<conns, counts, cap, tracks, seen, prot, now, attempts>>

Tick == now < MaxClock /\ now' = now + 1 /\ UNCHANGED <<conns, counts, cap, banned, tracks, seen, prot, attempts, rare>>

Init ==
    /\ conns = <<>> /\ n_clients = 0
    /\ ip_counts = [a \in Addr |-> 0] /\ class_count = [c \in Classes |-> 0] /\ cap \in Caps
    /\ banned = {}
    /\ tracks = [i \in 1..FloodSlots |-> Empty] /\ seen = [a \in Addr |-> Empty]
    /\ scans = [a \in Addr |-> 0] /\ relays = [a \in Addr |-> 0]
    /\ recent = [s \in {Slot[a] : a \in Addr} |-> [ip |-> None, until |-> 0]]
    /\ negcache = recent
    /\ now = 0 /\ attempts = 0 /\ rare = 0

Next ==
    \/ \E a \in Addr :
         \/ RefuseEarly(a) \/ RefuseFlood(a) \/ RefuseClass(a) \/ RefuseHost(a) \/ Admit(a)
         \/ ProbeClean(a) \/ ProbeHit(a) \/ Unban(a)
    \/ \E i \in DOMAIN conns :
         \/ Listed(i) \/ Leave(i) \/ Close(i)
         \/ \E a \in Addr \ Gateways : RealAddress(i, a)
    \/ \E caps \in Caps : Rehash(caps)
    \/ Tick
Spec == Init /\ [][Next]_vars

(***************************************************************************)
(* Properties.                                                             *)
(***************************************************************************)
TypeOK ==
    /\ conns \in Seq([ip : Addr, key : Addr, class : Classes \cup {None}, quit : BOOLEAN, webirc : BOOLEAN, relay : BOOLEAN])
    /\ max_connections > 0 => Len(conns) <= max_connections
    /\ scans \in [Addr -> 0..Probes] /\ n_scans <= scan_max_concurrent

\* The counts are exactly the connections they stand for (server_add_connection,
\* unlink_connection), also for one whose address a gateway replaced.
CountsExact ==
    /\ n_clients = Len(conns)
    /\ \A a \in Addr : ip_counts[a] = Cardinality({i \in DOMAIN conns : conns[i].key = a})

\* No class has more connections than its max_clients, through admission, gateways, teardown and
\* rehash: the count is never below what it counts.
ClassCapped ==
    \A c \in Classes :
      /\ Cardinality(Members(c)) <= class_count[c]
      /\ cap[c] > 0 => class_count[c] <= cap[c]

\* One address never holds more connections than its cap, those taken for a probe's apart.
PerIpCapped ==
    \A a \in Addr :
      LET most == PerIp(ClassOf[a]) IN
      most > 0 => Cardinality({i \in DOMAIN conns : conns[i].key = a /\ ~conns[i].relay}) <= most

\* The table counts an address as a counter of its own would, whichever addresses connect in turn
\* (the comment in net_connect_flood_hit), and forgets one only when as many others as there are
\* slots began their windows no earlier: nothing less makes an address that floods start at 1.
Outrun(a) == {x \in Addr \ {a} : seen[x].ip = x /\ seen[x].start >= seen[a].start}
FloodCounted ==
    \A a \in Addr :
      seen[a].ip = a => (\E i \in DOMAIN tracks : tracks[i] = seen[a]) \/ Cardinality(Outrun(a)) >= FloodSlots

\* class_count is the live connections of each class (server.h).
ClassExact == \A c \in Classes : class_count[c] = Cardinality(Members(c))

\* A scan exempts one connection (protection_ip_related's comment).
OneRelay == \A a \in Addr : relays[a] <= 1

\* All counts, of connections and of attempts, are exactly what they stand for.
Counted == TypeOK /\ CountsExact /\ FloodCounted

\* No limit is passed, for a class or for an address, in any order of admissions, gateways,
\* rehashes and teardowns.
Capped == ClassCapped /\ PerIpCapped
=============================================================================
