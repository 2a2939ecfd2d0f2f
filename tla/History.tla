------------------------------ MODULE History -------------------------------
(***************************************************************************)
(* Message history and read markers of one server (history.c, server.c,    *)
(* CHATHISTORY, REDACT, MARKREAD and RENAME): a ring per conversation that *)
(* grows to history_size and then overwrites its oldest entry, redaction   *)
(* out of the middle of a ring, a bound on the number of conversations,    *)
(* the move of a channel's conversation with its name, a change of the     *)
(* size, and the file that brings it all back after a stop.                *)
(*                                                                         *)
(* Who may redact is left out: a channel's operators may take back any     *)
(* message of it, and in a private conversation each one is one of the     *)
(* two's own.                                                              *)
(***************************************************************************)
EXTENDS Integers, FiniteSets, SequencesExt

CONSTANTS
    Chans, Dm,              \* conversations: channel names, and one pair of accounts
    FirstAlloc,             \* 4
    HIST_MAX_BUFFERS, MAX_MARKERS, CHATHISTORY_MAX,
    None,
    PAGE,                   \* the limit of the client that pages back
    Plays,                  \* the workloads of this instance (see play)
    MaxMsgs, MaxClock       \* bounds: messages, the most of any workload, and seconds

Keys == Chans \cup {Dm}
ASSUME HistoryTypes ==
    /\ Dm \notin Chans /\ None \notin Keys
    /\ \A p \in Plays : p.sizes \subseteq Nat /\ p.msgs \in 0..MaxMsgs /\ {p.redacts, p.rare} \subseteq Nat
    /\ {FirstAlloc, HIST_MAX_BUFFERS, MAX_MARKERS, CHATHISTORY_MAX} \subseteq Nat \ {0}
    /\ {PAGE, MaxMsgs, MaxClock} \subseteq Nat

VARIABLES
    play,      \* what happens in this behaviour: the accounts that use MARKREAD, what history_size may be
               \* set to, bounds on messages, redactions, and on all the rest but further pages (rare)
    open,      \* the channels there are
    cap,       \* messages.history_size
    bufs,      \* history: the rings, by conversation
    markers,   \* read markers, by account and conversation
    dirty, file,
    now, next, \* the clock; the next message id
    reader,    \* a client paging back: its conversation, whether it sees events, what it has
    redacted, lapsed, \* ids taken back; the program stopped with changes it had not saved
    unsaved,   \* a MARKREAD has set a marker since the last save
    rare
vars == <<play, open, cap, bufs, markers, dirty, file, now, next, reader, redacted, lapsed, unsaved, rare>>

Message == [id : 1..MaxMsgs, ms : 0..MaxClock, event : BOOLEAN]
Free == [id |-> 0, ms |-> 0, event |-> FALSE]
Rare == rare < play.rare /\ rare' = rare + 1
Forget(f, S) == [x \in DOMAIN f \ S |-> f[x]]
At(f, x, v) == [y \in DOMAIN f \cup {x} |-> IF y = x THEN v ELSE f[y]]
MaxOf(a, b) == IF a > b THEN a ELSE b
MinOf(a, b) == IF a < b THEN a ELSE b

(***************************************************************************)
(* The ring.                                                               *)
(***************************************************************************)
hist_buf == [cap |-> 0, alloc |-> 0, head |-> 0, n |-> 0, e |-> <<>>, last |-> 0]

\* Mutant: a full ring overwrites its newest entry.
AddOverNewest(b, c, m) ==
    LET b0 == IF b.alloc # 0 /\ b.cap # c THEN hist_buf ELSE b
        alloc == IF b0.n = b0.alloc /\ b0.alloc < c THEN MinOf(c, IF b0.alloc = 0 THEN FirstAlloc ELSE b0.alloc * 2) ELSE b0.alloc
        e == [s \in 0..alloc - 1 |-> IF s < b0.alloc THEN b0.e[s] ELSE Free]
        full == b0.n = c
    IN [cap |-> c, alloc |-> alloc, e |-> [e EXCEPT ![IF full THEN c - 1 ELSE b0.n] = m], last |-> m.ms,
        head |-> 0, n |-> IF full THEN c ELSE b0.n + 1]

\* hist_buf_add: at another size the ring starts over; a full one below its capacity doubles;
\* at capacity the oldest entry is overwritten.
hist_buf_add(b, c, m) ==
    LET b0 == IF b.alloc # 0 /\ b.cap # c THEN hist_buf ELSE b
        alloc == IF b0.n = b0.alloc /\ b0.alloc < c THEN MinOf(c, IF b0.alloc = 0 THEN FirstAlloc ELSE b0.alloc * 2) ELSE b0.alloc
        e == [s \in 0..alloc - 1 |-> IF s < b0.alloc THEN b0.e[s] ELSE Free]
        full == b0.n = c
        at == IF full THEN b0.head ELSE b0.n
    IN [cap |-> c, alloc |-> alloc, e |-> [e EXCEPT ![at] = m], last |-> m.ms,
        head |-> IF full THEN (b0.head + 1) % c ELSE b0.head,
        n |-> IF full THEN c ELSE b0.n + 1]

\* hist_buf_at for every position, oldest first.
Entries(b) == [i \in 1..b.n |-> b.e[(b.head + i - 1) % b.cap]]
EntriesOf(k) == IF k \in DOMAIN bufs THEN Entries(bufs[k]) ELSE <<>>
find_index(b, id) == SelectLastInSeq(Entries(b), LAMBDA m : m.id = id)

\* Mutant: the entry is taken out where it is, and the ring keeps its head.
DropInPlace(b, i) ==
    [b EXCEPT !.n = @ - 1,
              !.e = [s \in DOMAIN @ |-> IF s < i - 1 \/ s >= b.n - 1 THEN @[s] ELSE @[s + 1]]]

\* history_remove_msgid: laid out flat from slot 0 again, without the entry.
Without(b, i) ==
    LET flat == RemoveAt(Entries(b), i)
    IN [b EXCEPT !.head = 0, !.n = @ - 1,
                 !.e = [s \in DOMAIN @ |-> IF s < Len(flat) THEN flat[s + 1] ELSE @[s]]]

(***************************************************************************)
(* The conversations.                                                      *)
(***************************************************************************)
\* Those that have been quiet the longest.
Quietest == {k \in DOMAIN bufs : \A j \in DOMAIN bufs : bufs[k].last <= bufs[j].last}

history_add(k, m) ==
    /\ \/ k \in DOMAIN bufs /\ bufs' = At(bufs, k, hist_buf_add(bufs[k], cap, m))
       \/ /\ k \notin DOMAIN bufs /\ Cardinality(DOMAIN bufs) < HIST_MAX_BUFFERS
          /\ bufs' = At(bufs, k, hist_buf_add(hist_buf, cap, m))
       \/ /\ k \notin DOMAIN bufs /\ Cardinality(DOMAIN bufs) >= HIST_MAX_BUFFERS
          /\ \E q \in Quietest : bufs' = At(Forget(bufs, {q}), k, hist_buf_add(hist_buf, cap, m))
    /\ dirty' = TRUE

Exists(k) == k \in open \cup {Dm}
\* A message or a channel event is given the next id, and kept if history is on.
Record(k, event) ==
    /\ Exists(k) /\ next <= play.msgs /\ next' = next + 1
    /\ IF cap > 0 THEN history_add(k, [id |-> next, ms |-> now, event |-> event]) ELSE UNCHANGED <<bufs, dirty>>
    /\ UNCHANGED <<open, cap, markers, file, now, reader, redacted, lapsed, unsaved>>
\* send_msg, and a message that comes over a link
SendMsg(k) == Record(k, FALSE) /\ UNCHANGED rare
\* server_history_event: JOIN, PART, KICK, MODE, TOPIC and the like, in channels
HistoryEvent(k) == k \in Chans /\ Rare /\ Record(k, TRUE)

\* Mutant: the file is not marked for the next save.
RedactUnsaved(k, id) ==
    /\ Cardinality(redacted) < play.redacts
    /\ Exists(k) /\ k \in DOMAIN bufs /\ find_index(bufs[k], id) # 0
    /\ bufs' = [bufs EXCEPT ![k] = Without(@, find_index(@, id))]
    /\ redacted' = redacted \cup {id}
    /\ UNCHANGED <<open, cap, markers, dirty, file, now, next, reader, lapsed, unsaved, rare>>

\* REDACT here or over a link: a message that is still kept is taken out.
Redact(k, id) ==
    /\ Cardinality(redacted) < play.redacts
    /\ Exists(k) /\ k \in DOMAIN bufs /\ find_index(bufs[k], id) # 0
    /\ bufs' = [bufs EXCEPT ![k] = Without(@, find_index(@, id))]
    /\ dirty' = TRUE /\ redacted' = redacted \cup {id}
    /\ UNCHANGED <<open, cap, markers, file, now, next, reader, lapsed, unsaved, rare>>

(***************************************************************************)
(* Read markers.                                                           *)
(***************************************************************************)
server_marker_set(ms, a, k, t) ==
    IF <<a, k>> \notin DOMAIN ms /\ Cardinality(DOMAIN ms) >= MAX_MARKERS THEN ms
    ELSE At(ms, <<a, k>>, IF <<a, k>> \in DOMAIN ms THEN MaxOf(ms[<<a, k>>], t) ELSE t)

\* MARKREAD, to any time: moves forward only; the file is not marked dirty.
MarkRead(a, k, t) ==
    /\ Rare
    /\ Exists(k)
    /\ markers' = server_marker_set(markers, a, k, t)
    /\ unsaved' = (unsaved \/ markers' # markers)
    /\ UNCHANGED <<open, cap, bufs, dirty, file, now, next, reader, redacted, lapsed>>

\* Mutant: the markers are added under the new name while the old ones are still there.
RenameCrowded(ms, j, k) ==
    LET new == FoldSet(LAMBDA a, acc : server_marker_set(acc, a, k, ms[<<a, j>>]), ms, {a \in play.accounts : <<a, j>> \in DOMAIN ms})
    IN Forget(new, {<<a, j>> : a \in play.accounts})

\* Mutant: an account that had both keeps the one that was moved.
RenameOver(ms, j, k) ==
    FoldSet(LAMBDA a, acc : At(acc, <<a, k>>, ms[<<a, j>>]),
            Forget(ms, {<<a, j>> : a \in play.accounts}), {a \in play.accounts : <<a, j>> \in DOMAIN ms})

\* server_marker_rename: an account that had both keeps the newer one.
server_marker_rename(ms, j, k) ==
    FoldSet(LAMBDA a, acc : server_marker_set(acc, a, k, ms[<<a, j>>]),
            Forget(ms, {<<a, j>> : a \in play.accounts}), {a \in play.accounts : <<a, j>> \in DOMAIN ms})

\* history_rename_channel
history_rename_channel(bs, j, k) ==
    IF j \notin DOMAIN bs THEN bs ELSE At(Forget(bs, {j}), k, bs[j])

\* Mutant: a RENAME is not written to the file until something else is.
RenameUnsaved(j, k) ==
    /\ Rare
    /\ j \in open /\ k \in Chans \ open
    /\ open' = (open \ {j}) \cup {k}
    /\ bufs' = history_rename_channel(bufs, j, k)
    /\ markers' = server_marker_rename(markers, j, k)
    /\ reader' = IF reader.key \in {j, k} THEN [reader EXCEPT !.key = None, !.got = <<>>] ELSE reader
    /\ UNCHANGED <<cap, dirty, file, now, next, redacted, lapsed, unsaved>>

\* RENAME of a channel to a name no channel has: its history and everyone's markers go along.
Rename(j, k) ==
    /\ Rare
    /\ j \in open /\ k \in Chans \ open
    /\ open' = (open \ {j}) \cup {k}
    /\ bufs' = history_rename_channel(bufs, j, k)
    /\ markers' = server_marker_rename(markers, j, k)
    /\ dirty' = TRUE
    /\ reader' = IF reader.key \in {j, k} THEN [reader EXCEPT !.key = None, !.got = <<>>] ELSE reader
    /\ UNCHANGED <<cap, file, now, next, redacted, lapsed, unsaved>>

\* A channel's first JOIN; its last member leaves, its history stays.
ChannelOpens(k) ==
    /\ Rare
    /\ k \in Chans \ open /\ open' = open \cup {k}
    /\ UNCHANGED <<cap, bufs, markers, dirty, file, now, next, reader, redacted, lapsed, unsaved>>
ChannelCloses(k) ==
    /\ Rare
    /\ k \in Chans \cap open /\ open' = open \ {k}
    /\ reader' = IF reader.key = k THEN [reader EXCEPT !.key = None, !.got = <<>>] ELSE reader
    /\ UNCHANGED <<cap, bufs, markers, dirty, file, now, next, redacted, lapsed, unsaved>>

(***************************************************************************)
(* CHATHISTORY.                                                            *)
(***************************************************************************)
\* What the client may see: without event-playback there are only messages.
View(k, playback) == SelectSeq(EntriesOf(k), LAMBDA m : playback \/ ~m.event)

\* A reference is a message id or a time; history_ref gives the number of entries older
\* than it, and the number not newer.
Ref == [kind : {"id"}, at : 1..MaxMsgs] \cup [kind : {"ms"}, at : 0..MaxClock]
Known(v, r) == r.kind = "ms" \/ \E i \in DOMAIN v : v[i].id = r.at
before(v, r) ==
    IF r.kind = "id" THEN (CHOOSE i \in DOMAIN v : v[i].id = r.at) - 1
    ELSE Cardinality({i \in DOMAIN v : v[i].ms < r.at})
after(v, r) == IF r.kind = "id" THEN before(v, r) + 1 ELSE Cardinality({i \in DOMAIN v : v[i].ms <= r.at})

Slice(v, lo, hi) == SubSeq(v, lo + 1, hi)
Limited(n) == MinOf(n, CHATHISTORY_MAX)
Latest(v, lo, n) == Slice(v, MaxOf(lo, Len(v) - Limited(n)), Len(v))

Before(v, r, n) == Slice(v, MaxOf(0, before(v, r) - Limited(n)), before(v, r))
After(v, r, n) == Slice(v, after(v, r), MinOf(Len(v), after(v, r) + Limited(n)))
Around(v, r, n) ==
    LET half == Limited(n) \div 2
    IN Slice(v, MaxOf(0, before(v, r) - half), MinOf(Len(v), before(v, r) + Limited(n) - half))

\* Mutant: the references are taken in the order they were given.
BetweenOneWay(v, r, q, n) == Slice(v, after(v, r), MinOf(before(v, q), after(v, r) + Limited(n)))

\* In either order.
Between(v, r, q, n) ==
    LET swap == before(v, r) > before(v, q)
        lo == IF swap THEN after(v, q) ELSE after(v, r)
        hi == IF swap THEN before(v, r) ELSE before(v, q)
    IN Slice(v, lo, MinOf(hi, lo + Limited(n)))

\* Mutant: the time of a conversation is that of its oldest message.
TargetsOldest(lo, hi) == {k \in DOMAIN bufs : bufs[k].n > 0 /\ Entries(bufs[k])[1].ms \in lo..hi}

\* CHATHISTORY TARGETS, for one who is in every channel: last_ms is that of the newest entry of
\* any kind, with event-playback and without.
Targets(lo, hi) == {k \in DOMAIN bufs \cap (open \cup {Dm}) : bufs[k].n > 0 /\ bufs[k].last \in lo..hi}

Ids(v) == [i \in DOMAIN v |-> v[i].id]
\* A client fetches the newest messages, then asks for those before the oldest it has.
ReadLatest(k, playback) ==
    /\ Rare /\ cap > 0 /\ Exists(k)
    /\ reader' = [key |-> k, playback |-> playback, got |-> Ids(Latest(View(k, playback), 0, PAGE))]
    /\ UNCHANGED <<open, cap, bufs, markers, dirty, file, now, next, redacted, lapsed, unsaved>>
\* Mutant: the oldest message is looked up by its time.
ReadBeforeTime ==
    /\ cap > 0 /\ reader.key # None /\ reader.got # <<>>
    /\ LET v == View(reader.key, reader.playback)
           r == [kind |-> "id", at |-> reader.got[1]]
       IN /\ Known(v, r)
          /\ reader' = [reader EXCEPT !.got = Ids(Before(v, [kind |-> "ms", at |-> v[after(v, r)].ms], PAGE)) \o @]
    /\ UNCHANGED <<open, cap, bufs, markers, dirty, file, now, next, redacted, lapsed, unsaved, rare>>

ReadBefore ==
    /\ cap > 0 /\ reader.key # None /\ reader.got # <<>>
    /\ LET v == View(reader.key, reader.playback)
           r == [kind |-> "id", at |-> reader.got[1]]
       IN /\ Known(v, r) /\ reader' = [reader EXCEPT !.got = Ids(Before(v, r, PAGE)) \o @]
    /\ UNCHANGED <<open, cap, bufs, markers, dirty, file, now, next, redacted, lapsed, unsaved, rare>>

(***************************************************************************)
(* Time, the size, the file.                                               *)
(***************************************************************************)
Tick ==
    /\ Rare /\ now < MaxClock /\ now' = now + 1
    /\ UNCHANGED <<open, cap, bufs, markers, dirty, file, next, reader, redacted, lapsed, unsaved>>

\* A rehash with another history_size: the rings find out at their next message.
Resize(c) ==
    /\ Rare /\ c \in play.sizes \ {cap} /\ cap' = c
    /\ UNCHANGED <<open, bufs, markers, dirty, file, now, next, reader, redacted, lapsed, unsaved>>

Saved == [log |-> [k \in DOMAIN bufs |-> Entries(bufs[k])], markers |-> markers]
\* history_maybe_save, at a tick or at the end: nothing is written while history is off.
Saves == dirty /\ cap > 0
MaybeSave ==
    /\ Rare /\ Saves /\ file' = Saved /\ dirty' = FALSE /\ unsaved' = FALSE
    /\ UNCHANGED <<open, cap, bufs, markers, now, next, reader, redacted, lapsed>>

\* history_load
Loaded(log, c) ==
    [k \in {j \in DOMAIN log : log[j] # <<>>} |-> FoldLeft(LAMBDA b, m : hist_buf_add(b, c, m), hist_buf, log[k])]

\* Mutant: a stop in order does not force a save.
RestartUnsaved(clean) ==
    /\ Rare /\ open' = {} /\ dirty' = FALSE
    /\ bufs' = Loaded(file.log, cap) /\ markers' = file.markers /\ UNCHANGED file
    /\ lapsed' = (lapsed \/ (dirty /\ ~(clean /\ Saves)) \/ cap = 0)
    /\ reader' = [reader EXCEPT !.key = None, !.got = <<>>] /\ unsaved' = FALSE
    /\ UNCHANGED <<cap, now, next, redacted>>

\* The program stops, in order or not, and starts again.
Restart(clean) ==
    /\ Rare /\ open' = {} /\ dirty' = FALSE
    /\ LET f == IF clean /\ Saves THEN Saved ELSE file
       IN /\ file' = f
          /\ IF cap > 0 THEN bufs' = Loaded(f.log, cap) /\ markers' = f.markers
             ELSE bufs' = <<>> /\ markers' = <<>>
    /\ lapsed' = (lapsed \/ (dirty /\ ~(clean /\ Saves)) \/ cap = 0)
    /\ reader' = [reader EXCEPT !.key = None, !.got = <<>>] /\ unsaved' = FALSE
    /\ UNCHANGED <<cap, now, next, redacted>>

Init ==
    /\ \E k \in Chans : open = {k}
    /\ play \in Plays /\ cap \in play.sizes \ {0} /\ bufs = <<>> /\ markers = <<>>
    /\ dirty = FALSE /\ file = [log |-> <<>>, markers |-> <<>>] /\ now = 0 /\ next = 1
    /\ reader = [key |-> None, playback |-> FALSE, got |-> <<>>]
    /\ redacted = {} /\ lapsed = FALSE /\ unsaved = FALSE /\ rare = 0

Next ==
    /\ \/ \E k \in Keys : SendMsg(k) \/ HistoryEvent(k) \/ \E id \in 1..MaxMsgs : Redact(k, id)
       \/ \E a \in play.accounts, k \in Keys, t \in 0..MaxClock : MarkRead(a, k, t)
       \/ \E j, k \in Chans : Rename(j, k)
       \/ \E k \in Chans : ChannelOpens(k) \/ ChannelCloses(k)
       \/ \E k \in Keys, p \in BOOLEAN : ReadLatest(k, p)
       \/ ReadBefore
       \/ Tick \/ MaybeSave \/ \E c \in play.sizes : Resize(c)
       \/ \E clean \in BOOLEAN : Restart(clean)
    /\ UNCHANGED play
Spec == Init /\ [][Next]_vars

(***************************************************************************)
(* Properties.                                                             *)
(***************************************************************************)
\* All state is of its type; no ring holds more than it has room for, nor has more room than its
\* capacity, and one with room left starts at slot 0, as its growth relies on (hist_buf_add).
TypeOK ==
    /\ open \subseteq Chans /\ cap \in play.sizes /\ now \in 0..MaxClock /\ next \in 1..MaxMsgs + 1
    /\ DOMAIN bufs \subseteq Keys /\ Cardinality(DOMAIN bufs) <= HIST_MAX_BUFFERS
    /\ DOMAIN markers \subseteq play.accounts \X Keys /\ Cardinality(DOMAIN markers) <= MAX_MARKERS
    /\ \A k \in DOMAIN bufs : LET b == bufs[k] IN
         /\ b.n <= b.alloc /\ b.alloc <= b.cap /\ b.e \in [0..b.alloc - 1 -> Message \cup {Free}]
         /\ b.head < b.cap /\ (b.n < b.cap => b.head = 0)

\* The rings, their growth, redaction and reload implement MessageLog: a conversation reads as
\* its newest messages in order, whatever was overwritten, taken out or restored before.
Log == INSTANCE MessageLog WITH
    log <- [k \in Keys |-> EntriesOf(k)],
    sized <- [k \in Keys |-> IF k \in DOMAIN bufs THEN bufs[k].cap ELSE 0],
    size <- cap,
    disk <- [k \in Keys |-> IF k \in DOMAIN file.log THEN file.log[k] ELSE <<>>]
Refines == Log!Spec

\* Paging, for every reference and limit, against what CHATHISTORY's subcommands mean: the entries
\* older or newer than the references, cut at the limit on the side away from the anchor.
\* (Evaluated while no client is paging, which changes no conversation.)
Older(v, r) == {i \in DOMAIN v : IF r.kind = "ms" THEN v[i].ms < r.at ELSE \E j \in DOMAIN v : v[j].id = r.at /\ i < j}
Newer(v, r) == {i \in DOMAIN v : IF r.kind = "ms" THEN v[i].ms > r.at ELSE \E j \in DOMAIN v : v[j].id = r.at /\ i > j}
InOrder(v, S) == LET at == SetToSortSeq(S, <) IN [i \in DOMAIN at |-> v[at[i]]]
FirstOf(n, s) == SubSeq(s, 1, MinOf(n, Len(s)))
LastOf(n, s) == SubSeq(s, MaxOf(1, Len(s) - n + 1), Len(s))
PagesRight ==
    reader.key = None => \A k \in DOMAIN bufs :
      LET v == View(k, TRUE)
          refs == {x \in Ref : Known(v, x)}
          limits == 1..CHATHISTORY_MAX
      IN /\ \A r \in refs :
              LET old == InOrder(v, Older(v, r))
                  new == InOrder(v, Newer(v, r))
              IN \A n \in limits :
                   /\ Before(v, r, n) = LastOf(n, old)
                   /\ After(v, r, n) = FirstOf(n, new)
                   /\ Latest(v, after(v, r), n) = LastOf(n, new)
                   /\ Len(Around(v, r, n)) <= n
                   /\ r.kind = "id" => r.at \in {m.id : m \in ToSet(Around(v, r, n))}
         /\ \A r, q \in refs :
              LET mid == InOrder(v, (Newer(v, r) \cap Older(v, q)) \cup (Newer(v, q) \cap Older(v, r)))
              IN \A n \in limits : Between(v, r, q, n) = FirstOf(n, mid)

\* A client that pages back while messages come, are overwritten or are redacted has no hole and
\* nothing twice: of what is kept it has every entry between its oldest and its newest one, in order.
NoGap ==
    reader.key # None =>
      LET v == Ids(View(reader.key, reader.playback))
          have == {i \in DOMAIN v : Contains(reader.got, v[i])}
      IN /\ Cardinality(ToSet(reader.got)) = Len(reader.got)
         /\ \A i \in DOMAIN v : (\E j, k \in have : j <= i /\ i <= k) => i \in have
         /\ \A i, j \in have : i < j =>
              \E x, y \in DOMAIN reader.got : x < y /\ reader.got[x] = v[i] /\ reader.got[y] = v[j]

\* A redacted message is not in any conversation again, unless the program stopped before the
\* redaction was saved (history_remove_msgid, history_maybe_save, history_load).
RedactGone == ~lapsed => \A k \in DOMAIN bufs, i \in 1..MaxMsgs : Contains(Ids(EntriesOf(k)), i) => i \notin redacted

\* Until something is redacted TARGETS lists a conversation by the time of the newest entry that
\* the client may see: always with event-playback, and without it if that is the newest of all.
\* It never lists one that has no entries (hist_buf_add keeps last_ms).
TargetsNewest ==
    redacted = {} /\ cap > 0 => \A lo, hi \in 0..MaxClock :
      /\ \A k \in Targets(lo, hi) : EntriesOf(k) # <<>>
      /\ \A k \in open \cup {Dm}, playback \in BOOLEAN :
           LET v == View(k, playback) IN
           v # <<>> /\ Last(v) = Last(EntriesOf(k)) => (k \in Targets(lo, hi) <=> Last(v).ms \in lo..hi)

\* The comment on chathistory_targets says conversations "with their newest message time inside the
\* window", and that on the view that without event-playback "only PRIVMSG/NOTICE exist as far as this
\* client is concerned (paging included)".
TargetsByMessage ==
    redacted = {} /\ cap > 0 => \A lo, hi \in 0..MaxClock, playback \in BOOLEAN :
      Targets(lo, hi) = {k \in open \cup {Dm} : View(k, playback) # <<>> /\ Last(View(k, playback)).ms \in lo..hi}

\* A read marker never goes back, and none is lost: not when its channel is renamed onto a name the
\* account had a marker for, and not at the bound on markers (server_marker_set, server_marker_rename).
MarkersStep ==
    (\E c \in BOOLEAN : Restart(c)) \/ \A x \in DOMAIN markers :
         \E y \in DOMAIN markers' :
           /\ y[1] = x[1] /\ markers'[y] >= markers[x]
           /\ y[2] = x[2] \/ (x[2] \in open \ open' /\ y[2] \in open' \ open)

\* A stop that saved what was to be saved brings back every conversation and every read marker,
\* except that a marker set since the last save is not (history_add, history_rename_channel,
\* history_remove_msgid and server_marker_rename mark the file for the next save; MARKREAD does not).
RestartStep ==
    Restart(TRUE) /\ ~lapsed' =>
         /\ \A k \in Keys : EntriesOf(k)' = Log!Newest(cap, EntriesOf(k))
         /\ dirty \/ ~unsaved => markers' = markers

\* history.h says the file "survives a restart" and "Read markers (draft/read-marker) ride along in
\* the same file": after a stop in order, read markers are as they were.
MarkersRestored == [][Restart(TRUE) /\ ~lapsed' => markers' = markers]_vars

\* What a client reads is right: each page by itself, and all the pages of one paging back.
PagingRight == PagesRight /\ NoGap

\* The rings are sound, no redacted message is in one, and TARGETS goes by their newest entry.
RingsSound == TypeOK /\ RedactGone /\ TargetsNewest

\* Nothing that is kept for users is lost on the way: markers by a rename or at their bound,
\* conversations by a restart in order.
NothingLost == [][MarkersStep /\ RestartStep]_vars
=============================================================================
