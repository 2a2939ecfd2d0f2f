# SekurIRCd in TLA+

A verification project kept beside sekurircd, a C11 IRC daemon that links with other sekurircd
servers into one network and takes its ChanServ/NickServ services over a link of their own. The
modules are translated from `src/`; TLC checks them on small instances; TLAPS proves the central
invariants for every instance.

## 1. The system

One server is one process with one thread that runs a poll loop (`net.c`), plus a pool of worker
threads for what blocks (reverse DNS, ident, TLS, password hashes: `worker.c`). Everything but the
pool's queues is touched by the loop alone. A pass of the loop flushes dirty output buffers, handles
each readable or writable descriptor, applies worker results, runs the one-second tick, reaps closed
links and tears down the connections on the dead list: a handler never frees a client, it marks it
(`client_mark_quit`) and the end of the pass does the rest. So the interleavings that matter are not
of threads but of *lines*: between servers, between a client and a worker result, between a services
link and everyone else.

(The properties that make each part correct are named with the module that models it, in section 2.)

| Component | Source | State it keeps | Operations |
|---|---|---|---|
| Network sync | `netsync.c` | server table by SID (uplink, route), users by UID, nick timestamps | burst, SERVER/SQUIT, UID/NICK/QUIT/KILL, SJOIN/BMASK/TB/JOIN/PART/KICK/TOPIC/MODE, GLINE, ENCAP, routing |
| Links | `link.c` | link list, handshake state, queue, backoff, ping, bots of a service link | accept, dial, handshake, forward a line, close, reap, tick |
| Users and nicks | `server.c`, `cmd_reg.c`, `cmd.c` | nick hash, connection list, per-IP counts, WHOWAS ring | NICK, USER, registration, removal |
| Connections | `net.c`, `client.c` | read and write buffers, dirty and dead lists, connection classes | accept, read, flush, flood control, teardown |
| Channels | `channel.c`, `cmd_chan.c` | members and ranks, modes, ban lists, invites, topic, creation time | JOIN, PART, KICK, MODE, TOPIC, INVITE |
| Server bans | `server.c` | K/G/D/shun lines with expiry, saved to a file | add, remove, match, enforce, expire, save, load |
| Login and SASL | `cmd_reg.c`, `accounts.c`, `scram.c` | SASL session, pending login, throttle, accounts file | AUTHENTICATE, PASS login, REGISTER, SVSLOGIN, timeouts |
| Services relay | `link.c`, `netsync.c`, `cmd_reg.c` | which link has the service, routed requests | SVSNICK, SVSLOGIN, SVCSASL, SVCRELAY |
| Workers | `worker.c` | job queue, result queue, cancellation | submit, run, cancel, drain |
| Abuse protection | `protection.c`, `spam.c` | throttle windows, scores, repeat counters | check connect, check message, expire |
| History | `history.c` | per-channel ring of messages | append, query by time or msgid, redact |
| User commands | `cmd_user.c`, `cmd_info.c`, `cmd_oper.c` | MONITOR/WATCH/SILENCE lists, multiline batches, oper privileges | PRIVMSG, WHO, MONITOR, OPER, KILL, REHASH |
| Configuration | `config.c`, `main.c` | parsed TOML | load, rehash, validate |
| Wire format | `proto.c`, `ws.c`, `log.c`, `crypto.c`, `ev.c` | none to speak of | parse and build lines, WebSocket frames, hashes, epoll |
| ChanServ | `services/chanserv.c` | registered channels, access lists, locks, link state | commands, enforcement, persistence |
| NickServ | `services/nickserv.c` | accounts, groups, enforcement timers | commands, SASL, persistence |

How they interact. A client line goes through `cmd_dispatch` to a handler, which changes the tables of
`server.c`/`channel.c`, writes to local members and calls the `netsync_*` function that floods the
change. A line from a peer goes through `netsync_handle` to a `handle_*` function, which checks that
its source is behind that link, changes the same tables, writes to local members and floods the line
on. A services link sees a feed of users and channels and sends commands that act on users and
channels by name or UID. Every one of these runs to completion; what it leaves behind (a mark, a
queued line, a timestamp, a half-filled registration) is what the next one finds.

What is hard:

* **Ordering.** Links are FIFO, the network is not: a QUIT and a KILL for one user, or two nick
  changes, cross on different links and every server settles them from its own copy.
* **Partial failure.** A link dies with half a burst delivered; the tables on both sides must stay
  consistent, and the next burst must make up for what was lost.
* **Deferred teardown.** Between the mark and the removal a client is half there: in the UID index,
  perhaps not in the nick hash, and still found by other handlers.
* **Late answers.** A SASL verdict, a DNS answer or a password check arrives after a timeout, an
  abort, or for a connection that is gone.
* **Bounds and expiry.** Full queues, rings that wrap, bans that expire while they are saved.
* **Two processes, one truth.** ChanServ and NickServ decide on what the hub wrote some time ago and
  answer with lines that name nicks; what they have written when the link breaks never arrives.
* **Crashes.** A file is replaced in several system calls, any of which may fail or be the last.

## 2. Modules

A module states its properties as small named parts and, where several belong together, as one
conjunction of them, which is what a run checks: `PoolSound`, for example, is `TypeOK`, `HelperCount`,
`HelpersCapped` and `CallAlive`. The type invariants are among the parts.

### NickNet: users and nicks on a tree of servers

`NickNet.tla` models the network-wide user table: `netsync.c`'s SERVER, SQUIT, UID, NICK, QUIT and
KILL with the burst and link teardown, and the local half (NICK before and after registration,
registration, service bots, oper KILL, SVSNICK, quit mark and teardown).

* *State.* `users[s]` is the nick hash of server `s` as a set of client objects keyed by their own
  `nick[s][u]` (`casefold_nick`): a uthash table accepts two entries with one key, so uniqueness is a
  property and not a type. `byUid[s]` is the UID index, `nickTs` is `nick_ts`, `servers[s]` the server
  table, `lc[s][t]` one end of a link, `chan[<<s, t>>]` the lines in flight, `alive[u]` the connection.
* *Actions.* One per handler or local operation, each the whole handler: the table changes, the
  eviction or removal of the loser, and the lines sent, in order. `Settle` is the table update all of
  them share. `LinkUp` is both halves of a handshake, because `dial_peer` blocks its process until the
  peer has answered. `CloseLink` stands for every way a link is closed from outside the protocol.
* *Topology.* The links form a tree given by the constant `Route`; the assumptions say only that a
  route goes over links, never turns back, and that two linked servers are on the same side of any
  third. `netsync_is_behind`, a walk along `->uplink` in the code, is stated by `Route`.
* *Time.* `time(NULL)` is any value in `1..MaxTS` at each call: clocks need not agree.
* *Left out.* User attributes other than the nick, and the lines about them. `SvsNick` is modelled only
  for users that are in the nick hash: `force_nick_change` deletes its target from the hash without
  looking it up, and for a user that a collision evicted in the same pass this is undefined behaviour
  with no useful set of outcomes.

Runs (module `MCNickNet`):

| Run | Instance | Shows |
|---|---|---|
| `nick_pair` | 2 servers, a user on each, 2 nicks, 2 renames or KILLs, with fairness | tables consistent; both servers agree when quiet (`Converged`); who quits, is killed or loses is forgotten in the end |
| `nick_line` | 3 servers in a line, a user at one end and a service bot at the other, 1 link failure, 1 KILL | a split removes exactly what was behind it; live users become known everywhere |

Bounds. Links start down, so every instance begins with a burst, and users may have taken their nicks
on both sides before it. Two users suffice for a collision and three servers for a message to overtake
another on a second path through the tree; two timestamps give older, younger and equal; one failure
lets a link die at any point and come back with a full burst. The bounds limit only how often things
happen, not where.

Fairness (`FairSpec`). The loop reads every link that has input, reaps every closed link and tears
down every connection on the dead list on each pass, so these are weakly fair. Nothing is assumed of
clients, opers, or of links coming up.

### NickNetProofs

Proved for every finite set of servers linked as a tree, every set of users, services and nicks, and
every bound: `TypeCorrect`, `NickUniqueHolds`, `RemoteAnchoredHolds` and `ServerAnchoredHolds`
(together `AnchoredHolds`), `OpenHoldsNickHolds`, all from one inductive invariant `IInv`; and `LiveKnownHolds`, `NextDoorHolds` and
`ConvergedHolds` from `CInv`, below.

*The argument.* `NickUnique` is kept because every action that files a user under a nick either found
nobody there or removes the holder in the same step. That needs `OpenHoldsNick` (a connection that can
still issue NICK is where it thinks it is) and the part of `Support` that says only registered or
connecting users are filed. `RemoteAnchored` is kept by a netsplit because users are looked up through
the nick hash, and every remote user is in it; that in turn needs every path that takes a remote user
out of the hash to take it out of the UID index too (`Support`). `ServerAnchored` is the tree argument:
if a server survives the removal of everything behind `r`, so does its uplink (`BehindUplink`), and the
link that leads to it is not the one that went (`BehindPeer`); a server introduced by SERVER is reached
through the same link as the server that introduced it (`UplinkRoute`). The assumptions used are the
tree assumptions on `Route`, finiteness of the servers and users (for the burst to be a sequence), and
the types of the bounds.

*What a network at rest knows.* `LiveKnownHolds`, `NextDoorHolds` and `ConvergedHolds` come from a second
inductive invariant, `CInv`, which says of every link what its two ends know and what is in flight
between them (`Trails`):

* `ServerTrail(s, p)`: the servers `s` has on the side of `p`, updated by the SERVER and SQUIT lines still
  on the way, are the servers `p` has on its own side of the link; and every line on the way is one `p`
  may say at that point (`Claims`: no UID of a server that was not introduced, no server introduced
  twice or before its uplink). So `src_server` refuses nothing a neighbour of the tree says, and no
  SERVER line closes a link.
* `UserTrail(s, u)`: the same for the entry a server has of a user, toward the user's own server: read to
  the end of the stream, it is the entry of the next server on the way, *unless* a KILL for `u` is on
  its way up (`Killed`), or `u` is leaving, or somewhere further up its entry is about to be lost
  (`Doomed`: a KILL on the way, a link that went, a SQUIT on the way). The excuses are what collisions
  settled at different servers, KILLs that cross a rename and netsplits during a burst come down to.
* At the user's own server there are no excuses: if it has dropped `u`, the QUIT is on the way to
  every neighbour. That is why a ghost (`nick_ghost.cfg`) is never next door.

Each action is shown to keep the trails once it is put in one form (`OneStep`: a server reads at most one
line, changes its own tables and says at most two lines to each neighbour), with `ServersOk` and
`UserOk` as what the handler owes. `LinkUp` is proved apart: the two sides know nothing of each other,
a burst adds up to the tables it is taken from (`BurstServersTrail`, `BurstRead`), and a trail that a
netsplit had excused is either still excused after the link is back, or its server was not known there at
all, so that nothing was left to owe (`JoinClimb`, `JoinDoom`). In a network at rest no excuse is left
for a live user, so the entries agree link by link, and since the way to a user's server never turns
back (`NoLoop`) they agree with the server's own (`QuietCopies`). The function a stream of lines
computes is defined by the stages it passes through and not by recursion, so it can be reasoned about.

`ConvergedHolds` assumes that all servers are linked to each other, which a tree allows for two of them;
for longer trees `Converged` is false of the code (section 3, `nick_ghost`), and `LiveKnownHolds` and
`NextDoorHolds`, which hold for any tree, are what is left of it. `LeavesEverywhere` is a liveness
property and stays with TLC.

### WorkerPool: threads, results and time limits

`WorkerPool.tla` models `worker.c` as concurrent threads, with the part of the event loop that gives
the pool its jobs and lives with the answers: `accept_clients` submitting lookups, OPER submitting a
password check, `drain_worker_results` applying results, the 30-second rescue of `tick`, WEBIRC, the
registration gate, teardown and shutdown.

* *State.* The job queue, the result ring and its self-pipe, the ring of cancelled connections, the
  scrypt counter, each worker's place in `worker_main`, the resolver calls with their reference counts,
  and per connection the `*_pending` flags, `auth_gen` and what was learned of it.
* *Steps.* One locked section of a thread is one step, a `pthread_cond_wait` a state of its own, so the
  interleavings are those of the locks. The loop's steps are its submissions (a worker may run between
  two of them), the taking of a batch of results and the application of each.
* *Left out.* Running out of memory is the `Refused` outcome of a submission. The K-line check at the
  welcome belongs to the bans. DIE and RESTART ask for a password check exactly as OPER does and are
  not repeated.
* *Fairness* (`FairSpec`). Threads that can run do, the loop keeps turning, a tick comes once a second
  for as long as a connection waits (strong fairness of the two rescues, because other results keep
  interrupting), and nothing is assumed of a resolver: it need never answer.

| Run | Instance | Shows |
|---|---|---|
| `pool` | 1 connection, 2 workers, queue, ring, helpers and scrypt slots of one, with fairness, in three configurations (`Plays`): two resolver lookups; a gateway with an ident lookup and an OPER attempt; three OPER attempts | no lost wakeup, exact helper count and cap, no use of a freed block; a late answer changes nothing after the welcome or WEBIRC; nobody waits for a free slot; a late verdict belongs to nobody; nobody is held forever; shutdown returns |

Bounds. Every queue is one or two long, so full, empty and wrapped all occur; two workers are enough
for one to overtake the other, and for the check of a second attempt to wait for the slot that the
first, given up by the rescue, still holds. A rescue uses up a number too, so three attempts are
allowed. Two DNS lookups are what it takes for two helpers to compete for the cap. The daemon stops for
good after shutdown, so deadlock is not checked: that it gets there is `StopReturns`.

### WorkerPoolProofs

Proved for any number of workers, helper threads, connections and attempts and any size of the queue,
the ring and the caps: `PoolSoundHolds`, `NoLostWakeupHolds`, `IdentityFinalHolds` and `AuthCurrentHolds`.
The invariant is built in layers, each proved with the help of those before it.

* *The pool* (`PoolInv`). The counts the code keeps are the counts of threads in certain places:
  `scrypt_running` of those that hash (`Slots`), `dns_helpers` of the helpers that run (`HelperCount`),
  and those that run with those about to be started are within the cap (`Started`, which is what makes
  add, test and subtract by several workers safe). `References` says that a shared block has one
  reference for its helper and one for the worker that waits, and that no two workers wait for one
  block; so nobody touches a freed one. One step of one thread moves one member of such a set
  (`CountMoved`).
* *Wakeups* (`WakeInv`). A job in the queue has a worker that is awake; whoever waits for a scrypt slot
  is matched by as many threads that hash, or were woken and have not looked yet, as there are slots
  (`SlotsClaimed`, stronger than `ScryptServed`, because the signal of a leaving worker may go to a
  waiter that a newcomer overtakes). `NoLostWakeupHolds` needs a worker: `worker_pool_start` goes on
  with none when no thread can be created, and then nothing is served (`Worker # {}`).
* *Identities* (`IdentityInv`). A client behind a gateway has no lookup pending, and gets no other: what
  would change a registered client's identity is recognised as stale.
* *Password checks* (`AuthInv`). A check is in one place only: the queue, a worker's hands, the ring or
  the batch (`Unique`); none has a number ahead of its connection's, and one with the current number is
  waited for (`Numbered`). Every step moves one job from one place to another (`Moves`).

`NobodyStuck` is liveness and only model-checked.

### ChanNet: one channel on a tree of servers

`ChanNet.tla` models the channel lines of `netsync.c` (SJOIN, BMASK, TB, JOIN, PART, KICK, TOPIC, MODE)
with the burst, splits and relinks, and the local commands that send them.

* *State.* Each server's own copy (creation time, flags, key, bans, topic and its time), its members
  and ops, the users it knows, the two ends of each link and the lines in flight.
* *Actions.* One per command and one per handler. `Leave` is what PART, KICK, QUIT and a split share:
  the member goes, and with the last one the channel unless it is +P. `opers` are IRC operators and
  services' bots: they need no rank, and for a MODE they need not be in the channel (`cmd_mode_channel`,
  `cmd_samode`, the MODE of a services link). What else services do to channels is ChanServ's.
* *Abstractions.* One channel; op is the only rank (ChanMode has all five); the flags are +t and +P; a
  ban mask is the user it matches; consecutive UID lines, and the pieces a long SJOIN or BMASK is cut
  into, are one message; the server table is NickNet's; clocks agree. The `ts <= 0` rule of
  `handle_sjoin` and the limits on list lengths are left out, and so are halfops, invites, limits and
  delayed joins.
* *What may cross.* The workload (`play`) says what users do and which of it they also do while lines are
  in flight (`crossing`). MODE, PART and TOPIC carry no timestamp, and servers that hear them in
  different orders end up apart (section 3), so the agreement of ranks, ages, flags, bans and topics is
  stated for behaviours in which only joins, bursts and splits cross (`Orderly`); the agreement of
  members, and that no member is unknown, for all. A KICK also undoes a JOIN it has not seen, so nothing
  crosses a KICK.

| Run | Instance | Shows |
|---|---|---|
| `chan` | five workloads on a line of three servers or on two of them: anything crosses anything, with a nick collision; everything but KICKs crosses, with members kicked in between; an IRC operator sets and takes +P, in the channel or not; two copies grow apart and are merged; copies of different ages meet on three servers. One link failure each | no member list holds a user the server has forgotten; all servers list the same members; nobody who leaves leaves an empty channel behind (`StrandedByMode`); the merge of a burst gives every side one channel: age, ops, flags, bans, topic |

Bounds. Two creation times give older, same and younger; a channel needs two or three user steps
(create, join, change) and the split one fault; the middle server of a line shows forwarding.

That only a +P channel is ever empty does not hold (section 3): a MODE -P finds it empty and nothing drops it.
`StrandedByMode` says what does: no path that takes members out leaves such a channel, and none that makes
one forgets to put somebody in, except an SJOIN whose members all lost a nick collision.

### ChanNetProofs

`CopiesSoundHolds`, `StrandedByModeHolds` and `MembersAgreeHolds`, for every tree of servers and any users,
IRC operators, modes and workloads.
`MembersAgreeHolds` says a little less than TLC checks on the small instance: it is about servers of the
network that reach each other over servers of the network (`Connected`; a condition on the workload), and
about behaviours in which no UID has been refused and nobody kicks (`Plain`). A refused UID makes the
remaining servers disagree for a while about who exists, and the argument below is about one picture.

* *The tree.* On the way to a server one leaves every set of servers without it (`NoLoop`, by the size of the
  set); so who is behind a server is reached the way that server is (`SideOf`), `src_user`'s test holds of the
  users beyond the neighbour just read and of nobody else (`Behind`), and a burst to a neighbour contains
  exactly the users who are beyond this server for it (`OursBeyond`).
* *The lines on a link.* Every user is beyond one neighbour of a server, and all that is ever said of him comes
  over that link. The lines from p to s, applied one after the other to what s has of the users beyond p, lead
  to what p has of them (`Trail`); at an SJOIN or JOIN on the way the users are known to s (`Claims`). `Follow` says so of every link, once for the users s knows and once for the
  members of the channel. A server that handles a line from one side and passes it on does to its own table
  what its neighbours will do when they read it (`Moved`), and a SQUIT takes out the same users at both ends of
  a link (`GoneForm`).
* *Splits.* When a link is down, a server has nothing of the users beyond it (`Cut`), so that the burst of the
  next `LinkUp` starts from nothing; a link that is closing may lose what is on it, and leads nowhere in
  particular until it is reaped.
* *Trust.* The trail of known users holds as long as no UID was refused, the trail of members as long as
  besides nobody kicks (`Trusted`): a KICK takes a member out from somewhere else than his own side. What each
  server's copy is like by itself (`Copies`) needs no such condition, which is why `CopiesSoundHolds` has none.
* *Empty channels.* Whoever leaves last takes the channel along (`NobodyStrands`); an SJOIN brings somebody in
  because by the trail its members are known (`SjoinFills`), as long as no UID was refused, which is the
  second half of `StrandedByMode`. A MODE changes no member list, so one that strands a channel found it empty.
* *Agreement.* With every link up and empty, neighbours have the same of the users beyond either. A user
  whose membership x and his own server disagree about would make a set of servers that the way to his
  server never leaves, which `NoLoop` excludes.

`MembersAgree` after refused UIDs or KICKs, and `CopiesAgree`, stay with TLC.

### ChanMode: a MODE line on three servers' terms

`ChanMode.tla` models `cmd_apply_channel_mode` letter by letter as a fold, with its gates, argument
rules, seniority rules and cut-off at six parameters; `netsync_chan_mode`, which deals the announced
arguments out again; and `handle_mode`, which does so a third time. Letters that behave alike stand for
each other (b for b, e, I; l for l, f, j, L; t for the plain flags). The 64-byte limit on announced
letters and the limit of a mask list are left out, and so are arguments with spaces, which only a
trailing parameter can have.

| Run | Instance | Shows |
|---|---|---|
| `mode` | four workloads: two members with every rank; an op and an IRC operator with flags, +k, l, b, o; a service and the flags only it may set; lines of three letters with room for two parameters | nobody is lowered by a junior or raised above the setter; owners and admins are ops; a halfop changes voices and masks only; both servers have the same channel |

Bounds. Two letters a line let one letter change what the next one is judged by, or shift its argument;
one line on the wire at a time is enough, because the receiver looks at nothing but the line.

### EventLoop: connections through the passes of the loop

`EventLoop.tla` models `net_run` with what it calls: the dirty list and its snapshot (`Flush`), the
wait, each event of a pass (handshake, upgrade, hangup, reading, writing), the DNSBL verdict that gives
reading back, the tick, the reaping of links and of marked clients with the QUITs they broadcast; and
`client_send` with its bounded queue, which marks its owner from inside anyone's broadcast.

* *State.* `dirty`, `flushing`, `dead`, the interest registered with the kernel (`mask`), per connection
  the send queue, the socket's room, what the peer has sent, whether the handshake is done and reading
  is held back.
* *Abstractions.* A line is the unit of both queues; `sbuf` and `ws_out` are one queue; everyone who
  joined shares a channel; lists are sets. What a peer does between two waits is done while the loop
  flushes: it changes only what the next wait reports.
* *Fairness.* The loop turns (weak); a worker's verdict, or its 30-second rescue, comes and a peer that
  keeps being asked to read does so (strong). `Served` excuses connections that end.

| Run | Instance | Shows |
|---|---|---|
| `loop` | 2 client blocks, one of them reused, of every kind (plain, TLS, WebSocket); queues of one line; 3 lines from peers; one kill, timeout, failure or reset | no list or event names a freed block; marked means queued for teardown; the kernel watches exactly what is wanted; everyone marked is reaped; everything sent is read and everything queued is sent |

### EventLoopProofs

`ListsSoundHolds` and `WatchedHolds`, for any number of clients and lines, any limit of the queues and any
room in the sockets. That nothing freed is named and whoever is marked is in the list of the dead
(`NoDangling`, `QuitQueued`) is kept because each phase finds empty what only another works on (`Phases`).
`Watched` speaks of the wait alone; what makes it so is `Synced`, which holds at every step: a client
whose wanted interest is not what the kernel has is in the dirty list or in the snapshot being flushed.
`PassesServe` is liveness.

### Admission: who may connect

`Admission.tla` models `accept_common` and what moves its counts: the global limit, Z-lines, the
connect-flood table, connection classes, the per-address cap, the proxy scan with its negative cache and
the exemption of the connection a probe makes; the address a gateway hands over; rehash and teardown.
A probe's answer, a rehash and an expiring ban are bounded together by `MaxRare`.

| Run | Instance | Shows |
|---|---|---|
| `admission` | 4 attempts from 2 addresses and a gateway, room for 2 connections, a class with a cap that a rehash changes, 2 flood slots for the 3 addresses, 1 scan at a time | counts equal connections; classes and addresses stay within caps; the fixed flood table counts as if each address had its own counter, and forgets one only when as many others as it has slots began their windows no earlier |

### AdmissionProofs

`CountedHolds` and `CappedHolds`, for any finite set of addresses, any classes and limits and any positive
number of flood slots.

* *Counting* (`HowMany`). How many entries of a list are in a set, and what prepending, removing,
  replacing and appending one does to that number. Positions shift when an entry is taken out, which
  `Renumbered` answers with a bijection.
* *Connections* (`ConnsOK`). `ip_counts` equals the number of connections with that key; `class_count` is at
  least the number of those in the class, and at most its cap. At least, not equal: a refusal after
  `net_assign_class` leaves it too high (`RefuseConns`). That is why a connection that leaves a class finds a
  count above zero, and the test in `Released` never loses anything. The plain connections of an address, those
  not taken for a probe's, never pass its limit. Marks (`quit`, the address) do not matter: `MarksChange`.
* *Rehash*. `Reclassed` is a recursive function over the list, so what it computes is shown by induction on
  the position. The library's induction theorems cannot be instantiated here, but a set of numbers with zero and
  every successor is all of them by the well-foundedness of `<` (`Induction`), and that needs no operator: the
  set is that of the positions up to which the walk is right (`Walked`).
* *Scans*. The probes in flight are the pairs of an address and a number up to its count; a scan adds
  `Probes` pairs at most, and only where there is room for all of them.
* *Flood table* (`FloodOK`). Each address has one slot at most, and a slot holds what the counter of its
  address does. The counter starts anew when its address enters the table; what has to be shown is that an
  address is not made to enter it again too soon. A new address takes the slot of another only in a full
  table, and there one whose window began first (`SlotForm`, `OldestSlot`). The other slots then belong to
  different addresses whose windows began no earlier, and with the new one these are as many as there are
  slots (`TakenOutran`). Windows only begin later, so who outran an address stays ahead of it until it enters
  again.

### Bans: lines of two linked servers

`Bans.tla` models `server_kline_*` with everything that sets, removes, expires, enforces or bursts a
line: the operator commands, connect floods, DNSBL verdicts, the proxy scan and the spam filter; the
check on accept, after each lookup and at registration; the cached SHUN verdict and `kline_gen`. A mask
is known by whom it can hit: by address, by name, by ident. `spared` and `torn` are history: whom the
code passes over on purpose, and which G-lines were removed while something about them was under way or
the servers were apart; the comments on `NoneBanned` and `WideAgree` list the cases.

| Run | Instance | Shows |
|---|---|---|
| `bans` | 2 servers, a user that comes and goes, operators, lines of every type by address, name and ident, one removal, split or change of ident | nobody is on under a ban unless excused; the cached verdict is current; wide lines agree when quiet; a refresh never shortens |

### BansProofs

`NeverShortenedHolds`, `LinesBiteHolds` and `WideAgreeHolds`, for any users, operators, masks, durations
and limits. Two of the assumptions of `BanTypes` are there for the proof: the two servers are a finite set,
and the mask that is a user's address matches no name and no ident, which makes a K-line on it the same
as the Z-line it is enforced as.

* *Refreshing.* `Longer` returns one of its arguments and covers both (`LongerCovers`), where 0 covers
  everything; every step that adds a line does so through it (`AddStep`).
* *Biting* (`UsersOK`). For each user: `Unbanned`, nobody on is under a line that was not excused, which a
  new line keeps by its enforcement and a registration by its check; `Current`, the verdict that is kept is
  right, for which every change of a list clears the verdicts of its server; `Fresh`, nobody registers with
  a verdict of an earlier connection.
* *Agreeing* (`Agreeing`). Of each line that is not torn, with the lists of both sides and both queues:
  what one side has and what lasts, the other has for as long or will have when its queue is empty, unless
  the first is about to be told to remove it (`Told`); what is still to arrive is in the sender's list for as
  long (`Backed`); no setting is under way against a removal (`Apart`). One lemma for each kind of step says
  that it keeps this: time passes and what has expired is pruned, a line is set and told, removed and told,
  taken from the queue, or dropped because it expired there; a burst establishes it from nothing. With
  empty queues both sides cover each other, which makes the times equal. The number of lines that may be
  under way at once is not bounded in the proof; TLC has two.

### DurableStore and Store: the four files

`DurableStore.tla` is the promise: a save is one step and a start finds the last save whole, unless
something else has damaged the files. What a damaged file may be answered with depends on the damage
(`Answers`): accounts and channel registrations whose file is spoilt are never taken for empty, some older
save is found or the start refused; a file cut to nothing may be taken for an empty store, which is what
the code does and section 3 holds against it; bans and history start empty. `Store.tla` is the code of `accounts_flush`, `store_write_now`,
`kline_save` and `history_maybe_save` as the sequence of system calls it is (unlink, shift, copy,
write, rename), each of which may fail or be the last before a crash, and the loaders with their
backups. `Refines` maps the abstract `kept` to what a start would find now.

| Run | Instance | Shows |
|---|---|---|
| `store_files` | all four stores, 2 backups, 3 changes, 2 failing calls, 3 crashes, 2 damages, each of the live file or a backup, spoilt or cut to nothing; fairness of the steps of a save | `Store` implements `DurableStore`; what the program has is saved in the end (`Saved`) |

Ban files fail in a configuration of their own, because their save is not tried again (section 3). A
store started from its oldest backup deletes that backup in the next rotation, before the new file is
there; the model has this, and after it a channels' store whose file is spoilt is refused, as the promise
allows. A start of the accounts that had to go by a backup puts the spoilt file aside before the next save
has replaced it, so that a crash in between leaves no file at all, which the next start takes for no
accounts: the promise allows this only because it says so (`Start`), and `store_accounts` shows it. Files
that cannot be opened, by their permissions, are left out.

### StoreProofs

`RefinesHolds`: for any values, any number of backups, any stores, any damage and any bounds, `Store`
implements `DurableStore`, step by step: writes, rotations and copies are stutters, the rename is the save,
a crash keeps what the files have, a start reads it. The invariant says that whatever a file or a backup
holds was saved once, and that what a start would find is the live file where that can be read and
otherwise among the `Answers` to the damage it has. The loss or replacement of a backup is then no step of
`DurableStore` while the live file is whole, and a `Decay` when it is not. Nothing is assumed but the types
of the constants. `Saved` is liveness.

### MessageLog and History: message history and read markers

`MessageLog.tla` is the promise: every conversation is its newest messages in order. `History.tla` is
the code: rings that grow from four entries (here one) to `history_size` and wrap, redaction out of the
middle, the eviction of the quietest conversation, RENAME, rehash to another size, saving and loading,
and on top CHATHISTORY's paging, TARGETS and read markers. `Refines` reads each ring as a sequence.
`PagesRight` compares every subcommand, for every reference and limit, with its definition by filters.

| Run | Instance | Shows |
|---|---|---|
| `history` | 2 channels and a private conversation, room for 2 of them, and two workloads. Reading: sizes 0, 2 and 3, 4 messages, 1 redaction, 2 further operations or stops, a client that pages back one entry at a time. Marking: 2 accounts, room for 2 markers, 1 message, 6 further operations or stops | the refinement; pages are right; paging has no hole; redaction lasts; TARGETS has the time of the newest entry a client may see, where that is the newest of all; markers only move forward, through a rename onto a name that has markers too and at their bound; an orderly stop loses no conversation, and no marker but those set since the last save |

Bounds. Rings of two and three grow, fill and wrap with four messages; two of three conversations force
an eviction; times tie because the clock has two values. In the second workload an account marks two
channels, one of which must be opened and closed for that, and RENAME moves the one marker onto the other;
or a marker is set and saved, its channel renamed, and the server stopped with nothing else to save.

### Login: SASL, PASS and NickServ

`Login.tla` models both ends of an account: the ircd's session per connection with its hold on
registration, timeouts, aborts and rescue (`cmd_reg.c`), and NickServ's accounts, SASL slots, commands,
nick enforcement and picture of the users (`nickserv.c`), with the link between them, which delivers
late, in order, and loses what it holds. `proved` is history: who has shown what to whom.

* *Fairness.* Only the SASL timeout of the tick; that services answer is not assumed.

| Run | Instance | Shows |
|---|---|---|
| `login` | two workloads: two connections with PLAIN, SCRAM, EXTERNAL and PASS through one slot; three users, one an admin, with every command and enforced nicks. One loss of the link | nobody holds an account he did not prove; NickServ's picture is the hub's; who sits on another's nick has a deadline; nicks stay apart; every PASS login ends |

### LoginProofs

`EarnedHolds`, `PicturesAgreeHolds` and `SquattersHolds`, for any connections, nicks, accounts and workloads. The
assumption `Types` says what a workload consists of: payloads and commands of the forms the code reads, starts
without two users of one nick, accounts that are logged in only on users, and accounts of which no two have one
nick (`Lone`), which `do_register` and `accounts_group_add` see to and the proof shows to stay. It says nothing of what anybody knows or
types. A guest nick exists, as `guest_nick` always finds one.

The invariant (`Inv`) has the types of hub, link and services, and four parts that carry the argument:

* *Earning*. A login has a cause: what is set on a connection, what a SVSLOGIN on the link will set, and what a
  SCRAM exchange in its last step will set have been shown on that connection. A slot is found by the
  connection it belongs to and each connection has one at most, so a proof never ends up in an exchange that
  took over an abandoned slot.
* *Named*. NickServ credits a command to whom its picture has under the sender's nick; `Earned` needs that
  this is the one who typed it. Picture and hub may differ at any time. What holds is about the whole link:
  the lines on it, read one after the other, lead from NickServ's picture to the hub's, and at each command
  on the way the nick belongs to its author (`Leads`, `Claims`). The hub appends lines that fit its own
  nicks, and NickServ takes the first.
* *Gone*. A SVCQUIT on the link is about a connection that is gone; nobody comes back under it.
* *Accounts*. A user's account is the one in the picture once the lines on the link are read, or a login or
  logout for him is still on the way to the hub and will be announced. NickServ writes its picture ahead of
  the hub (`login`), so the picture alone may be right or wrong.

`Squatters` is about moments when the link is quiet; `WInv` says what holds in between. `Guarded` is the
heart: while the hub feeds, of every user whom nothing excuses one of four is true (`Watched`). Nobody else
has a claim to his nick (`Allowed`); or an order that changes his account or his nick is on its way to the
hub; or the last line about him on its way to NickServ is one at which `enforce_check` looks at the nick; or
no line about him is on its way and his deadline runs. A quiet link leaves the first and the last.

* The hub, when it changes a nick or an account, says so in a line that makes NickServ look, or has logged
  him in to the owner's account; whoever is logged in to another one, or could not be renamed, is excused.
* NickServ, when it reads such a line, has by *Named* and *Accounts* the very nick and account that the hub
  has, so what it decides is right for the hub too. When it takes a deadline away it sends an order.
* A nick gets an owner only by REGISTER and GROUP, and who holds it then was there first.
* A newcomer is told of once and is in no picture before (`Newcomers`, `Once`): of a user who is in the
  picture under the same nick `ev_user` would keep the old deadline. The SVCWATCH that begins the feed is
  the only one on its way (`Watching`), and no feed runs until it arrives.

`PassEnds` is liveness and stays with TLC.

### ChanServ: a registered channel and its service

`ChanServ.tla` models `chanserv.c` and the hub's half of the services link: joins, MODEs and TOPICs as
they are reported, the answers by nick, the record with its access and AKICK lists, locks, guard,
succession, the tables of identified nicks, the sweep after a relink and the judgement of a channel
made anew while the services were away. ChanServ keeps no picture of the channel: everything it decides
is decided on what was so when the line was written.

What ChanServ writes goes through a buffer of 64K that all channels share, and `queue_line` drops a line
that does not fit. The sweep after a relink (`guard_join_all`) queues up to five lines for every
registration before anything is written out, so with some hundreds of registrations the last ones are
not swept. `Out` and `LinkUp` have this: any of the lines of a step may be dropped. The feed's SVCWATCH
is queued first and always fits.

| Run | Instance | Shows |
|---|---|---|
| `svc` | one channel, two users, one loss of the link, four workloads: every setting of a guarded and an unguarded channel; registration, identification, dropping, claiming while users quit, return and take each other's nicks; and a smaller instance of each in which the lines of one step, the sweep's among them, do not all fit | when nothing is on the link, and the last sweep and everything since did fit: op ranks are backed, AKICKs are out, locks hold, a registered channel is +r; a claim takes nothing from a founder who is there. In any case identification stays with its user |

`slipped`, `excused`, `cut`, `shed` and `lapsed` are history: members whose rank or join ChanServ could
not see in time, and lines that did not fit, each by a cause named at the variable. A member is `slipped`
only if he changed nick while a line on the link named him by the old one. Without these variables the
properties fail for the reasons listed in section 3. `shed` is over with the next relink whose sweep fits:
the run thereby shows that a whole sweep repairs what dropped lines have left, except for a takeover whose
undoing was dropped (`cut`), which counts as seen.

## 3. Where the code and its comments disagree

Modelling met these cases. Each has a configuration beside the modules under which TLC prints the
shortest way there, or is a property to be checked in the configuration of a run in place of its own.
They are not runs of `PROJECT.json`, whose runs are the properties that hold.

| Configuration | Module | What TLC shows | Against |
|---|---|---|---|
| `nick_ghost` | MCNickNet | `handle_kill` only passes on the KILL of another server's user. When the middle of three servers settles a collision it has already dropped the user and ignores the QUIT that comes back, so the server beyond keeps it for good. | netsync.c:701, "drop the user here right away" |
| `chan_clear` | MCChanNet | A cleared topic is not burst, and any TB is accepted where the topic is empty: it comes back after a split. | netsync.c:903, "The newer topic wins" |
| `mode_key` | MCChanMode | -k takes an argument from the user and is announced without one, but both loops behind it deal an argument to every k: the next letter's goes to the key. | cmd_chan.c:1253, "the rest of the network gets the same change" |
| `nick_bot` | MCNickNet | A bot has no socket, `client_mark_quit` never queues it, and one that loses a collision stays without a nick. `cmd_kill` refuses to kill a bot for this reason; the collision does not. | netsync.c:465, "Its QUIT still reaches everyone" |
| `nick_unregistered` | MCNickNet | `nick_ts` is 0 until registration, so a connection still registering beats an older user. | netsync.h:37, "older wins" |
| `pool_free` | MCWorkerPool | Checks that wait for a scrypt slot hold the workers meant for lookups. | worker.c:40, "stay free for DNS/ident jobs" |
| `pool_gateway` | MCWorkerPool | The gateway's ident answer stays with the client after WEBIRC. | cmd_reg.c:196, "drops the lookups already started" |
| `chan_modes` | MCChanNet | MODE carries no timestamp: a +o sent by the younger side after its burst is kept by the older side and stripped by the younger. | netsync.h:36, "converges by timestamp" |
| `chan_join` | MCChanNet | A JOIN crosses the PART that emptied the channel; a recreated, younger channel keeps its age and its op. | netsync.h:36 |
| `chan_key` | MCChanNet | At equal ages each side takes the other's key: they change sides. | netsync.h:36 |
| `chan_topics` | MCChanNet | TOPIC is dated by each receiver, so a TB between two datings is refused by one server and accepted by the next: two topics stay. | netsync.c:903 |
| `OnlyPermanentEmpty`, in `chan` | MCChanNet | An IRC operator or services take the P off an empty channel from outside (MODE, SAMODE), or a MODE -P arrives that its sender wrote before he was kicked; no mode change asks whether the channel is empty, and it stays. | channel.h:42, only +P "survives going empty" |
| `PermanentKnown`, in `chan` with `Plays <- EmptyPlay` | MCChanNet | An empty +P channel is not burst; the peer creates a second one. | netsync.c:210, "they have the channel" |
| `login_hold` | MCLogin | A PASS login sets `auth_pending` without `auth_started`: the rescue meant for lost password checks lets the connection in on the next tick, before the verdict. | cmd.c:180, "same hold as a SASL one" |
| `login_suspend` | MCLogin | A suspension between the two steps of SCRAM does not stop the login. | accounts.h:105, "every login to the account is refused while set" |
| `store_bans` | Store | `klines_dirty` is cleared before the save, and a save that fails is not tried again. | server.h:266, "Always (re)saves" |
| `store_accounts` | Store | An accounts file cut to nothing is read as an empty store, and the backups are not asked. With `Damages = {Bad}`: a spoilt file is renamed away before the recovered copy is written, and after a crash in between the next start finds no file and no accounts. | accounts.c:113, "never start empty over it" |
| `NeverEmptied`, in `store_accounts` with `Kinds = {"channels"}` and `Damages = {Cut}` | Store | A registrations' file cut to nothing counts as absent, not as corrupt: without a backup that can be read, the service starts with no registrations and the next save overwrites what was there to restore. | chanserv.c:178-179, "starting empty would let the next save overwrite every registration" |
| `GrabUndone`, in `svc` | MCChanServ | `judge_incarnation` stores the new timestamp before the lines that undo a takeover have arrived; if the link is lost in between, the next sweep takes the channel for the one it knows and the ranks stay. A line that did not fit has the same effect. | chanserv.c:1811-1813, ranks "handed out while ChanServ couldn't watch" are taken back |
| `SweptAll`, in `svc` | MCChanServ | A line of the sweep that does not fit in the buffer is dropped while the link stays up: +r, the locks, the AKICKs and the ranks of that channel are not seen to until the next relink. | chanserv.c:1960-1961, "reasserts +r/MLOCK for EVERY registered channel regardless of GUARD"; README.md:741, "it sweeps each registered channel" |
| `FounderSpared`, in `svc` | MCChanServ | The founder's account is recognised by the answers to a line that was dropped: CLAIM then finds nobody identified and takes the channel from a founder who is in it. | chanserv.c:768-770, where a claim "even while a real founder was actively in the channel" is a fault of an older version |
| `TargetsByMessage`, in `history` | MCHistory | TARGETS goes by the time of the newest entry of any kind: a client without event-playback gets a conversation for a JOIN or a MODE it cannot see, and misses one whose newest message is in the window but has a channel event after it. | cmd_user.c:1508, "with their newest message time inside the window"; cmd_user.c:1594, "only PRIVMSG/NOTICE exist as far as this client is concerned (paging included)" |
| `MarkersRestored`, in `history` without the symmetry | MCHistory | MARKREAD does not mark the history for saving: a marker set since the last message is gone after an orderly restart. | history.h, read markers "ride along" |
| `NoSpin`, in `loop` | EventLoop | A WebSocket before its upgrade has the banner queued; the loop asks for writability and writes nothing, so it spins until the registration timeout. | net.c, the comment in `tls_try_handshake`, "pinning a core until REGISTRATION_TIMEOUT" |
| `ClassExact`, in `admission` without the symmetry | MCAdmission | A connection refused for its address after it was put in a class keeps its place there: `client_free` does not release it. | server.h:66, "live connections" |
| `OneRelay`, in `admission` without the symmetry | MCAdmission | While a scan is running every connection from its address is exempt. | protection.c:214, "Single-use" |

What the models show without a sentence of the repository against it, so that a reader of the code knows:

* *Channels.* If the only member of an SJOIN lost a nick collision, an empty channel stays. A halfop cannot drop his own rank: what halfops may change is asked before the rule
  that anybody "may always drop their own prefix" (cmd_chan.c:1182).
* *ChanServ.* JOIN on an empty registered channel leaves it without +r and
  the lock until then. The -r of a DROP is lost with the link. A late WHOISUSERREPLY answers the next
  CLAIM. A MODE or KICK by nick misses who was renamed meanwhile, and hits who has
  taken the nick. A logout is not vetted again, nor does
  RESTRICTED look at who is dropped from the access list.
* *NickServ.* A late verdict on an aborted attempt ends the next one. The ircd's timeout is not told to
  NickServ. `login` clears the enforcement deadline whatever account it is, and `ns_tick` does not ask
  again whose the nick is. SUSPEND does not reach connections that have not registered.
* *Bans.* UNKLINE of a G-line is not passed on. An UNGLINE that crosses a new setting leaves the servers
  apart. DNSBL and scan lines are enforced without regard to exceptions. A line past its expiry bites
  until it is pruned.
* *History.* A crash brings back messages redacted since the last save. A redaction leaves the time of
  the conversation as it was.
* *Flood table.* The comment at net.c:478 has a full table evict by hash; it takes the oldest slot.
* *Stores.* Unreadable ban and history files are started without.

## 4. Plan

The models of the plan are written, except those below; what remains is proof.

| Module | State | Theorems worth proving |
|---|---|---|
| NickNet, NickNetProofs | checked, proved | done, all but liveness |
| WorkerPool, WorkerPoolProofs | checked, proved | done, all but liveness |
| ChanNet, ChanNetProofs | checked, proved | done, all but `CopiesAgree`, and `MembersAgree` after refused UIDs and KICKs |
| ChanMode | checked | one letter keeps `SeniorIsOp` |
| Admission, AdmissionProofs | checked, proved | done |
| EventLoop, EventLoopProofs | checked, proved | done, all but liveness |
| Bans, BansProofs | checked, proved | done |
| Store, StoreProofs | checked, proved | done, all but liveness |
| History | checked | the ring part of `TypeOK`; the steps of `Refines` for insertion |
| Login, LoginProofs | checked, proved | done, all but liveness |
| ChanServ | checked | the table part of `TablesSound` |
| ServerTree | not begun | links that come up in a loop and the refusals of SERVER: the links in use form a tree, which NickNet and ChanNet take as a constant |
| LinkPeer | not begun | handshake, dialling, backoff, ping; the `LinkUp` that NickNet takes as one step |
| ChanEntry | not begun | invites, limits, redirects, throttles, delayed joins |

`DurableStore` and `MessageLog` are the abstract specifications; of LinkPeer, `LinkUp` would be one.

Instances. Where one module is checked under several workloads, a variable `play` is chosen once, in
`Init`, out of the constant `Plays`: it says who does what and how often. Each workload is an instance of
its own; nothing else depends on it.

## 5. Definitions marked "Mutant"

Next to some definitions stands a broken variant of it, marked *Mutant* and used by nothing in the
specification: a plausible bug in the code it models. `PROJECT.json` names, for each property of each
passing run, a mutant that makes TLC find the property violated, as evidence that the property says
something about the code.

## 6. What is proved and what is only checked

TLAPS proves the theorems of `NickNetProofs`, `ChanNetProofs`, `WorkerPoolProofs`, `EventLoopProofs`,
`AdmissionProofs`, `BansProofs`, `StoreProofs` and `LoginProofs`, for every value of the constants that
satisfies the assumptions.
Everything else is checked by TLC on the instances above:

* liveness (`LeavesEverywhere`, `NobodyStuck`, `PassesServe`, `PassEnds`, `Saved`), which needs reasoning
  about ENABLED;
* `CopiesAgree`, and `MembersAgree` where `ChanNetProofs` does not have it, which need of channels what the
  trails of `NickNetProofs` are for users, with the merge of modes and topics on top; and `EndsAgree`, which
  needs induction over a line of letters;
* the refinement of `MessageLog` by `History`;
* the safety of ChanServ and History, which the plan has for proof.

## 7. What is not modelled

* Parsing and building of lines, WebSocket frames, hashing and logging (`proto.c`, `ws.c`, `crypto.c`,
  `log.c`): conversions without state; the models start from parsed lines.
* Configuration and process start (`config.c`, `main.c`): sequential.
* Queries (WHO, WHOIS, LIST, STATS in `cmd_user.c` and `cmd_info.c`): they change nothing. Delivery of
  messages, MONITOR and WATCH: read-only walks of tables that are modelled.
* Spam scoring (`spam.c`): arithmetic on text; the lines it sets are in Bans.
* The entry rules of a channel (invites, limits, redirects, throttles, knocks), the handshake and dialling
  of links, loops of links, SVCRELAY and SVCSASL over further servers, MEMO: in the plan or, for the last,
  without interaction with anything else.
* Regular expressions, CIDR and wildcards: a mask hits or does not.
* Vendored parsers.
