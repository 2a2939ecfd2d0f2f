----------------------------- MODULE MCChanServ -----------------------------
\* Instances of ChanServ: the registrations to start with and what is typed.
EXTENDS ChanServ

CONSTANTS alice, bob, acc, t1, t2, p1, p2, n1, n2, n3

Plain ==
    [pw |-> p1, ts |-> 1, founder |-> acc, secureops |-> FALSE, restricted |-> FALSE, guard |-> FALSE,
     topiclock |-> FALSE, topic |-> None, mlock |-> None, access |-> {}, akick |-> {}, successor |-> None]
Guarded ==
    [Plain EXCEPT !.secureops = TRUE, !.guard = TRUE, !.topiclock = TRUE, !.topic = t1, !.mlock = "on",
                  !.access = {<<alice, "o">>}]

Cmds(u, k, args, pw) == {[user |-> u, cmd |-> k, arg |-> x, pw |-> pw] : x \in args}
With(k, args) == Cmds(alice, k, args, p1)

\* What alice, who knows the password, has ChanServ do with bob and the channel.
Settings ==
    UNION {With("ACCESS ADD", {<<bob, "o">>}), With("ACCESS DEL", {alice}), With("AKICK ADD", {acc, bob}),
           With("AKICK DEL", {bob}), With("RESTRICTED", {TRUE}), With("SECUREOPS", {TRUE, FALSE}),
           With("MLOCK", {"off"}), With("TOPICLOCK", {TRUE, FALSE}), With("FOUNDER", {None}),
           With("JOIN", {None}), With("PART", {None}), With("TOPIC", {t2}), With("OP", {n2}), With("DEOP", {n2}),
           With("KICK", {n2}), With("UNBAN", {n2}),
           With("SETPASS", {p2}), With("SUCCESSOR SET", {bob})}
\* Who owns the channel: both know how to register, bob is to be the successor.
Ownership ==
    UNION {With("REGISTER", {None}), With("IDENTIFY", {None}), With("DROP", {None}),
           Cmds(bob, "SUCCESSOR CLAIM", {p2}, p2), Cmds(bob, "IDENTIFY", {None}, None)}

\* A guarded channel and an unguarded one with every setting of ChanServ; and a channel that is
\* registered, identified for, claimed and dropped.
Guarding ==
    [acts |-> {"join", "part", "op", "flag", "topic", "login"}, typed |-> Settings, forgets |-> FALSE,
     records |-> {Plain, Guarded}, moves |-> 2, clock |-> 2, drops |-> 0]
Owning ==
    [acts |-> {"join", "quit", "arrive", "nick", "login"}, typed |-> Ownership, forgets |-> TRUE,
     records |-> {None, [Plain EXCEPT !.successor = bob]}, moves |-> 3, clock |-> 1, drops |-> 0]
\* The same, less busy, with a step whose lines do not fit in the buffer.
Crowded ==
    [Guarding EXCEPT !.acts = {"join", "op"}, !.typed = With("AKICK ADD", {bob}), !.drops = 1,
                     !.records = {Plain, [Guarded EXCEPT !.topiclock = FALSE, !.topic = None]}]
CrowdedOwning ==
    [Owning EXCEPT !.records = @ \ {None}, !.forgets = FALSE, !.moves = 2, !.drops = 1]
Workloads == {Guarding, Owning, Crowded, CrowdedOwning}
Nicks == alice :> n1 @@ bob :> n2
=============================================================================
