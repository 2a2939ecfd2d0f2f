------------------------------ MODULE MCChanNet ------------------------------
\* Instances of ChanNet: what happens on a line of three servers, or on two of them.
EXTENDS ChanNet, TLC

CONSTANTS a, b, c, ua, ub, uc, ud

\* a -- b -- c
LineRoute ==
    (a :> (a :> a @@ b :> b @@ c :> b))
        @@ (b :> (a :> a @@ b :> b @@ c :> c))
        @@ (c :> (a :> b @@ b :> b @@ c :> c))

Homes == ua :> a @@ ub :> b @@ uc :> c @@ ud :> b

Pair(ops) ==
    [servers |-> {a, b}, users |-> {ua, ub}, opers |-> {}, ops |-> ops, crossing |-> {}, topics |-> {}, moves |-> 3,
     faults |-> 1, refused |-> 0]

\* Everything crosses everything, and users lose nick collisions.
Anything ==
    [Pair({"join", "part", "quit", "P", "k", "o", "topic"})
        EXCEPT !.opers = {ub}, !.crossing = {"join", "part", "quit", "P", "k", "o", "topic"}, !.topics = {1}, !.refused = 1]
\* Everything crosses everything but KICKs.
Kicking ==
    [Pair({"join", "part", "quit", "kick", "o"}) EXCEPT !.crossing = {"join", "part", "quit", "o"}, !.moves = 4]
\* An IRC operator makes channels permanent and takes it back, in them or not.
Permanent == [Pair({"join", "part", "P"}) EXCEPT !.opers = {ub}, !.crossing = {"join", "part", "P"}, !.moves = 5]
\* Two copies that grew apart in a split, or from two creations, are merged.
Merging ==
    [Pair({"join", "t", "b", "o", "topic"})
        EXCEPT !.users = {ua, ub, ud}, !.opers = {ud}, !.crossing = {"join"}, !.topics = {1, 2}, !.moves = 4]
\* Copies of different ages on three servers.
Chain ==
    [Pair({"join"}) EXCEPT !.servers = {a, b, c}, !.users = {ua, ub, uc}, !.crossing = {"join"}, !.moves = 2]
AllPlays == {Anything, Kicking, Permanent, Merging, Chain}

\* Where the code does not do what its comments say.
ModePlay == {[Pair({"join", "o"}) EXCEPT !.users = {ua, ub, ud}, !.crossing = {"o"}, !.moves = 4]}
PartPlay == {[Pair({"join", "part"}) EXCEPT !.crossing = {"join", "part"}, !.moves = 5, !.faults = 0]}
KeyPlay == {[Pair({"join", "k"}) EXCEPT !.moves = 4]}
TopicPlay ==
    {[Pair({"join", "topic"}) EXCEPT !.servers = {a, b, c}, !.users = {ua, uc}, !.topics = {1, 2}, !.moves = 4, !.faults = 0]}
ClearPlay == {[Pair({"join", "topic"}) EXCEPT !.topics = {0, 1}, !.moves = 4]}
EmptyPlay == {[Pair({"join", "part", "P"}) EXCEPT !.opers = {ua}, !.faults = 0]}
=============================================================================
