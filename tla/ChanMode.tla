------------------------------ MODULE ChanMode ------------------------------
(***************************************************************************)
(* A MODE line: what cmd_apply_channel_mode (cmd_chan.c) does to a channel *)
(* on the server it is typed on, what netsync_chan_mode makes of it for    *)
(* the wire, and what handle_mode (netsync.c) does with that on a server   *)
(* that receives it.                                                       *)
(*                                                                         *)
(* A line is a sequence of signed letters and a sequence of arguments; the *)
(* letters take their arguments from the left, and three pieces of code    *)
(* each have their own idea of which letters do.  The channel is the part  *)
(* of channel_t that a MODE changes, with all five ranks.  Its members are *)
(* fixed (ChanNet has JOIN, PART and KICK) and one server's users do all   *)
(* the setting, so the lines arrive in order and cross nothing.            *)
(*                                                                         *)
(* b stands for b, e and I; t for the flags without rules of their own; l  *)
(* for l, f, j and L, whose argument goes with + only.                     *)
(***************************************************************************)
EXTENDS Naturals, Sequences, FiniteSets, SequencesExt

CONSTANTS
    User,        \* everyone who can issue or be named in a MODE
    InChannel,   \* the users in the channel
    Oper,        \* users with umode +o (IRC operators)
    Service,     \* service bots, of a services link (link.c)
    Mask, Number, Word,  \* arguments: ban masks, numbers for +l, anything else
    None,        \* no key, no limit, no argument
    Zero,        \* what atoi makes of an argument that is not a number
    Plays,       \* the workloads of this instance (see play)
    InitRank,    \* the ranks of the members when the instance starts
    MaxParams,   \* MAX_MODE_PARAMS
    MaxWire      \* bound: lines on the wire

Rank == {"q", "a", "o", "h", "v"}
Flag == {"t", "r", "P"}
Letter == [on : BOOLEAN, mode : Flag \cup {"k", "l", "b"} \cup Rank]
Arg == User \cup Mask \cup Number \cup Word

ASSUME UserType == InChannel \subseteq User /\ Oper \subseteq User /\ Service \subseteq User
ASSUME InputType ==
    /\ None \notin Arg
    /\ \A p \in Plays : p.by \subseteq User /\ p.letters \subseteq Letter /\ p.args \subseteq Arg /\ p.len \in Nat
ASSUME RankType == InitRank \in [InChannel -> SUBSET Rank]
ASSUME BoundType == MaxParams \in Nat /\ MaxWire \in Nat

VARIABLES
    play,    \* who types in this behaviour, which letters and arguments, and how many of each to a line (a bound)
    here,    \* the channel on the server of those who set modes
    there,   \* the channel on the server that hears of it
    wire     \* the MODE lines on their way

vars == <<play, here, there, wire>>

\* channel_normalize_mask completes what is not a mask yet.
Normal(w) == IF w \in Mask THEN w ELSE <<w, "!*@*">>

\* On the wire a member is named by UID, a string that no nick or mask equals.
Uid(u) == <<u, "uid">>
Wired == Arg \cup {Normal(w) : w \in Arg} \cup {Uid(u) : u \in User}

Channel ==
    [flags : SUBSET Flag, key : Wired \cup {None}, limit : Number \cup {None, Zero},
     bans : SUBSET Wired, rank : [InChannel -> SUBSET Rank]]

\* Which letters take an argument.  netsync_chan_mode and handle_mode agree.
WireTakes(x) == x.mode \in {"k", "b"} \cup Rank \/ (x.mode = "l" /\ x.on)

(***************************************************************************)
(* Ranks.                                                                  *)
(***************************************************************************)
\* channel_rank_level
LevelOf == [v |-> 1, h |-> 2, o |-> 3, a |-> 4, q |-> 5]
Level(ranks) == Max({0} \cup {LevelOf[r] : r \in ranks})

\* Mutant: -o takes the op rank only.
OpOnlyTaken(x) == {x.mode}

\* Owners and admins are ops too; -o is a full demotion.
Given(x) == {x.mode} \cup IF x.mode \in {"q", "a"} THEN {"o"} ELSE {}
Taken(x) == {x.mode} \cup IF x.mode = "o" THEN {"q", "a"} ELSE {}
Ranked(ranks, x) == IF x.on THEN ranks \cup Given(x) ELSE ranks \ Taken(x)

\* The change of one letter, if it is valid, as both servers make it.
Changed(c, x, arg) ==
    CASE x.mode \in Flag -> [c EXCEPT !.flags = IF x.on THEN @ \cup {x.mode} ELSE @ \ {x.mode}]
      [] x.mode = "k"    -> [c EXCEPT !.key = IF x.on THEN arg ELSE None]
      [] x.mode = "l"    -> [c EXCEPT !.limit = IF x.on THEN arg ELSE None]
      [] x.mode = "b"    -> [c EXCEPT !.bans = IF x.on THEN @ \cup {arg} ELSE @ \ {arg}]
      [] x.mode \in Rank -> [c EXCEPT !.rank[arg] = Ranked(@, x)]

(***************************************************************************)
(* cmd_apply_channel_mode.  The loop over the letters is a fold over       *)
(*   c: the channel so far      args: the arguments not taken yet          *)
(*   out: the letters to announce      params: their arguments             *)
(***************************************************************************)
\* Mutant: a halfop may use every letter.
AnyLetter(u, full, x) == x.mode = "r" => u \in Service

\* +r and -r are the services', +P the opers'; a halfop has v and b only.
Allowed(u, full, x) ==
    /\ x.mode = "r" => u \in Service
    /\ x.mode = "P" /\ x.on => u \in Service \cup Oper
    /\ full \/ x.mode \in {"v", "b", "r"}

\* Mutant: +l takes what it gets.
AnyLimit(x, arg) == x.mode \in Rank => arg \in InChannel

\* +l takes a number, a rank letter a member; the rest takes what it gets.
Valid(x, arg) ==
    /\ x.mode = "l" /\ x.on => arg \in Number
    /\ x.mode \in Rank => arg \in InChannel

SetterLevel(c, u) ==
    IF u \in Oper \cup Service THEN 99 ELSE IF u \in InChannel THEN Level(c.rank[u]) ELSE 0
NeededLevel(x) == IF x.mode = "q" THEN 5 ELSE IF x.mode = "a" THEN 4 ELSE 0

\* Mutant: the one who is named need not be junior.
AnyTarget(c, u, x, v) == SetterLevel(c, u) >= NeededLevel(x)

\* Who may touch whom: nobody takes a rank from a service or from somebody more
\* senior, or gives one he needs himself; one's own rank can be dropped.
MayRank(c, u, x, v) ==
    /\ v \in Service /\ ~x.on => u \in Service
    /\ \/ v = u /\ ~x.on
       \/ /\ SetterLevel(c, u) >= NeededLevel(x)
          /\ x.on \/ Level(c.rank[v]) <= SetterLevel(c, u)

\* What is so already is not announced; a key or a limit is set all the same.
News(c, x, arg) ==
    CASE x.mode \in Flag -> x.on # (x.mode \in c.flags)
      [] x.mode = "k"    -> x.on \/ c.key # None
      [] x.mode = "l"    -> x.on \/ c.limit # None
      [] x.mode = "b"    -> x.on # (arg \in c.bans)
      [] x.mode \in Rank -> x.on # (x.mode \in c.rank[arg])

\* One letter.  A letter that is not allowed leaves its argument to the next one;
\* -k takes an argument if there is one and announces none.
LetterStep(u, full, w, x) ==
    LET take == WireTakes(x) /\ w.args # << >>
        arg  == IF ~take THEN None ELSE IF x.mode = "b" THEN Normal(Head(w.args)) ELSE Head(w.args)
        rest == [w EXCEPT !.args = IF take THEN Tail(@) ELSE @]
        short == WireTakes(x) /\ ~take /\ ~(x.mode = "k" /\ ~x.on)
        does == /\ Valid(x, arg)
                /\ x.mode \in Rank => MayRank(w.c, u, x, arg)
                /\ News(w.c, x, arg)
        tells == take /\ ~(x.mode = "k" /\ ~x.on)
    IN  IF Len(w.params) >= MaxParams \/ ~Allowed(u, full, x) \/ short THEN w
        ELSE IF ~does THEN rest
        ELSE [rest EXCEPT !.c = Changed(@, x, arg), !.out = Append(@, x),
                          !.params = IF tells THEN Append(@, arg) ELSE @]

Applied(u, full, c, letters, args) ==
    FoldLeft(LAMBDA w, x : LetterStep(u, full, w, x),
             [c |-> c, args |-> args, out |-> << >>, params |-> << >>], letters)

(***************************************************************************)
(* netsync_chan_mode: the announced arguments are dealt out again by       *)
(* letter, and the members among them become UIDs.                         *)
(***************************************************************************)
\* Mutant: nicks stay nicks.
NickStep(w, x) ==
    IF WireTakes(x) /\ w.args # << >>
    THEN [args |-> Tail(w.args), p |-> Append(w.p, Head(w.args))] ELSE w

WireStep(w, x) ==
    LET take == WireTakes(x) /\ w.args # << >>
        uid(a) == IF x.mode \in Rank /\ a \in User THEN Uid(a) ELSE a
    IN  IF take THEN [args |-> Tail(w.args), p |-> Append(w.p, uid(Head(w.args)))] ELSE w

WireLine(u, out, params) ==
    [src |-> u, letters |-> out,
     args |-> FoldLeft(WireStep, [args |-> params, p |-> << >>], out).p]

(***************************************************************************)
(* handle_mode: no rank is asked for, and what has no effect is skipped.   *)
(***************************************************************************)
ReceiveStep(w, x) ==
    LET take == WireTakes(x) /\ w.args # << >>
        arg  == IF take THEN Head(w.args) ELSE None
        named == {v \in InChannel : arg = Uid(v)}
        rest == [w EXCEPT !.args = IF take THEN Tail(@) ELSE @]
        value == CASE x.mode \in Rank -> CHOOSE v \in named : TRUE
                   [] x.mode = "l" /\ take -> IF arg \in Number THEN arg ELSE Zero
                   [] OTHER -> arg
        skip == (x.mode \in Rank /\ named = {}) \/ (x.mode = "b" /\ ~take)
    IN  IF skip THEN rest ELSE [rest EXCEPT !.c = Changed(@, x, value)]

Received(c, line) ==
    FoldLeft(ReceiveStep, [c |-> c, args |-> line.args], line.letters).c

(***************************************************************************)
(* Actions.                                                                *)
(***************************************************************************)
Init ==
    /\ play \in Plays
    /\ here = [flags |-> {}, key |-> None, limit |-> None, bans |-> {}, rank |-> InitRank]
    /\ there = here
    /\ wire = << >>

Apply(u, full, letters, args) ==
    LET w == Applied(u, full, here, letters, args)
    IN  /\ here' = w.c
        /\ wire' = IF w.out = << >> THEN wire ELSE Append(wire, WireLine(u, w.out, w.params))
        /\ UNCHANGED there

RankOf(u) == IF u \in InChannel THEN here.rank[u] ELSE {}

\* cmd_mode_channel: an op, a halfop or an IRC operator; whether he is a full op is
\* found out once, before the line is applied.
MayMode(u) == RankOf(u) \cap {"o", "h"} # {} \/ u \in Oper
FullOp(u) == u \in Oper \/ "o" \in RankOf(u)

Mode(u, letters, args) ==
    /\ u \in User \ Service /\ MayMode(u)
    /\ Apply(u, FullOp(u), letters, args)

\* cmd_samode by an IRC operator, and MODE from a services link.
SaMode(u, letters, args) == u \in Oper /\ Apply(u, TRUE, letters, args)
ServiceMode(u, letters, args) == u \in Service /\ Apply(u, TRUE, letters, args)

Receive ==
    /\ wire # << >>
    /\ there' = Received(there, Head(wire))
    /\ wire' = Tail(wire)
    /\ UNCHANGED here

Typed ==
    /\ Len(wire) < MaxWire
    /\ \E u \in play.by, letters \in SeqOf(play.letters, play.len), args \in SeqOf(play.args, play.len) :
        \/ Mode(u, letters, args)
        \/ SaMode(u, letters, args)
        \/ ServiceMode(u, letters, args)

Next == (Typed \/ Receive) /\ UNCHANGED play

Spec == Init /\ [][Next]_vars

(***************************************************************************)
(* What the code has to keep.                                              *)
(***************************************************************************)
TypeOK ==
    /\ play \in Plays
    /\ here \in Channel
    /\ there \in Channel
    /\ Len(wire) <= MaxWire
    /\ \A i \in DOMAIN wire : /\ wire[i].src \in User /\ wire[i].letters \in Seq(Letter)
                            /\ wire[i].args \in Seq(Wired)

\* cmd_chan.c: "owner/admin are ops too -- every op check keeps working", on both
\* servers and whatever order ranks are given and taken in.
SeniorIsOp ==
    \A c \in {here, there} : \A v \in InChannel :
        c.rank[v] \cap {"q", "a"} # {} => "o" \in c.rank[v]

\* netsync.c: "the rest of the network gets the same change": once a line is read,
\* its two ends have the same channel.
InSync == wire = << >> => there = here

\* cmd_chan.c: "the setter must be at least as senior as the target (opers and
\* services always are), and only an owner may grant +q, only owner/admin +a", over
\* a whole line, in which the setter's own rank can change: nobody but the setter
\* comes out lower who was more senior, or higher than the setter was.
Setter == Last(wire').src
SetterWas == SetterLevel(here, Setter)
LineBySeniority ==
    here' # here => \A v \in InChannel :
         LET was == Level(here.rank[v])  is == Level(here'.rank[v])
         IN  /\ is < was => v = Setter \/ was <= SetterWas
             /\ is > was => is <= SetterWas

\* A halfop's line, however long, changes nothing but voices and masks.
LineByHalfop ==
    here' # here /\ SetterWas <= 2 =>
         /\ [here' EXCEPT !.bans = here.bans, !.rank = here.rank] = here
         /\ \A v \in InChannel : here.rank[v] \ {"v"} = here'.rank[v] \ {"v"}

\* Both servers come to the same channel after each line, in which owners and admins are ops and
\* every argument is of the kind its letter takes (cmd_apply_channel_mode, handle_mode).
EndsAgree == TypeOK /\ SeniorIsOp /\ InSync

\* What a line may do is bounded by what its setter was (the rank letters and the halfop's scope in cmd_apply_channel_mode).
SetterBound == [][LineBySeniority /\ LineByHalfop]_vars
=============================================================================
