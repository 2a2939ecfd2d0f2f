----------------------------- MODULE MCChanMode -----------------------------
\* Instances of ChanMode: who types what, and the ranks to start with.
EXTENDS ChanMode, TLC

CONSTANTS alice, bob, cs, sal, mask, five, word

Signed(modes) == {[on |-> s, mode |-> m] : s \in BOOLEAN, m \in modes}
Plus(modes) == {[on |-> TRUE, mode |-> m] : m \in modes}

\* The members give and take every rank, and set a flag.
Ranks == [by |-> {alice, bob}, letters |-> Signed(Rank) \cup Plus({"t"}), args |-> {alice, bob}, len |-> 2]
\* An op and an IRC operator from outside set everything else, with arguments that may not fit.
Settings ==
    [by |-> {alice, sal}, letters |-> Signed({"l", "b"}) \cup Plus({"k", "o", "t"}), args |-> {bob, mask, five}, len |-> 2]
\* Flags with rules of their own, and a service.
Flags == [by |-> {alice, sal, cs}, letters |-> Signed({"r", "P", "v"}), args |-> {bob}, len |-> 2]
\* Lines with more parameters than are taken.
LongLines == [by |-> {alice}, letters |-> Signed({"b", "o"}) \cup Plus({"k", "t"}), args |-> {bob, mask}, len |-> 3]
AllPlays == {Ranks, Settings, Flags, LongLines}

KeyPlay == {[by |-> {alice}, letters |-> Signed({"k", "o", "v"}), args |-> {bob, word}, len |-> 2]}

OwnerAndVoice == alice :> {"q", "o"} @@ bob :> {"v"}
=============================================================================
