------------------------------ MODULE MCNickNet ------------------------------
\* Instances of NickNet: a pair of servers, and a line of three.
EXTENDS NickNet, TLC

CONSTANTS a, b, c, u1, u2, u3

PairRoute == (a :> (a :> a @@ b :> b)) @@ (b :> (a :> a @@ b :> b))

\* a -- b -- c
LineRoute ==
    (a :> (a :> a @@ b :> b @@ c :> b))
        @@ (b :> (a :> a @@ b :> b @@ c :> c))
        @@ (c :> (a :> b @@ b :> b @@ c :> c))

TwoHomes == u1 :> a @@ u2 :> b
BotHomes == u1 :> a @@ u3 :> b
EndsAndBot == u1 :> a @@ u3 :> c
EndHomes == u1 :> a @@ u2 :> c
=============================================================================
