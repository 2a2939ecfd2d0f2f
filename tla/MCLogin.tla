------------------------------ MODULE MCLogin -------------------------------
\* Instances of Login: accounts to start with, what is typed and sent.
EXTENDS Login, TLC

CONSTANTS c1, c2, c3, n1, n2, n3, g1, p1, p2

Rec(p) == [pw |-> p, cert |-> None, suspended |-> FALSE, nicks |-> {}, verified |-> FALSE, code |-> FALSE, reset |-> FALSE]
With(f) == f @@ [n \in Nick |-> None]
Per(x, y, z) == c1 :> x @@ c2 :> y @@ c3 :> z
Nothing == Per({}, {}, {})
Nicks == Per(n1, n3, n2)

Type(c, k, a, p, q) == [c |-> c, cmd |-> k, arg |-> a, pw |-> p, new |-> q]
Plain(a, p) == [kind |-> "plain", acct |-> a, pw |-> p]
Scram == {[kind |-> "first", acct |-> n1], [kind |-> "final", pw |-> p1]}
Commands ==
    {Type(c1, k, n1, p1, p2) : k \in {"LOGOUT", "SET PASSWORD", "SET EMAIL", "VERIFY", "CERT ADD", "CERT DEL",
                                      "DROP", "REGAIN", "GHOST", "REGISTER", "IDENTIFY"}}
    \cup {Type(c2, "IDENTIFY", n2, p2, p2), Type(c2, "GROUP", n3, p2, p2), Type(c2, "UNGROUP", n3, p2, p2)}
    \cup {Type(c2, k, n1, p2, p2) : k \in {"LOGOUT", "RESET MAIL", "RESETPASS", "SUSPEND", "UNSUSPEND",
                                           "FDROP", "SASET", "GHOST", "REGAIN"}}

\* Two connections log in with SASL and PASS while the services come and go.
Sasl ==
    [start |-> Per("open", "open", "none"), acct |-> Per(None, None, None),
     store |-> With(n1 :> [Rec(p1) EXCEPT !.cert = c1]), typed |-> {},
     data |-> Per({Plain(n1, p1)}, Scram, {}), mech |-> Per({"EXTERNAL"}, {"SCRAM"}, {}),
     pass |-> Per({Plain(n1, p1)}, {}, {}), acts |-> {"ready", "sasl", "abort"}, moves |-> 4]
\* Users log in, lose and regain nicks, and an admin acts on accounts; a third user comes.
NickPlay ==
    [start |-> Per("user", "user", "none"), acct |-> Per(n1, None, None),
     store |-> With(n1 :> [Rec(p1) EXCEPT !.verified = TRUE] @@ n2 :> Rec(p2)), typed |-> Commands,
     data |-> Nothing, mech |-> Nothing, pass |-> Nothing,
     acts |-> {"connect", "ready", "nick", "register", "quit", "calm"}, moves |-> 3]
Both == {Sasl, NickPlay}

JustSasl == {Sasl}
\* An account is suspended in the middle of a SCRAM exchange.
Suspension ==
    {[NickPlay EXCEPT !.start = Per("user", "user", "open"), !.data = Per({}, {}, Scram), !.mech = Per({}, {}, {"SCRAM"}),
                      !.typed = {Type(c2, "IDENTIFY", n2, p2, p2), Type(c2, "SUSPEND", n1, p2, p2)},
                      !.acts = {"sasl"}, !.moves = 7]}
=============================================================================
