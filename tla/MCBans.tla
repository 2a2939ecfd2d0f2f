------------------------------- MODULE MCBans -------------------------------
\* Instances of Bans: on server A an operator and a user who comes and goes, on server B an
\* operator.  One mask hits everybody's address, one the user's name and a certain ident.
EXTENDS Bans
MCServers == {"A", "B"}
MCUsers == {"opA", "u", "opB"}
MCOpers == {"opA", "opB"}
MCHome == [x \in MCUsers |-> IF x = "opB" THEN "B" ELSE "A"]
MCMasks == {"range", "mark"}
MCAddr == [m \in MCMasks |-> IF m = "range" THEN MCUsers ELSE {}]
MCName == [m \in MCMasks |-> IF m = "mark" THEN {"u"} ELSE {}]
MCIdent == [m \in MCMasks |-> IF m = "mark" THEN "bad" ELSE None]
MCTypes == [o \in MCOpers |-> IF o = "opA" THEN {"K", "G", "S", "E"} ELSE {"G"}]
MCOwn == [x \in MCUsers |-> "range"]
=============================================================================
