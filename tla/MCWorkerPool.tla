----------------------------- MODULE MCWorkerPool -----------------------------
\* Instances of WorkerPool: what is looked up, and how often OPER is tried.
EXTENDS WorkerPool, TLC

CONSTANT c1

\* Two resolver lookups; a gateway's ident lookup and an OPER attempt; three OPER attempts alone.
Resolving == [lookups |-> <<"dnsbl", "rdns">>, gateways |-> {}, auths |-> 0]
Gateway == [lookups |-> <<"ident">>, gateways |-> {c1}, auths |-> 1]
Opering == [lookups |-> << >>, gateways |-> {}, auths |-> 3]
AllPlays == {Resolving, Gateway, Opering}

OperOnly == {[lookups |-> << >>, gateways |-> {}, auths |-> 1]}
Named == {[lookups |-> <<"rdns", "ident">>, gateways |-> {c1}, auths |-> 0]}
=============================================================================
