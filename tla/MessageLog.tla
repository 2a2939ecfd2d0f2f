----------------------------- MODULE MessageLog -----------------------------
(***************************************************************************)
(* What message history promises (history.h): every conversation keeps its *)
(* newest messages in the order they came, at most as many as history_size *)
(* says, less the redacted ones.  It starts over when the size was         *)
(* changed, is forgotten when there are too many others, moves with its    *)
(* channel's name, and after a restart is what was last saved.             *)
(***************************************************************************)
EXTENDS Integers, FiniteSets, SequencesExt
CONSTANTS Keys, Message
VARIABLES
    log,    \* the messages of each conversation, oldest first
    sized,  \* the size a conversation was kept at, 0 before its first message
    size,   \* history_size, 0 when history is off
    disk    \* what was last saved
lvars == <<log, sized, size, disk>>

Newest(c, s) == SubSeq(s, Max({1, Len(s) - c + 1}), Len(s))

Init ==
    /\ log = [k \in Keys |-> <<>>] /\ sized = [k \in Keys |-> 0]
    /\ size \in Nat /\ disk = log

Post(k, m, F) ==
    /\ size > 0 /\ k \notin F /\ Cardinality(F) <= 1
    /\ log' = [j \in Keys |->
                 CASE j = k -> IF sized[k] \in {0, size} THEN Newest(size, Append(log[k], m)) ELSE <<m>>
                   [] j \in F -> <<>>
                   [] OTHER -> log[j]]
    /\ sized' = [j \in Keys |-> IF j = k THEN size ELSE IF j \in F THEN 0 ELSE sized[j]]
    /\ UNCHANGED <<size, disk>>
Redact(k, i) ==
    /\ log' = [log EXCEPT ![k] = RemoveAt(@, i)]
    /\ UNCHANGED <<sized, size, disk>>
Move(j, k) ==
    /\ sized[j] # 0 /\ j # k
    /\ log' = [log EXCEPT ![j] = <<>>, ![k] = log[j]]
    /\ sized' = [sized EXCEPT ![j] = 0, ![k] = sized[j]]
    /\ UNCHANGED <<size, disk>>
Resize == size' \in Nat /\ UNCHANGED <<log, sized, disk>>
Save == disk' = log /\ UNCHANGED <<log, sized, size>>
Restart ==
    /\ disk' \in {disk, log}
    /\ log' = [k \in Keys |-> Newest(size, disk'[k])]
    /\ sized' = [k \in Keys |-> IF log'[k] = <<>> THEN 0 ELSE size]
    /\ UNCHANGED size

Next ==
    \/ \E k \in {j \in Keys : log'[j] # <<>> /\ Last(log'[j]) \in Message} :
         Post(k, Last(log'[k]), {j \in Keys : sized[j] # 0 /\ sized'[j] = 0})
    \/ \E k \in Keys : \E i \in DOMAIN log[k] : Redact(k, i)
    \/ \E j, k \in Keys : Move(j, k)
    \/ Resize \/ Save \/ Restart
Spec == Init /\ [][Next]_lvars
=============================================================================
