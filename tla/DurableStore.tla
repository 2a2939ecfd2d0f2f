---------------------------- MODULE DurableStore ----------------------------
(***************************************************************************)
(* What a store of the program (accounts, channel registrations, bans,     *)
(* message history) promises: what is saved in one step is what the next   *)
(* start finds, whole, whenever the program stopped.  Damage of the file   *)
(* from outside lasts until the next save.  A careful store never takes a  *)
(* file that is spoilt for an empty one: a start finds some older save, or *)
(* is refused.  A file cut to nothing, or put aside by the start that      *)
(* found it spoilt, may be taken for an empty store.                       *)
(***************************************************************************)
CONSTANTS Value, Empty, Down, Refused
VARIABLES
    careful, \* this store has older saves to go by
    now,     \* what the running program has, or Down
    kept,    \* what a start would find, or Refused
    past,    \* all that was ever saved
    hurt     \* what became of the file since the last save: "no" damage, "spoilt" or "emptied"
dvars == <<careful, now, kept, past, hurt>>

Answers(damage) ==
    IF ~careful THEN {Empty} ELSE past \cup {IF damage = "spoilt" THEN Refused ELSE Empty}

Init == careful \in BOOLEAN /\ kept \in Value /\ now = kept /\ past = {kept} /\ hurt = "no"
Change == now # Down /\ now' \in Value /\ UNCHANGED <<kept, past, hurt>>
Save == now # Down /\ kept' = now /\ past' = past \cup {now} /\ hurt' = "no" /\ UNCHANGED now
Stop == now # Down /\ now' = Down /\ UNCHANGED <<kept, past, hurt>>
Start ==
    /\ now = Down /\ kept # Refused /\ now' = kept /\ UNCHANGED past
    /\ \/ UNCHANGED <<kept, hurt>>
       \/ hurt = "spoilt" /\ hurt' = "emptied" /\ kept' \in Answers(hurt')
Damage == now = Down /\ hurt' \in {"spoilt", "emptied"} /\ kept' \in Answers(hurt') /\ UNCHANGED <<now, past>>
Decay == hurt # "no" /\ kept' \in Answers(hurt) /\ UNCHANGED <<now, past, hurt>>

Next == (Change \/ Save \/ Stop \/ Start \/ Damage \/ Decay) /\ UNCHANGED careful
Spec == Init /\ [][Next]_dvars
=============================================================================
