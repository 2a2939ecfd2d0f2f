------------------------------- MODULE Store --------------------------------
(***************************************************************************)
(* The four files the program keeps: accounts (accounts.c), channel        *)
(* registrations (services/chanserv.c), bans (server.c) and history        *)
(* (history.c).  A change marks the store dirty, a tick writes it: backups *)
(* are rotated, a temporary file is written, synced and renamed over the   *)
(* live one.  The program may die between any two system calls, any write  *)
(* may fail, and a file may be damaged while the program is down.          *)
(*                                                                         *)
(* A file holds a value of the store, is absent, is cut to nothing, or     *)
(* holds what is no store.  One that cannot be opened is left out.         *)
(***************************************************************************)
EXTENDS Integers, FiniteSets

CONSTANTS
    Kinds,     \* the stores of this instance
    Value, Empty,
    Absent, Cut, Bad, Down, Refused,
    N,         \* backup_count
    Fallible,  \* the stores whose writes may fail in this instance
    Damages,   \* what damage leaves: Cut or Bad
    MaxChanges, MaxFails, MaxCrashes, MaxDamage

ASSUME StoreTypes ==
    /\ Kinds \cup Fallible \subseteq {"accounts", "channels", "klines", "history"}
    /\ Empty \in Value /\ {Absent, Cut, Bad, Down, Refused} \cap Value = {}
    /\ Cardinality({Absent, Cut, Bad, Down, Refused}) = 5
    /\ Damages \subseteq {Cut, Bad} /\ N \in Nat

VARIABLES
    kind,
    up, mem, dirty,
    live, bak,       \* <path>, <path>.bak1 ...
    soft,            \* bak1 has not reached the disk for certain
    pc, i,           \* where the write is
    past,            \* every value that was ever in the live file
    changes, fails, crashes, damages
counts == <<changes, fails, crashes, damages>>
files == <<live, bak, soft>>
vars == <<kind, up, mem, dirty, files, pc, i, past, counts>>

File == Value \cup {Absent, Cut, Bad}
\* The stores that have backups.
Rotating == kind \in {"accounts", "channels"}
Rotates == Rotating /\ N > 0
Idle == up /\ pc = "idle"
MayFail == kind \in Fallible /\ fails < MaxFails /\ fails' = fails + 1

\* The newest backup that can be read, or 0.
Good == {k \in 1..N : bak[k] \in Value}
Newest == IF Good = {} THEN 0 ELSE CHOOSE k \in Good : \A j \in Good : k <= j

(***************************************************************************)
(* A change, and the write of the next tick.                               *)
(***************************************************************************)
\* save, store_save, klines_dirty, history_dirty
Change(v) ==
    /\ Idle /\ v # mem /\ changes < MaxChanges /\ changes' = changes + 1
    /\ mem' = v /\ dirty' = TRUE
    /\ UNCHANGED <<kind, up, files, pc, i, past, fails, crashes, damages>>

\* The tick finds the store dirty; backups rotate when five minutes have passed.
Begin(k, flag) ==
    /\ Idle /\ dirty /\ kind = k
    /\ \E r \in BOOLEAN : pc' = IF r /\ Rotates THEN "unlink" ELSE "write"
    /\ dirty' = flag
    /\ UNCHANGED <<kind, up, mem, files, i, past, counts>>

\* Mutant: the flag is dropped when the write begins.
Careless == Begin("accounts", FALSE)

FlushAccounts == Begin("accounts", TRUE)
FlushChannels == Begin("channels", TRUE)
\* server_kline_flush drops the flag first.
FlushKlines == Begin("klines", FALSE)
FlushHistory == Begin("history", TRUE)

\* rotate_backups: the oldest goes, the others move up, the live file is copied.
Unlink ==
    /\ up /\ pc = "unlink"
    /\ bak' = [bak EXCEPT ![N] = Absent] /\ i' = N - 1
    /\ soft' = (soft /\ N > 1) /\ pc' = "shift"
    /\ UNCHANGED <<kind, up, mem, dirty, live, past, counts>>
Shift ==
    /\ up /\ pc = "shift" /\ i >= 1
    /\ bak' = IF bak[i] = Absent THEN bak ELSE [bak EXCEPT ![i + 1] = bak[i], ![i] = Absent]
    /\ i' = i - 1 /\ soft' = (soft /\ i # 1)
    /\ UNCHANGED <<kind, up, mem, dirty, live, pc, past, counts>>
CopyOpen ==
    /\ up /\ pc = "shift" /\ i = 0
    /\ IF live = Absent THEN pc' = "write" /\ UNCHANGED <<bak, soft>>
       ELSE pc' = "copy" /\ bak' = [bak EXCEPT ![1] = Bad] /\ soft' = TRUE
    /\ UNCHANGED <<kind, up, mem, dirty, live, i, past, counts>>
\* A copy that fails is not noticed.
Copy ==
    /\ up /\ pc = "copy" /\ pc' = "write"
    /\ \/ bak' = [bak EXCEPT ![1] = live] /\ UNCHANGED fails
       \/ MayFail /\ UNCHANGED bak
    /\ UNCHANGED <<kind, up, mem, dirty, live, soft, i, past, changes, crashes, damages>>

\* The temporary file is written and synced, or given up.
Write(k) ==
    /\ up /\ pc = "write" /\ kind = k
    /\ \/ pc' = "rename" /\ UNCHANGED fails
       \/ MayFail /\ pc' = "idle"
    /\ UNCHANGED <<kind, up, mem, dirty, files, i, past, changes, crashes, damages>>
WriteAccounts == Write("accounts")
WriteChannels == Write("channels")
WriteKlines == Write("klines")
WriteHistory == Write("history")

\* Mutant: the live file is opened and written in place.
InPlace ==
    /\ up /\ pc = "rename"
    /\ \/ /\ live # Bad /\ live' = Bad /\ UNCHANGED <<pc, dirty, past>>
       \/ /\ live = Bad /\ live' = mem /\ dirty' = FALSE /\ past' = past \cup {mem} /\ pc' = "idle"
    /\ UNCHANGED <<kind, up, mem, bak, soft, i, counts>>

Rename ==
    /\ up /\ pc = "rename" /\ pc' = "idle"
    /\ \/ live' = mem /\ dirty' = FALSE /\ past' = past \cup {mem} /\ UNCHANGED fails
       \/ MayFail /\ UNCHANGED <<live, dirty, past>>
    /\ UNCHANGED <<kind, up, mem, bak, soft, i, changes, crashes, damages>>

(***************************************************************************)
(* Death and start.                                                        *)
(***************************************************************************)
\* The program dies; what was not synced may be gone.
Crash ==
    /\ up /\ crashes < MaxCrashes /\ crashes' = crashes + 1
    /\ up' = FALSE /\ pc' = "idle" /\ dirty' = FALSE /\ mem' = Empty /\ i' = 0
    /\ soft' = FALSE
    /\ bak' \in {bak} \cup {b \in {[bak EXCEPT ![k] = Bad] : k \in {1} \cap 1..N} : soft}
    /\ UNCHANGED <<kind, live, past, changes, fails, damages>>

\* Something else spoils the live file or a backup, or cuts it to nothing.
Damage ==
    /\ ~up /\ damages < MaxDamage /\ damages' = damages + 1
    /\ \E d \in Damages :
        \/ live \in Value /\ live' = d /\ UNCHANGED bak
        \/ \E k \in Good : bak' = [bak EXCEPT ![k] = d] /\ UNCHANGED live
    /\ UNCHANGED <<kind, up, mem, dirty, soft, pc, i, past, changes, fails, crashes>>

Up(v) == up' = TRUE /\ mem' = v
\* accounts_load: a backup stands in for a file that is spoilt, which is put aside; one that
\* is not there, or has nothing in it, is a store without accounts.
LoadAccounts ==
    /\ kind = "accounts" /\ ~up
    /\ \/ live # Bad /\ Up(IF live \in Value THEN live ELSE Empty) /\ UNCHANGED <<dirty, live>>
       \/ live = Bad /\ Newest # 0 /\ Up(bak[Newest]) /\ dirty' = TRUE /\ live' = Absent
    /\ UNCHANGED <<kind, bak, soft, pc, i, past, counts>>

\* Mutant: a spoilt file without a backup is no reason to stop.
NeverRefuses ==
    /\ kind = "channels" /\ ~up
    /\ Up(IF live \in Value THEN live ELSE IF Newest # 0 THEN bak[Newest] ELSE Empty)
    /\ UNCHANGED <<kind, dirty, files, pc, i, past, counts>>

\* store_load: the newest of the live file and the backups that can be read; without any,
\* an empty store, unless the live file is spoilt.  One with nothing in it is passed over.
LoadChannels ==
    /\ kind = "channels" /\ ~up
    /\ \/ live \in Value /\ Up(live)
       \/ live \notin Value /\ Newest # 0 /\ Up(bak[Newest])
       \/ live \in {Absent, Cut} /\ Newest = 0 /\ Up(Empty)
    /\ UNCHANGED <<kind, dirty, files, pc, i, past, counts>>

\* server_kline_load, history_load: what cannot be read is not there.
LoadOr(k) ==
    /\ kind = k /\ ~up
    /\ Up(IF live \in Value THEN live ELSE Empty)
    /\ UNCHANGED <<kind, dirty, files, pc, i, past, counts>>
LoadKlines == LoadOr("klines")
LoadHistory == LoadOr("history")

Init ==
    /\ kind \in Kinds
    /\ live \in Value /\ bak = [k \in 1..N |-> Absent] /\ soft = FALSE
    /\ up = TRUE /\ mem = live /\ dirty = FALSE /\ pc = "idle" /\ i = 0
    /\ past = {live} /\ changes = 0 /\ fails = 0 /\ crashes = 0 /\ damages = 0

Flush == FlushAccounts \/ FlushChannels \/ FlushKlines \/ FlushHistory
WriteStep ==
    \/ Unlink \/ Shift \/ CopyOpen \/ Copy
    \/ WriteAccounts \/ WriteChannels \/ WriteKlines \/ WriteHistory \/ Rename
Load == LoadAccounts \/ LoadChannels \/ LoadKlines \/ LoadHistory
Next ==
    \/ \E v \in Value : Change(v)
    \/ Flush \/ WriteStep \/ Crash \/ Damage \/ Load
\* The tick comes, and a write that has begun goes on.
Spec == Init /\ [][Next]_vars /\ WF_vars(Flush) /\ WF_vars(WriteStep)

(***************************************************************************)
(* Properties.                                                             *)
(***************************************************************************)
\* All state is of its type, and a write is in progress only while the program runs.
TypeOK ==
    /\ mem \in Value /\ live \in File /\ bak \in [1..N -> File]
    /\ pc \in {"idle", "unlink", "shift", "copy", "write", "rename"} /\ i \in 0..N
    /\ ~up => pc = "idle"

\* What a start would find now.
Found ==
    IF live \in Value THEN live
    ELSE IF kind \in {"klines", "history"} \/ (kind = "accounts" /\ live # Bad) THEN Empty
    ELSE IF Newest # 0 THEN bak[Newest]
    ELSE IF live = Bad THEN Refused ELSE Empty

\* Writing and loading, in all their steps and cut short anywhere, are the save and the
\* start of DurableStore: no crash, failed write or rotation shows a mixed, older or
\* empty store (accounts_flush, store_write_now, kline_save, history_maybe_save), and damage
\* is answered as it says (accounts_load, store_load); the files are of their types throughout.
Durable == INSTANCE DurableStore WITH careful <- Rotating, now <- IF up THEN mem ELSE Down, kept <- Found,
    hurt <- IF live \in Value THEN "no" ELSE IF live = Bad THEN "spoilt" ELSE "emptied"
Refines == []TypeOK /\ Durable!Spec

\* What the program has is what a start would find in the end, or it stopped first; a write that fails
\* is tried again (accounts_flush, store_flush, history_maybe_save).
Saved == (up /\ mem # Found) ~> (~up \/ mem = Found)

\* accounts.c says of a live file that cannot be read: "never start empty over it -- the
\* newest readable backup, or refuse", chanserv.c that "starting empty would overwrite every
\* registration on the next save".  A start comes with a store that was once saved.
NeverEmptied == [][~up /\ up' => mem' \in past]_vars
=============================================================================
