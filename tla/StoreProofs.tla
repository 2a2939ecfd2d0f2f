----------------------------- MODULE StoreProofs ------------------------------
(***************************************************************************)
(* Proofs about Store.  A file is written beside the live one and renamed  *)
(* over it, so in each step of a write, and after a death in any of them,  *)
(* a start finds one whole save: Store implements DurableStore, for any    *)
(* set of values, any number of backups, crashes, failed writes and        *)
(* damages of the live file or a backup, in all four stores.               *)
(***************************************************************************)
EXTENDS Store, FiniteSetTheorems, WellFoundedInduction, TLAPS

(***************************************************************************)
(* The marks that are not values, and the newest backup.                   *)
(***************************************************************************)
\* The marks are different from one another and from each value.
LEMMA Marks ==
    /\ Absent \notin Value /\ Cut \notin Value /\ Bad \notin Value /\ Down \notin Value /\ Refused \notin Value
    /\ Absent # Bad /\ Cut # Bad /\ Down # Refused
<1>1. /\ Absent \notin Value /\ Cut \notin Value /\ Bad \notin Value /\ Down \notin Value /\ Refused \notin Value
  BY StoreTypes
<1>2. \A x, y, z, w : Cardinality({x, y, z, w}) # 5
  <2> TAKE x, y, z, w
  <2>1. IsFiniteSet({x}) /\ Cardinality({x}) = 1  BY FS_Singleton
  <2>2. IsFiniteSet({x} \cup {y}) /\ Cardinality({x} \cup {y}) \in 1..2
    BY <2>1, FS_AddElement
  <2>3. IsFiniteSet(({x} \cup {y}) \cup {z}) /\ Cardinality(({x} \cup {y}) \cup {z}) \in 1..3
    BY <2>2, FS_AddElement
  <2>4. Cardinality((({x} \cup {y}) \cup {z}) \cup {w}) \in 1..4
    BY <2>3, FS_AddElement
  <2>5. (({x} \cup {y}) \cup {z}) \cup {w} = {x, y, z, w}  OBVIOUS
  <2> QED  BY <2>4, <2>5
<1>3. ASSUME Absent = Bad PROVE FALSE
  <2>1. {Absent, Cut, Bad, Down, Refused} = {Cut, Bad, Down, Refused}  BY <1>3
  <2> QED  BY <2>1, <1>2, StoreTypes
<1>4. ASSUME Cut = Bad PROVE FALSE
  <2>1. {Absent, Cut, Bad, Down, Refused} = {Absent, Bad, Down, Refused}  BY <1>4
  <2> QED  BY <2>1, <1>2, StoreTypes
<1>5. ASSUME Down = Refused PROVE FALSE
  <2>1. {Absent, Cut, Bad, Down, Refused} = {Absent, Cut, Bad, Down}  BY <1>5
  <2> QED  BY <2>1, <1>2, StoreTypes
<1> QED  BY <1>1, <1>3, <1>4, <1>5

\* A set of naturals has a least element.
LEMMA LeastExists ==
    ASSUME NEW S \in SUBSET Nat, S # {}
    PROVE  \E x \in S : \A y \in S : x <= y
<1> DEFINE Less == {ss \in Nat \X Nat : ss[1] < ss[2]}
<1>1. IsWellFoundedOn(Less, Nat)  BY NatLessThanWellFounded, Zenon DEF OpToRel
<1> HIDE DEF Less
<1>2. PICK x \in S : \A y \in S : <<y, x>> \notin Less  BY <1>1, WFMin
<1>3. \A y \in S : ~(y < x)  BY <1>2 DEF Less
<1> QED  BY <1>3

\* The newest readable backup is one that can be read (load_backup).
LEMMA NewestGood ==
    /\ Newest # 0 => Newest \in Good
    /\ Good # {} => Newest \in Good
<1>1. Good \in SUBSET Nat /\ 0 \notin Good  BY StoreTypes DEF Good
<1>2. ASSUME Good # {} PROVE \E k \in Good : \A j \in Good : k <= j
  BY <1>1, <1>2, LeastExists
<1> QED  BY <1>1, <1>2 DEF Newest

(***************************************************************************)
(* The invariant.  Whatever is found, in the live file or in a backup, was *)
(* saved once.  While the live file is no store, the copy that is not      *)
(* synced yet is of that file, so what a start would find does not rest on *)
(* it.                                                                     *)
(***************************************************************************)
Saves ==
    /\ past \subseteq Value
    /\ live \in Value => live \in past
    /\ \A k \in 1..N : bak[k] \in Value => bak[k] \in past
Soft ==
    /\ soft => N > 0 /\ up
    /\ soft /\ live \notin Value => bak[1] \notin Value
Rotation ==
    /\ pc \in {"unlink", "shift", "copy"} => N > 0
    /\ pc = "shift" => i < N
IInv ==
    /\ TypeOK
    /\ kind \in {"accounts", "channels", "klines", "history"} /\ up \in BOOLEAN /\ soft \in BOOLEAN
    /\ Saves /\ Soft /\ Rotation

LEMMA InitIInv == Init => IInv
<1> SUFFICES ASSUME Init PROVE IInv  OBVIOUS
<1>1. \A k \in 1..N : bak[k] \notin Value  BY Marks DEF Init
<1>2. TypeOK  BY StoreTypes DEF Init, TypeOK, File
<1> QED  BY <1>1, <1>2, StoreTypes DEF Init, IInv, Saves, Soft, Rotation

\* One lemma per kind of step.
LEMMA ChangeIInv == ASSUME IInv, NEW v \in Value, Change(v) PROVE IInv'
  BY DEF IInv, TypeOK, Saves, Soft, Rotation, Change, Idle, files, Good

LEMMA FlushIInv == ASSUME IInv, Flush PROVE IInv'
<1>1. \E k \in {"accounts", "channels", "klines", "history"}, flag \in BOOLEAN : Begin(k, flag)
  BY DEF Flush, FlushAccounts, FlushChannels, FlushKlines, FlushHistory
<1>2. N \in Nat  BY StoreTypes
<1> QED  BY <1>1, <1>2 DEF IInv, TypeOK, Saves, Soft, Rotation, Begin, Idle, files, Rotates, counts

LEMMA UnlinkIInv == ASSUME IInv, Unlink PROVE IInv'
<1>1. N \in Nat /\ N > 0  BY StoreTypes DEF IInv, Rotation, Unlink
<1>2. bak' \in [1..N -> File] /\ \A k \in 1..N : bak'[k] \in Value => k # N /\ bak'[k] = bak[k]
  BY <1>1, Marks DEF IInv, TypeOK, Unlink, File
<1>3. i' \in 0..N /\ i' < N  BY <1>1 DEF Unlink
<1> QED  BY <1>1, <1>2, <1>3 DEF IInv, TypeOK, Saves, Soft, Rotation, Unlink, counts

LEMMA ShiftIInv == ASSUME IInv, Shift PROVE IInv'
<1>1. N \in Nat /\ N > 0 /\ i \in 1..N /\ i + 1 \in 1..N
  BY StoreTypes DEF IInv, TypeOK, Rotation, Shift
<1>2. /\ bak' \in [1..N -> File]
      /\ \A k \in 1..N : bak'[k] \in Value => \E j \in 1..N : bak'[k] = bak[j]
      /\ i # 1 => bak'[1] = bak[1] \/ bak'[1] = Absent
  BY <1>1, Marks DEF IInv, TypeOK, Shift, File
<1>3. i' \in 0..N /\ i' < N  BY <1>1 DEF Shift
<1>4. soft' => soft /\ i # 1  BY DEF IInv, Shift
<1> QED  BY <1>1, <1>2, <1>3, <1>4, Marks DEF IInv, TypeOK, Saves, Soft, Rotation, Shift, counts

LEMMA CopyOpenIInv == ASSUME IInv, CopyOpen PROVE IInv'
<1>1. N \in Nat /\ N > 0 /\ 1 \in 1..N  BY StoreTypes DEF IInv, Rotation, CopyOpen
<1>2. /\ bak' \in [1..N -> File]
      /\ \A k \in 1..N : bak'[k] \in Value => bak'[k] = bak[k]
      /\ soft' /\ ~soft => bak'[1] \notin Value
  BY <1>1, Marks DEF IInv, TypeOK, CopyOpen, File
<1> QED  BY <1>1, <1>2, Marks DEF IInv, TypeOK, Saves, Soft, Rotation, CopyOpen, counts

LEMMA CopyIInv == ASSUME IInv, Copy PROVE IInv'
<1>1. N \in Nat /\ N > 0 /\ 1 \in 1..N  BY StoreTypes DEF IInv, Rotation, Copy
<1>2. /\ bak' \in [1..N -> File]
      /\ \A k \in 1..N : bak'[k] = bak[k] \/ bak'[k] = live
      /\ bak'[1] = live \/ bak'[1] = bak[1]
  BY <1>1 DEF IInv, TypeOK, Copy, File
<1> QED  BY <1>1, <1>2, Marks DEF IInv, TypeOK, Saves, Soft, Rotation, Copy

LEMMA WriteIInv ==
    ASSUME IInv, WriteAccounts \/ WriteChannels \/ WriteKlines \/ WriteHistory
    PROVE  IInv'
<1>1. \E k \in {"accounts", "channels", "klines", "history"} : Write(k)
  BY DEF WriteAccounts, WriteChannels, WriteKlines, WriteHistory
<1> QED  BY <1>1 DEF IInv, TypeOK, Saves, Soft, Rotation, Write, files

LEMMA RenameIInv == ASSUME IInv, Rename PROVE IInv'
  BY DEF IInv, TypeOK, Saves, Soft, Rotation, Rename, File

LEMMA CrashIInv == ASSUME IInv, Crash PROVE IInv'
<1>1. N \in Nat /\ Empty \in Value  BY StoreTypes
<1>2. /\ bak' \in [1..N -> File]
      /\ \A k \in 1..N : bak'[k] \in Value => bak'[k] = bak[k]
  BY <1>1, Marks DEF IInv, TypeOK, Crash, File
<1>3. /\ UNCHANGED <<kind, live, past>> /\ up' = FALSE /\ soft' = FALSE
      /\ pc' = "idle" /\ mem' = Empty /\ i' = 0
  BY DEF Crash
<1>4. TypeOK'  BY <1>1, <1>2, <1>3 DEF IInv, TypeOK, File
<1>5. Saves'  BY <1>2, <1>3 DEF IInv, Saves
<1> QED  BY <1>3, <1>4, <1>5 DEF IInv, Soft, Rotation

LEMMA DamageIInv == ASSUME IInv, Damage PROVE IInv'
<1>1. ~up /\ ~soft /\ UNCHANGED <<kind, up, mem, dirty, soft, pc, i, past>>  BY DEF Damage, IInv, Soft
<1>2. PICK d \in Damages :
        \/ live \in Value /\ live' = d /\ bak' = bak
        \/ \E k \in Good : bak' = [bak EXCEPT ![k] = d] /\ live' = live
  BY DEF Damage
<1>3. d \in File /\ d \notin Value  BY StoreTypes, Marks DEF File
<1>4. /\ bak' \in [1..N -> File] /\ live' \in File
      /\ \A k \in 1..N : bak'[k] \in Value => bak'[k] = bak[k]
      /\ live' \in Value => live' = live
  BY <1>2, <1>3 DEF IInv, TypeOK, Good
<1> QED  BY <1>1, <1>4 DEF IInv, TypeOK, Saves, Soft, Rotation

\* Where a start reads from, under the invariant.
LEMMA LoadReads ==
    ASSUME IInv, Load
    PROVE  /\ ~up /\ up' = TRUE /\ Found \in Value /\ mem' = Found
           /\ UNCHANGED <<kind, bak, soft, pc, i, past>>
           /\ live' = live \/ (kind = "accounts" /\ live = Bad /\ live' = Absent)
<1>1. Empty \in Value  BY StoreTypes
<1>2. CASE LoadAccounts
  <2>1. CASE live # Bad  BY <1>1, <1>2, <2>1 DEF LoadAccounts, Up, Found, counts
  <2>2. CASE live = Bad
    <3>1. Newest # 0 /\ bak[Newest] \in Value  BY <1>2, <2>2, NewestGood DEF LoadAccounts, Good
    <3>2. /\ ~up /\ kind = "accounts" /\ up' = TRUE /\ mem' = bak[Newest] /\ live' = Absent
          /\ UNCHANGED <<kind, bak, soft, pc, i, past>>
      BY <1>2, <2>2 DEF LoadAccounts, Up
    <3>3. Found = bak[Newest]  BY <2>2, <3>1, <3>2, Marks DEF Found
    <3> QED  BY <2>2, <3>1, <3>2, <3>3
  <2> QED  BY <2>1, <2>2
<1>3. CASE LoadChannels
  BY <1>1, <1>3, Marks, NewestGood DEF LoadChannels, Up, Found, files, counts, Good
<1>4. CASE LoadKlines \/ LoadHistory
  BY <1>1, <1>4, Marks DEF LoadKlines, LoadHistory, LoadOr, Up, Found, files, counts
<1> QED  BY <1>2, <1>3, <1>4 DEF Load

LEMMA LoadIInv == ASSUME IInv, Load PROVE IInv'
<1>1. mem' \in Value /\ up' = TRUE /\ ~up /\ UNCHANGED <<kind, bak, soft, pc, i, past>>  BY LoadReads
<1>2. live' \in File /\ (live' \in Value => live' = live)  BY LoadReads, Marks DEF IInv, TypeOK, File
<1> QED  BY <1>1, <1>2 DEF IInv, TypeOK, Saves, Soft, Rotation

LEMMA NextIInv == IInv /\ [Next]_vars => IInv'
<1> SUFFICES ASSUME IInv, [Next]_vars PROVE IInv'  OBVIOUS
<1>1. CASE UNCHANGED vars
  BY <1>1 DEF IInv, TypeOK, Saves, Soft, Rotation, vars, files
<1>2. CASE Next
  BY <1>2, ChangeIInv, FlushIInv, UnlinkIInv, ShiftIInv, CopyOpenIInv, CopyIInv, WriteIInv,
     RenameIInv, CrashIInv, DamageIInv, LoadIInv DEF Next, WriteStep
<1> QED  BY <1>1, <1>2

THEOREM Inductive == Spec => []IInv
  BY InitIInv, NextIInv, PTL DEF Spec

(***************************************************************************)
(* The step simulation.                                                    *)
(***************************************************************************)
\* How the damage of a file appears in DurableStore.
Hurt == IF live \in Value THEN "no" ELSE IF live = Bad THEN "spoilt" ELSE "emptied"

\* What a start would find is the live file, or else what DurableStore allows for such damage.
LEMMA FoundSaved ==
    IInv => /\ live \in Value => Found = live
            /\ live \notin Value => Found \in Durable!Answers(Hurt)
<1> SUFFICES ASSUME IInv
             PROVE  /\ live \in Value => Found = live
                    /\ live \notin Value => Found \in Durable!Answers(Hurt)
  OBVIOUS
<1>1. Newest # 0 => bak[Newest] \in past
  BY NewestGood DEF IInv, Saves, Good
<1>2. kind \in {"accounts", "channels", "klines", "history"}  BY DEF IInv
<1> QED  BY <1>1, <1>2, Marks DEF Found, Hurt, Rotating, Durable!Answers

LEMMA FoundAfter ==
    ASSUME IInv', UNCHANGED <<kind, past>>, live' \notin Value
    PROVE  Found' \in (Durable!Answers(Hurt))'
<1>1. IInv' => (live \in Value => Found = live)' /\ (live \notin Value => Found \in Durable!Answers(Hurt))'
  BY FoundSaved, PTL
<1> QED  BY <1>1

\* A step that leaves the live file and the memory alone is a stutter, or a rotation behind a
\* damaged file changes which backup would be found.
LEMMA AsideRefines ==
    ASSUME IInv, IInv', UNCHANGED <<kind, up, mem, live, past>>
    PROVE  [Durable!Next]_(Durable!dvars)
<1>1. Rotating' = Rotating /\ Hurt' = Hurt  BY DEF Rotating, Hurt
<1>2. CASE live \in Value
  <2>1. Found' = Found  BY <1>2 DEF Found
  <2> QED  BY <1>1, <2>1 DEF Durable!dvars, Hurt
<1>3. CASE live \notin Value
  <2>1. Found' \in Durable!Answers(Hurt)  BY <1>1, <1>3, FoundAfter DEF Durable!Answers
  <2>2. Hurt # "no"  BY <1>3 DEF Hurt
  <2>3. Durable!Decay  BY <1>1, <2>1, <2>2 DEF Durable!Decay, Hurt
  <2> QED  BY <1>1, <2>3 DEF Durable!Next
<1> QED  BY <1>2, <1>3

\* A change of the memory is no more than that (save, klines_dirty, history_dirty).
LEMMA ChangeRefines ==
    ASSUME IInv, NEW v \in Value, Change(v)
    PROVE  Durable!Next
<1>1. Found' = Found  BY DEF Change, files, Found, Newest, Good
<1>2. up /\ up' /\ mem' \in Value /\ mem \in Value /\ UNCHANGED <<live, past>>
  BY DEF Change, Idle, IInv, TypeOK, files
<1>3. Durable!Change  BY <1>1, <1>2, Marks DEF Durable!Change
<1> QED  BY <1>3 DEF Durable!Next, Rotating, Change

\* The rename is the save, and the only one (util_rename_durable).
LEMMA RenameRefines ==
    ASSUME IInv, IInv', Rename
    PROVE  [Durable!Next]_(Durable!dvars)
<1>1. CASE UNCHANGED <<live, past>>
  BY <1>1, AsideRefines DEF Rename
<1>2. CASE live' = mem /\ past' = past \cup {mem}
  <2>1. up /\ up' /\ mem \in Value /\ mem' = mem  BY DEF Rename, IInv, TypeOK
  <2>2. Found' = mem  BY <1>2, <2>1 DEF Found
  <2>3. Durable!Save  BY <1>2, <2>1, <2>2, Marks DEF Durable!Save
  <2> QED  BY <2>3 DEF Durable!Next, Rotating, Rename
<1> QED  BY <1>1, <1>2 DEF Rename

\* A death loses the memory and what the copy of the file had not synced, which no start reads.
LEMMA CrashRefines ==
    ASSUME IInv, Crash
    PROVE  Durable!Next
<1>1. up /\ ~up' /\ mem \in Value /\ UNCHANGED <<kind, live, past>>
  BY DEF Crash, IInv, TypeOK
<1>2. Found' = Found
  <2>1. CASE live \in Value  BY <1>1, <2>1 DEF Found
  <2>2. CASE live \notin Value
    <3>1. CASE bak' = bak  BY <1>1, <3>1 DEF Found, Newest, Good
    <3>2. CASE bak' # bak
      <4>1. N \in Nat /\ 1 \in 1..N /\ soft /\ bak' = [bak EXCEPT ![1] = Bad]
        BY <3>2, StoreTypes DEF Crash
      <4>2. bak[1] \notin Value /\ bak'[1] \notin Value
        BY <2>2, <4>1, Marks DEF IInv, Soft, TypeOK
      <4>3. Good' = Good /\ \A k \in Good : bak'[k] = bak[k]
        BY <4>1, <4>2 DEF Good, IInv, TypeOK
      <4>4. Newest' = Newest  BY <4>3 DEF Newest
      <4> QED  BY <1>1, <4>3, <4>4, NewestGood DEF Found
    <3> QED  BY <3>1, <3>2
  <2> QED  BY <2>1, <2>2
<1>3. Durable!Stop  BY <1>1, <1>2, Marks DEF Durable!Stop
<1> QED  BY <1>1, <1>3 DEF Durable!Next, Rotating

\* Damage of the live file leaves what DurableStore allows to be found; that of a backup is no more
\* than a rotation.
LEMMA DamageRefines ==
    ASSUME IInv, IInv', Damage
    PROVE  [Durable!Next]_(Durable!dvars)
<1>1. ~up /\ ~up' /\ UNCHANGED <<kind, up, mem, past>>  BY DEF Damage
<1>2. CASE live' = live  BY <1>1, <1>2, AsideRefines
<1>3. CASE live' # live
  <2>1. live' \in {Cut, Bad}  BY <1>3, StoreTypes DEF Damage
  <2>2. live' \notin Value /\ Hurt' \in {"spoilt", "emptied"}  BY <2>1, Marks DEF Hurt
  <2>3. Rotating' = Rotating  BY <1>1 DEF Rotating
  <2>4. Found' \in (Durable!Answers(Hurt))'  BY <1>1, <2>2, FoundAfter
  <2>5. Durable!Damage  BY <1>1, <2>2, <2>3, <2>4 DEF Durable!Damage, Durable!Answers, Hurt
  <2> QED  BY <2>3, <2>5 DEF Durable!Next
<1> QED  BY <1>2, <1>3

\* A start comes with what was to be found (accounts_load, store_load, server_kline_load,
\* history_load), and may have put the file aside.
LEMMA LoadRefines ==
    ASSUME IInv, IInv', Load
    PROVE  Durable!Next
<1>1. /\ ~up /\ up' /\ Found \in Value /\ mem' = Found
      /\ UNCHANGED <<kind, bak, past>> /\ Rotating' = Rotating
      /\ live' = live \/ (kind = "accounts" /\ live = Bad /\ live' = Absent)
  BY LoadReads DEF Rotating
<1>2. CASE live' = live
  <2>1. Found' = Found /\ Hurt' = Hurt  BY <1>1, <1>2 DEF Found, Newest, Good, Hurt
  <2>2. Durable!Start  BY <1>1, <2>1, Marks DEF Durable!Start, Hurt
  <2> QED  BY <1>1, <2>2 DEF Durable!Next
<1>3. CASE live = Bad /\ live' = Absent
  <2>1. Hurt = "spoilt" /\ Hurt' = "emptied" /\ live' \notin Value  BY <1>3, Marks DEF Hurt
  <2>2. Found' \in (Durable!Answers(Hurt))'  BY <1>1, <2>1, FoundAfter
  <2>3. Durable!Start  BY <1>1, <2>1, <2>2, Marks DEF Durable!Start, Durable!Answers, Hurt
  <2> QED  BY <1>1, <2>3 DEF Durable!Next
<1> QED  BY <1>1, <1>2, <1>3

LEMMA NextRefines ==
    ASSUME IInv, IInv', [Next]_vars
    PROVE  [Durable!Next]_(Durable!dvars)
<1>1. CASE UNCHANGED vars \/ Flush \/ Unlink \/ Shift \/ CopyOpen \/ Copy
           \/ WriteAccounts \/ WriteChannels \/ WriteKlines \/ WriteHistory
  <2>1. UNCHANGED <<kind, up, mem, live, past>>
    BY <1>1 DEF vars, files, Flush, FlushAccounts, FlushChannels, FlushKlines, FlushHistory, Begin,
       Unlink, Shift, CopyOpen, Copy, WriteAccounts, WriteChannels, WriteKlines, WriteHistory, Write
  <2> QED  BY <2>1, AsideRefines
<1>2. CASE Next
  BY <1>1, <1>2, ChangeRefines, RenameRefines, CrashRefines, DamageRefines, LoadRefines
  DEF Next, WriteStep
<1> QED  BY <1>1, <1>2

LEMMA InitRefines == Init => Durable!Init
<1> SUFFICES ASSUME Init PROVE Durable!Init  OBVIOUS
<1>1. up /\ live \in Value /\ mem = live /\ past = {live} /\ Found = live  BY DEF Init, Found
<1> QED  BY <1>1 DEF Durable!Init, Rotating

(***************************************************************************)
(* The theorem.                                                            *)
(***************************************************************************)
\* Writing and loading, cut short anywhere, are the save and the start of DurableStore, damage of
\* any file is answered as it says, and the files are of their types (accounts_flush,
\* store_write_now, kline_save, history_maybe_save; accounts_load, store_load, the other loaders).
THEOREM RefinesHolds == Spec => Refines
<1>1. Spec => []IInv  BY Inductive
<1>2. IInv => TypeOK  BY DEF IInv
<1>3. IInv /\ IInv' /\ [Next]_vars => [Durable!Next]_(Durable!dvars)  BY NextRefines
<1> QED  BY <1>1, <1>2, <1>3, InitRefines, PTL DEF Spec, Refines, Durable!Spec
=============================================================================
