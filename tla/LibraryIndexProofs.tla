------------------------- MODULE LibraryIndexProofs -------------------------
(***************************************************************************)
(* Proofs about LibraryIndex, for any set of paths, sizes and time stamps, *)
(* and for any number of changes of the card, failures and power cuts.     *)
(***************************************************************************)
EXTENDS LibraryIndex, FiniteSetTheorems, TLAPS

Shelves == UNION {[S -> Entries] : S \in SUBSET Paths}
Index == [kind : {"ok", "stale"}, books : Shelves, next : 0 .. (SeenLimit - 1), meta : BOOLEAN]
File == Index \cup {Nothing, Broken}

Steps == {"Idle", "Mark", "Recover", "TryBackup", "Swap", "Walk", "Stage", "Emit", "Park",
          "Install", "RollBack", "DropOld", "Clear"}

Types ==
  /\ card \in [Paths -> Files \cup {Nothing}]
  /\ live \in File /\ bak \in File /\ fresh \in File /\ built \in File
  /\ marker \in BOOLEAN /\ dirtyInMemory \in BOOLEAN /\ useMetadata \in BOOLEAN
  /\ pc \in Steps /\ lastBuild \in {"none", "ok", "failed"}
  /\ unread \subseteq Present /\ reported \subseteq Present
  /\ arrived \in Paths \cup {Nothing} /\ (pc = "Mark" => arrived \in Present)
  /\ changes \in 0 .. MaxChanges /\ faults \in 0 .. MaxFaults

(* What a step of a build may count on about the three files.                *)
Places ==
  /\ pc \in {"Walk", "Stage", "Emit", "Park"} => bak = Nothing
  /\ pc = "TryBackup" => live # Nothing /\ ~Opens(live) /\ bak # Nothing
  /\ pc = "Swap" => live = Nothing /\ Opens(bak)
  /\ pc \in {"Install", "RollBack"} => live = Nothing
  /\ pc = "RollBack" => bak # Nothing
  /\ pc = "Clear" => Opens(live) \/ bak = Nothing
  /\ lastBuild = "ok" => pc = "Idle"

(* Nothing but another format breaks an index, and then it breaks both.      *)
BrokenTogether == live = Broken => ~IsIndex(bak)

ShelvedIn(f, p) ==
  p \in DOMAIN f.books /\ f.books[p].size = card[p].size /\ f.books[p].time = card[p].time

(* An index of exactly what the walk has found.                              *)
FitsIn(f) == IsIndex(f) /\ DOMAIN f.books = Walked /\ \A p \in Walked : ShelvedIn(f, p)

Written ==
  /\ pc \in {"Stage", "Emit", "Park", "Install", "RollBack", "DropOld", "Clear"} =>
       reported \cap unread = {}
  /\ pc = "Emit" => Opens(built) /\ FitsIn(built)
  /\ pc \in {"Park", "Install"} => Opens(fresh) /\ FitsIn(fresh)
  /\ pc = "DropOld" => Opens(live) /\ FitsIn(live)
  /\ pc = "Clear" => FitsIn(live)

(* Until the mark is cleared it stands for what no index knows: not the live *)
(* one, nor the backup a recovery may prefer to it.                          *)
Remembered ==
  \/ IsLibraryIndexDirty
  \/ \A p \in reported \cap OnShelf :
       /\ IsIndex(live) => ShelvedIn(live, p)
       /\ ~Opens(live) /\ IsIndex(bak) => ShelvedIn(bak, p)

IInv == Types /\ Places /\ BrokenTogether /\ Written /\ Remembered /\ SuccessMeansCurrent

USE LibraryAssumption
-----------------------------------------------------------------------------
LEMMA FileIs ==
  ASSUME NEW f \in File
  PROVE  \/ f \in {Nothing, Broken} /\ ~IsIndex(f) /\ ~Opens(f)
         \/ /\ f # Nothing /\ IsIndex(f) /\ f \in Index /\ f.next \in 0 .. (SeenLimit - 1)
            /\ f.meta \in BOOLEAN
            /\ DOMAIN f.books \subseteq Paths /\ \A p \in DOMAIN f.books : f.books[p] \in Entries
<1>1. CASE f \in {Nothing, Broken}
  BY <1>1 DEF Nothing, Broken, IsIndex, Opens
<1>2. CASE f \in Index
  <2>1. f.kind \in {"ok", "stale"} /\ f.books \in Shelves /\ f.next \in 0 .. (SeenLimit - 1)
        /\ f.meta \in BOOLEAN
    BY <1>2 DEF Index
  <2>2. PICK S \in SUBSET Paths : f.books \in [S -> Entries]
    BY <2>1 DEF Shelves
  <2>3. f # Nothing
    BY <2>1 DEF Nothing
  <2> QED
    BY <1>2, <2>1, <2>2, <2>3 DEF IsIndex
<1> QED
  BY <1>1, <1>2 DEF File

LEMMA OpensIsIndex == ASSUME NEW f PROVE Opens(f) => IsIndex(f)
  BY DEF Opens, IsIndex

LEMMA NothingIs == Nothing \in File /\ Broken \in File /\ ~IsIndex(Nothing) /\ ~Opens(Nothing)
  BY DEF File, Nothing, IsIndex, Opens

LEMMA FilesAreSome == \A f \in Files : f # Nothing
<1>1. \A f \in [size : Sizes, time : Times] : DOMAIN f = {"size", "time"}
  OBVIOUS
<1>2. DOMAIN Dangling = {"size", "time"} /\ DOMAIN Nothing = {"kind"}
  BY DEF Dangling, Nothing
<1>3. {"size", "time"} # {"kind"}
  OBVIOUS
<1> QED
  BY <1>1, <1>2, <1>3 DEF Files

LEMMA TypesAreTypes == Types => TypeOK
<1> SUFFICES ASSUME Types PROVE TypeOK
  OBVIOUS
<1>1. \A f \in {live, bak, fresh, built} :
       \/ f \in {Nothing, Broken}
       \/ /\ IsIndex(f) /\ f.next \in 0..(SeenLimit - 1) /\ f.meta \in BOOLEAN
          /\ DOMAIN f.books \subseteq Paths
          /\ \A p \in DOMAIN f.books : f.books[p] \in Entries
  BY FileIs DEF Types
<1> QED
  BY <1>1 DEF Types, TypeOK, Steps

LEMMA ModIs == ASSUME NEW n \in Nat PROVE n % SeenLimit \in 0 .. (SeenLimit - 1)
  OBVIOUS

LEMMA AnotherVersionIs ==
  ASSUME NEW f \in File, NEW kind \in {"fold", "format"}
  PROVE  /\ AnotherVersion(f, kind) \in File
         /\ ~IsIndex(f) => AnotherVersion(f, kind) = f
         /\ IsIndex(f) /\ kind = "fold" => /\ IsIndex(AnotherVersion(f, kind))
                                           /\ AnotherVersion(f, kind).books = f.books
                                           /\ AnotherVersion(f, kind).next = f.next
         /\ IsIndex(f) /\ kind = "format" => ~IsIndex(AnotherVersion(f, kind))
<1>1. CASE ~IsIndex(f)
  BY <1>1, Zenon DEF AnotherVersion
<1>2. CASE IsIndex(f) /\ kind = "fold"
  <2>1. f \in Index
    BY <1>2, FileIs
  <2>2. AnotherVersion(f, kind) = [f EXCEPT !.kind = IF @ = "ok" THEN "stale" ELSE "ok"]
    BY <1>2, Zenon DEF AnotherVersion
  <2>3. [f EXCEPT !.kind = IF @ = "ok" THEN "stale" ELSE "ok"] \in Index
    BY <2>1 DEF Index
  <2>4. /\ [f EXCEPT !.kind = IF @ = "ok" THEN "stale" ELSE "ok"].books = f.books
        /\ [f EXCEPT !.kind = IF @ = "ok" THEN "stale" ELSE "ok"].next = f.next
    BY <2>1 DEF Index
  <2>5. AnotherVersion(f, kind).kind \in {"ok", "stale"}
    BY <2>2, <2>3 DEF Index
  <2> QED
    BY <1>2, <2>2, <2>3, <2>4, <2>5 DEF File, IsIndex
<1>3. CASE IsIndex(f) /\ kind = "format"
  <2>1. AnotherVersion(f, kind) = Broken
    BY <1>3, Zenon DEF AnotherVersion
  <2> QED
    BY <1>3, <2>1, NothingIs DEF Broken, IsIndex
<1> QED
  BY <1>1, <1>2, <1>3

LEMMA PriorIs ==
  ASSUME Types
  PROVE  /\ PriorNext \in 0 .. (SeenLimit - 1)
         /\ \A p \in DOMAIN PriorBooks : PriorBooks[p].seen \in 0 .. (SeenLimit - 1)
<1>1. CASE IsIndex(live)
  <2>1. live.next \in 0 .. (SeenLimit - 1) /\ \A p \in DOMAIN live.books : live.books[p] \in Entries
    BY <1>1, FileIs DEF Types
  <2> QED
    BY <1>1, <2>1 DEF PriorNext, PriorBooks, Entries
<1>2. CASE ~IsIndex(live)
  BY <1>2 DEF PriorNext, PriorBooks
<1> QED
  BY <1>1, <1>2

(* What the reconciliation yields is an index of what the walk has found.    *)
LEMMA ReconciledIs ==
  ASSUME Types, NEW m \in Renames, NEW order \in Orders(Added(m))
  PROVE  Reconciled(m, order) \in Index /\ Opens(Reconciled(m, order)) /\ FitsIn(Reconciled(m, order))
<1> DEFINE bs == [p \in Walked |-> [size |-> card[p].size, time |-> card[p].time,
                                    seen |-> ResolvedFirstSeen(p, m, order)]]
<1>1. IsFiniteSet(Added(m)) /\ Cardinality(Added(m)) \in Nat
  <2>1. Added(m) \subseteq Paths
    BY DEF Added, Unresolved, Walked, OnShelf, Present
  <2> QED
    BY <2>1, FS_Subset, FS_CardinalityType
<1>2. order \in [Added(m) -> 0 .. (Cardinality(Added(m)) - 1)]
  BY DEF Orders, Injection, IsInjective
<1>3. \A p \in Walked : ResolvedFirstSeen(p, m, order) \in 0 .. (SeenLimit - 1)
  <2> TAKE p \in Walked
  <2>1. CASE p \notin Unresolved
    <3>1. ResolvedFirstSeen(p, m, order) = PriorBooks[p].seen /\ p \in DOMAIN PriorBooks
      BY <2>1 DEF ResolvedFirstSeen, Unresolved
    <3> QED
      BY <3>1, PriorIs
  <2>2. CASE p \in Unresolved /\ m[p] # Nothing
    <3>1. ResolvedFirstSeen(p, m, order) = PriorBooks[m[p]].seen
      BY <2>2 DEF ResolvedFirstSeen
    <3>2. m[p] \in DOMAIN PriorBooks
      BY <2>2 DEF Renames, Leftover
    <3> QED
      BY <3>1, <3>2, PriorIs
  <2>3. CASE p \in Unresolved /\ m[p] = Nothing
    <3>1. ResolvedFirstSeen(p, m, order) = (PriorNext + order[p]) % SeenLimit
      BY <2>3 DEF ResolvedFirstSeen
    <3>2. order[p] \in Nat
      BY <1>1, <1>2, <2>3 DEF Added
    <3>3. PriorNext + order[p] \in Nat
      BY <3>2, PriorIs
    <3> QED
      BY <3>1, <3>3, ModIs
  <2> QED
    BY <2>1, <2>2, <2>3
<1>4. \A p \in Walked : p \in Paths /\ card[p].size \in Sizes /\ card[p].time \in Times
  BY DEF Walked, OnShelf, Present, Types, Files
<1>5. \A p \in Walked : bs[p] \in Entries
  <2> TAKE p \in Walked
  <2> HIDE DEF Walked
  <2>1. bs[p] = [size |-> card[p].size, time |-> card[p].time, seen |-> ResolvedFirstSeen(p, m, order)]
    BY Zenon
  <2> QED
    BY <1>3, <1>4, <2>1 DEF Entries
<1>6. bs \in Shelves
  <2>1. bs \in [Walked -> Entries]
    BY <1>5
  <2>2. Walked \in SUBSET Paths
    BY <1>4
  <2> HIDE DEF bs
  <2> QED
    BY <2>1, <2>2 DEF Shelves
<1>7. PriorNext + Cardinality(Added(m)) \in Nat
  BY <1>1, PriorIs
<1>8. NextFirstSeen(m) \in 0 .. (SeenLimit - 1)
  BY <1>7, ModIs DEF NextFirstSeen
<1>9. Reconciled(m, order) = [kind |-> "ok", books |-> bs, next |-> NextFirstSeen(m), meta |-> useMetadata]
  BY DEF Reconciled, IndexOver
<1>10. DOMAIN bs = Walked /\ \A p \in Walked : bs[p].size = card[p].size /\ bs[p].time = card[p].time
  OBVIOUS
<1> HIDE DEF bs
<1>11. Reconciled(m, order) \in Index
  BY <1>6, <1>8, <1>9 DEF Index, Types
<1>12. Reconciled(m, order).kind = "ok" /\ Reconciled(m, order).books = bs
  BY <1>9
<1> QED
  BY <1>10, <1>11, <1>12 DEF Opens, FitsIn, IsIndex, ShelvedIn

-----------------------------------------------------------------------------
(***************************************************************************)
(* Types.                                                                  *)
(***************************************************************************)
LEMMA FaultTypes == ASSUME Types, NoFault \/ Fault PROVE faults' \in 0 .. MaxFaults
  BY DEF Types, NoFault, Fault

(* A change of the card, by whomever.                                        *)
LEMMA ChangeTypes ==
  ASSUME Types, Change, card' \in [Paths -> Files \cup {Nothing}], reported' \subseteq Present',
         pc' \in Steps, arrived' \in Paths \cup {Nothing}, pc' = "Mark" => arrived' \in Present'
  PROVE  Types'
<1>1. /\ lastBuild' = "none" /\ unread' = {} /\ changes' \in 0 .. MaxChanges
      /\ UNCHANGED <<live, bak, fresh, marker, dirtyInMemory, useMetadata, built, faults>>
  BY DEF Change, Types
<1>2. unread' \subseteq Present'
  BY <1>1
<1>3. /\ live' \in File /\ bak' \in File /\ fresh' \in File /\ built' \in File
      /\ marker' \in BOOLEAN /\ dirtyInMemory' \in BOOLEAN /\ useMetadata' \in BOOLEAN
      /\ faults' \in 0 .. MaxFaults
  BY <1>1 DEF Types
<1> QED
  BY <1>1, <1>2, <1>3 DEF Types

(* A step of a build leaves the card and the history of it alone, but for    *)
(* the walk.                                                                 *)
LEMMA BuildTypes ==
  ASSUME Types, NoFault \/ Fault, UNCHANGED <<card, useMetadata, arrived, changes>>,
         live' \in File, bak' \in File, fresh' \in File, built' \in File,
         marker' \in BOOLEAN, dirtyInMemory' \in BOOLEAN,
         pc' \in Steps \ {"Mark"}, lastBuild' \in {"none", "ok", "failed"},
         unread' \subseteq Present, reported' \subseteq reported
  PROVE  Types'
<1>1. Present' = Present
  BY DEF Present
<1> QED
  BY <1>1, FaultTypes DEF Types

LEMMA StartTypes ==
  ASSUME Types, StartBuild, card' \in [Paths -> Files \cup {Nothing}], reported' \subseteq Present',
         changes' \in 0 .. MaxChanges, NoFault \/ Fault
  PROVE  Types'
<1>1. /\ pc' = "Recover" /\ lastBuild' = "none" /\ unread' = {}
      /\ UNCHANGED <<live, bak, fresh, marker, dirtyInMemory, useMetadata, built, arrived>>
  BY DEF StartBuild
<1>2. unread' \subseteq Present' /\ pc' \in Steps /\ pc' # "Mark"
  BY <1>1 DEF Steps
<1>3. /\ live' \in File /\ bak' \in File /\ fresh' \in File /\ built' \in File
      /\ marker' \in BOOLEAN /\ dirtyInMemory' \in BOOLEAN /\ useMetadata' \in BOOLEAN
      /\ arrived' \in Paths \cup {Nothing}
  BY <1>1 DEF Types
<1> QED
  BY <1>1, <1>2, <1>3, FaultTypes DEF Types

LEMMA TypesStep == ASSUME IInv, Next PROVE Types'
<1>0. /\ Types /\ card \in [Paths -> Files \cup {Nothing}]
      /\ reported \subseteq Present /\ Present \subseteq Paths /\ pc \in Steps
  BY DEF IInv, Types, Present
<1>1. ASSUME NEW p \in Paths, NEW f \in Files \cup {Nothing}, PutFile(p, f) PROVE Types'
  <2>1. card' = [card EXCEPT ![p] = f] /\ reported' = reported \ {p} /\ UNCHANGED <<pc, arrived>> /\ Change
    BY <1>1 DEF PutFile
  <2>2. card' \in [Paths -> Files \cup {Nothing}] /\ reported' \subseteq Present'
    BY <1>0, <2>1 DEF Present
  <2>3. pc' = "Idle" /\ arrived' \in Paths \cup {Nothing}
    BY <2>1 DEF Change, IInv, Types
  <2> QED
    BY <1>0, <2>1, <2>2, <2>3, ChangeTypes DEF Steps
<1>2. ASSUME NEW p \in Paths, NEW q \in Paths, RenameFile(p, q) PROVE Types'
  <2>1. /\ card' = [card EXCEPT ![p] = Nothing, ![q] = card[p]] /\ reported' = reported \ {p}
        /\ p \in Present /\ q \notin Present /\ UNCHANGED <<pc, arrived>> /\ Change
    BY <1>2 DEF RenameFile
  <2>2. card' \in [Paths -> Files \cup {Nothing}]
    BY <1>0, <2>1
  <2>3. reported' \subseteq Present'
    BY <1>0, <2>1 DEF Present
  <2>4. pc' = "Idle" /\ arrived' \in Paths \cup {Nothing}
    BY <2>1 DEF Change, IInv, Types
  <2> QED
    BY <1>0, <2>1, <2>2, <2>3, <2>4, ChangeTypes DEF Steps
<1>3. ASSUME NEW p \in Paths, NEW f \in Files, Transfer(p, f) PROVE Types'
  <2>1. /\ card' = [card EXCEPT ![p] = f] /\ reported' = reported \ {p} /\ pc' = "Mark"
        /\ arrived' = p /\ Change
    BY <1>3 DEF Transfer
  <2>2. card' \in [Paths -> Files \cup {Nothing}] /\ reported' \subseteq Present'
    BY <1>0, <2>1 DEF Present
  <2>3. arrived' \in Present'
    BY <1>0, <2>1, FilesAreSome DEF Present
  <2> QED
    BY <1>0, <2>1, <2>2, <2>3, ChangeTypes DEF Steps
<1>4. CASE MarkLibraryIndexDirty
  <2>1. /\ marker' \in BOOLEAN /\ dirtyInMemory' \in BOOLEAN /\ (NoFault \/ Fault)
        /\ pc' = "Idle" /\ arrived' = Nothing /\ reported' = reported \cup {arrived} /\ pc = "Mark"
        /\ UNCHANGED <<card, live, bak, fresh, useMetadata, built, unread, lastBuild, changes>>
    BY <1>0, <1>4 DEF MarkLibraryIndexDirty, Types
  <2>2. Present' = Present /\ arrived \in Present
    BY <1>0, <2>1 DEF Present, Types
  <2> QED
    BY <1>0, <2>1, <2>2, FaultTypes DEF Types, Steps
<1>5. CASE ToggleMetadata
  <2>1. Present' = Present
    BY <1>5 DEF ToggleMetadata, Present, disk
  <2> QED
    BY <1>0, <1>5, <2>1 DEF ToggleMetadata, disk, Types
<1>6. ASSUME NEW kind \in {"fold", "format"}, Upgrade(kind) PROVE Types'
  <2>1. live' \in File /\ bak' \in File /\ fresh' \in File
    BY <1>0, <1>6, AnotherVersionIs DEF Upgrade, Types
  <2>2. Present' = Present /\ reported' \subseteq Present
    <3>1. card' = card /\ (reported' = {} \/ reported' = reported)
      BY <1>6, Zenon DEF Upgrade
    <3>2. Present' = Present
      BY <3>1 DEF Present
    <3> QED
      BY <1>0, <3>1, <3>2
  <2>3. /\ pc = "Idle" /\ pc' = pc /\ unread' = {} /\ lastBuild' = "none" /\ dirtyInMemory' = FALSE
        /\ changes' = changes + 1 /\ changes < MaxChanges
        /\ UNCHANGED <<card, marker, useMetadata, built, arrived, faults>>
    BY <1>6, Zenon DEF Upgrade
  <2>4. changes' \in 0 .. MaxChanges
    BY <1>0, <2>3 DEF Types
  <2> QED
    BY <1>0, <2>1, <2>2, <2>3, <2>4 DEF Types
<1>7. CASE EnterLibrary \/ FillCoverGrid
  <2>1. StartBuild /\ UNCHANGED <<card, reported, changes, faults>>
    BY <1>7 DEF EnterLibrary, FillCoverGrid
  <2>2. Present' = Present
    BY <2>1 DEF Present
  <2> QED
    BY <1>0, <2>1, <2>2, StartTypes DEF NoFault, Types
<1>8. CASE PromptRebuildIndex
  <2>1. StartBuild /\ UNCHANGED <<card, reported, faults>> /\ changes' \in 0 .. MaxChanges
    BY <1>0, <1>8 DEF PromptRebuildIndex, Types
  <2>2. Present' = Present
    BY <2>1 DEF Present
  <2> QED
    BY <1>0, <2>1, <2>2, StartTypes DEF NoFault, Types
<1>9. ASSUME NEW p \in Paths, PromptDeleteBook(p) PROVE Types'
  <2>1. /\ StartBuild /\ changes' \in 0 .. MaxChanges /\ (NoFault \/ Fault)
        /\ \/ card' = [card EXCEPT ![p] = Nothing] /\ reported' = reported \ {p}
           \/ UNCHANGED <<card, reported>>
    BY <1>0, <1>9 DEF PromptDeleteBook, Types
  <2>2. card' \in [Paths -> Files \cup {Nothing}] /\ reported' \subseteq Present'
    BY <1>0, <2>1 DEF Present
  <2> QED
    BY <1>0, <2>1, <2>2, StartTypes
<1>10. CASE Recovery
  <2>1. /\ (NoFault \/ Fault) /\ UNCHANGED <<card, useMetadata, arrived, reported, changes, marker,
                                         dirtyInMemory, fresh>>
    BY <1>10 DEF Recovery, NoBackup, BackupOnly, LiveAndBackup, TryBackup, SwapInBackup, Building,
       Unmarked
  <2>2. live' \in {live, bak, Nothing} /\ bak' \in {bak, Nothing}
    BY <1>10 DEF Recovery, NoBackup, BackupOnly, LiveAndBackup, TryBackup, SwapInBackup
  <2>3. \/ /\ pc' \in {"Walk", "TryBackup", "Swap"} /\ UNCHANGED <<built, unread, lastBuild>>
        \/ pc' = "Idle" /\ built' = Nothing /\ lastBuild' = "failed" /\ unread' = {}
    BY <1>10 DEF Recovery, NoBackup, BackupOnly, LiveAndBackup, TryBackup, SwapInBackup,
       BuildGoesTo, BuildReturns
  <2>4. live' \in File /\ bak' \in File /\ fresh' \in File /\ built' \in File
    BY <1>0, <2>1, <2>2, <2>3, NothingIs DEF Types
  <2>5. pc' \in Steps \ {"Mark"} /\ lastBuild' \in {"none", "ok", "failed"} /\ unread' \subseteq Present
    BY <1>0, <2>3 DEF Types, Steps
  <2> QED
    BY <1>0, <2>1, <2>4, <2>5, BuildTypes DEF Types
<1>11. CASE Walk
  <2>1. /\ pc' = "Stage" /\ unread' \subseteq Present /\ reported' \subseteq reported /\ (NoFault \/ Fault)
        /\ UNCHANGED <<card, live, bak, fresh, marker>>
        /\ UNCHANGED <<dirtyInMemory, useMetadata, built, arrived, lastBuild, changes>>
    BY <1>11 DEF Walk, disk
  <2> QED
    BY <1>0, <2>1, BuildTypes DEF Types, Steps
<1>12. CASE Stage
  <2>1. /\ (NoFault \/ Fault) /\ UNCHANGED <<card, useMetadata, arrived, reported, changes>>
        /\ UNCHANGED <<live, bak, fresh, marker, dirtyInMemory>>
    BY <1>12 DEF Stage, Building, Unmarked
  <2>2. built' \in File
    <3>1. \/ built' \in {built, Nothing}
          \/ \E m \in Renames : \E order \in Orders(Added(m)) : built' = Reconciled(m, order)
      BY <1>12 DEF Stage, BuildGoesTo, BuildReturns
    <3> QED
      BY <1>0, <3>1, NothingIs, ReconciledIs DEF File, Types
  <2>3. \/ /\ pc' \in {"Clear", "Emit"} /\ UNCHANGED <<unread, lastBuild>>
        \/ pc' = "Idle" /\ lastBuild' = "failed" /\ unread' = {}
    BY <1>12 DEF Stage, BuildGoesTo, BuildReturns
  <2>4. pc' \in Steps \ {"Mark"} /\ lastBuild' \in {"none", "ok", "failed"} /\ unread' \subseteq Present
    BY <1>0, <2>3 DEF Types, Steps
  <2> QED
    BY <1>0, <2>1, <2>2, <2>4, BuildTypes DEF Types
<1>13. CASE EmitIndex \/ ParkLive \/ InstallNew \/ RollBack \/ DropOld \/ ClearLibraryIndexDirty
  <2>1. (NoFault \/ Fault) /\ UNCHANGED <<card, useMetadata, arrived, reported, changes>>
    BY <1>13 DEF EmitIndex, ParkLive, InstallNew, RollBack, RollsBack, DropOld,
       ClearLibraryIndexDirty, Building
  <2>2. live' \in File /\ bak' \in File /\ fresh' \in File
    <3>1. /\ live' \in {live, bak, fresh, Nothing} /\ bak' \in {live, bak, Nothing}
          /\ fresh' \in {fresh, built, Nothing, Broken}
      BY <1>13 DEF EmitIndex, ParkLive, InstallNew, RollBack, RollsBack, DropOld,
         ClearLibraryIndexDirty
    <3> QED
      BY <1>0, <3>1, NothingIs DEF Types
  <2>3. marker' \in BOOLEAN /\ dirtyInMemory' \in BOOLEAN
    BY <1>0, <1>13 DEF EmitIndex, ParkLive, InstallNew, RollBack, DropOld,
       ClearLibraryIndexDirty, Unmarked, Types
  <2>4. \/ /\ pc' \in {"Park", "Install", "DropOld", "Clear", "RollBack"}
           /\ UNCHANGED <<built, unread, lastBuild>>
        \/ /\ pc' = "Idle" /\ built' = Nothing /\ lastBuild' \in {"ok", "failed"}
           /\ unread' \in {unread, {}}
    BY <1>13 DEF EmitIndex, ParkLive, InstallNew, RollBack, DropOld,
       ClearLibraryIndexDirty, BuildGoesTo, BuildReturns
  <2>5. /\ pc' \in Steps \ {"Mark"} /\ lastBuild' \in {"none", "ok", "failed"} /\ unread' \subseteq Present
        /\ built' \in File
    BY <1>0, <2>4, NothingIs DEF Types, Steps
  <2> QED
    BY <1>0, <2>1, <2>2, <2>3, <2>5, BuildTypes DEF Types
<1>14. CASE Restart \/ PowerCut
  <2>1. /\ dirtyInMemory' = FALSE /\ built' = Nothing /\ arrived' = Nothing
        /\ lastBuild' = "none" /\ unread' = {} /\ reported' \subseteq reported
        /\ UNCHANGED <<card, live, bak, marker, useMetadata, changes>>
        /\ pc' = "Idle" /\ (NoFault \/ Fault)
    BY <1>14 DEF Restart, PowerCut, Forgets
  <2>2. fresh' \in File
    <3>1. fresh' \in {fresh, Broken, built}
      BY <1>14 DEF Restart, PowerCut
    <3> QED
      BY <1>0, <3>1, NothingIs DEF Types
  <2>3. Present' = Present
    BY <2>1 DEF Present
  <2> QED
    BY <1>0, <2>1, <2>2, <2>3, NothingIs, FaultTypes DEF Types, Steps
<1> QED
  BY <1>1, <1>2, <1>3, <1>4, <1>5, <1>6, <1>7, <1>8, <1>9, <1>10, <1>11, <1>12, <1>13, <1>14
     DEF Next, Build

-----------------------------------------------------------------------------
(***************************************************************************)
(* Where a build is, and what it has written.                              *)
(***************************************************************************)
LEMMA PlacesStep == ASSUME IInv, Next PROVE Places'
<1>0. Places /\ Types /\ (lastBuild = "ok" => pc = "Idle")
  BY DEF IInv, Places
<1>1. ASSUME pc' \in {"Idle", "Mark", "Recover"}, pc' = "Idle" \/ lastBuild' = "none" PROVE Places'
  BY <1>1 DEF Places
<1>2. CASE Recovery
  <2>1. lastBuild # "ok"
    BY <1>0, <1>2 DEF Recovery, NoBackup, BackupOnly, LiveAndBackup, TryBackup, SwapInBackup
  <2>2. CASE NoBackup
    BY <1>0, <2>1, <2>2 DEF NoBackup, BuildGoesTo, Places
  <2>3. CASE BackupOnly
    BY <1>0, <2>1, <2>3 DEF BackupOnly, BuildGoesTo, BuildReturns, Places
  <2>4. CASE LiveAndBackup
    BY <1>0, <2>1, <2>4 DEF LiveAndBackup, BuildGoesTo, BuildReturns, Places
  <2>5. CASE TryBackup
    BY <1>0, <2>1, <2>5 DEF TryBackup, BuildGoesTo, BuildReturns, Places, Opens
  <2>6. CASE SwapInBackup
    BY <1>0, <2>1, <2>6 DEF SwapInBackup, BuildGoesTo, BuildReturns, Places
  <2> QED
    BY <1>2, <2>2, <2>3, <2>4, <2>5, <2>6 DEF Recovery
<1>3. CASE Walk
  BY <1>0, <1>3 DEF Walk, disk, Places
<1>4. CASE Stage
  BY <1>0, <1>4 DEF Stage, BuildGoesTo, BuildReturns, Places
<1>5. CASE EmitIndex
  BY <1>0, <1>5 DEF EmitIndex, BuildGoesTo, BuildReturns, Places
<1>6. CASE ParkLive
  BY <1>0, <1>6 DEF ParkLive, BuildGoesTo, BuildReturns, Places
<1>7. CASE InstallNew
  <2>1. lastBuild # "ok" /\ pc = "Install" /\ live = Nothing /\ bak' = bak
    BY <1>0, <1>7 DEF InstallNew, Places
  <2>2. CASE live' = fresh /\ BuildGoesTo(IF HadPrevious THEN "DropOld" ELSE "Clear")
    BY <2>1, <2>2 DEF BuildGoesTo, HadPrevious, Places
  <2>3. CASE HadPrevious /\ BuildGoesTo("RollBack") /\ live' = live
    BY <2>1, <2>3 DEF BuildGoesTo, HadPrevious, Places
  <2>4. CASE BuildReturns("failed")
    BY <2>4 DEF BuildReturns, Places
  <2> QED
    BY <1>7, <2>2, <2>3, <2>4 DEF InstallNew
<1>8. CASE RollBack
  BY <1>8 DEF RollBack, BuildReturns, Places
<1>9. CASE DropOld
  <2>1. Opens(live)
    BY <1>9 DEF DropOld, IInv, Written
  <2> QED
    BY <1>0, <1>9, <2>1 DEF DropOld, BuildGoesTo, Places, Opens
<1>10. CASE ClearLibraryIndexDirty
  BY <1>10 DEF ClearLibraryIndexDirty, BuildReturns, Places
<1>11. CASE ~Build
  BY <1>0, <1>1, <1>11
     DEF Next, PutFile, RenameFile, Transfer, Change, MarkLibraryIndexDirty, ToggleMetadata, Upgrade,
         EnterLibrary, FillCoverGrid, PromptRebuildIndex, PromptDeleteBook, StartBuild, Restart,
         PowerCut
<1> QED
  BY <1>2, <1>3, <1>4, <1>5, <1>6, <1>7, <1>8, <1>9, <1>10, <1>11 DEF Build

(* Until the next walk a build finds the books where it found them.          *)
LEMMA FitsStays ==
  ASSUME UNCHANGED <<card, unread>>, NEW f
  PROVE  /\ Walked' = Walked
         /\ FitsIn(f)' <=> (IsIndex(f') /\ DOMAIN f'.books = Walked /\ \A p \in Walked : ShelvedIn(f', p))
  BY DEF FitsIn, Walked, OnShelf, Present, IsIndex, ShelvedIn

LEMMA WrittenStep == ASSUME IInv, Next PROVE Written'
<1>0. Types /\ Places /\ Written
  BY DEF IInv
<1> DEFINE Late == {"Stage", "Emit", "Park", "Install", "RollBack", "DropOld", "Clear"}
<1>1. ASSUME pc' \notin Late PROVE Written'
  BY <1>1 DEF Written
<1>2. CASE Walk
  <2>1. pc' = "Stage" /\ reported' = reported \ unread'
    BY <1>2 DEF Walk
  <2> QED
    BY <2>1 DEF Written
<1>3. CASE Stage
  <2>1. UNCHANGED <<card, useMetadata, arrived, reported, changes, live>> /\ pc = "Stage"
    BY <1>3 DEF Stage, Building
  <2>2. CASE Unchanged /\ BuildGoesTo("Clear")
    <3>1. pc' = "Clear" /\ UNCHANGED <<built, unread, lastBuild>>
      BY <2>2 DEF BuildGoesTo
    <3>2. FitsIn(live)
      <4>1. IsIndex(live) /\ Cardinality(Walked) = Cardinality(DOMAIN live.books)
            /\ \A p \in Walked : Reused(p)
        BY <2>2 DEF Unchanged
      <4>2. \A p \in Walked : ShelvedIn(live, p)
        BY <4>1 DEF Reused, ShelvedIn
      <4>3. Walked \subseteq DOMAIN live.books /\ DOMAIN live.books \subseteq Paths
        BY <1>0, <4>1, <4>2, FileIs DEF ShelvedIn, Types
      <4>4. IsFiniteSet(DOMAIN live.books)
        BY <4>3, FS_Subset
      <4>5. Walked = DOMAIN live.books
        BY <4>1, <4>3, <4>4, FS_Subset
      <4> QED
        BY <4>1, <4>2, <4>5 DEF FitsIn
    <3>3. FitsIn(live)'
      BY <2>1, <3>1, <3>2, FitsStays DEF FitsIn
    <3> QED
      BY <1>0, <2>1, <3>1, <3>3 DEF Written
  <2>3. CASE /\ pc' = "Emit" /\ UNCHANGED <<unread, lastBuild>>
             /\ \E m \in Renames : \E order \in Orders(Added(m)) : built' = Reconciled(m, order)
    <3>1. Opens(built') /\ FitsIn(built')
      BY <1>0, <2>3, ReconciledIs
    <3>2. Opens(built)' /\ FitsIn(built)'
      BY <2>1, <2>3, <3>1, FitsStays DEF FitsIn, Opens
    <3> QED
      BY <1>0, <2>1, <2>3, <3>2 DEF Written
  <2>4. CASE BuildReturns("failed")
    BY <1>1, <2>4 DEF BuildReturns
  <2> QED
    BY <1>3, <2>2, <2>3, <2>4 DEF Stage
<1>4. CASE EmitIndex
  <2>1. UNCHANGED <<card, reported>> /\ pc = "Emit"
    BY <1>4 DEF EmitIndex, Building
  <2>2. CASE fresh' = built /\ BuildGoesTo("Park")
    <3>1. pc' = "Park" /\ unread' = unread
      BY <2>2 DEF BuildGoesTo
    <3>2. Opens(fresh)' /\ FitsIn(fresh)'
      BY <1>0, <2>1, <2>2, <3>1, FitsStays DEF Written, FitsIn, Opens
    <3> QED
      BY <1>0, <2>1, <3>1, <3>2 DEF Written
  <2> QED
    BY <1>1, <1>4, <2>2 DEF EmitIndex, BuildReturns
<1>5. CASE ParkLive
  <2>1. UNCHANGED <<card, reported>> /\ pc = "Park"
    BY <1>5 DEF ParkLive, Building
  <2>2. CASE fresh' = fresh /\ BuildGoesTo("Install")
    <3>1. pc' = "Install" /\ unread' = unread
      BY <2>2 DEF BuildGoesTo
    <3>2. Opens(fresh)' /\ FitsIn(fresh)'
      BY <1>0, <2>1, <2>2, <3>1, FitsStays DEF Written, FitsIn, Opens
    <3> QED
      BY <1>0, <2>1, <3>1, <3>2 DEF Written
  <2> QED
    BY <1>1, <1>5, <2>2 DEF ParkLive, BuildReturns
<1>6. CASE InstallNew
  <2>1. UNCHANGED <<card, reported>> /\ pc = "Install"
    BY <1>6 DEF InstallNew, Building
  <2>2. CASE live' = fresh /\ BuildGoesTo(IF HadPrevious THEN "DropOld" ELSE "Clear")
    <3>1. pc' \in {"DropOld", "Clear"} /\ unread' = unread
      BY <2>2 DEF BuildGoesTo
    <3>2. Opens(live)' /\ FitsIn(live)'
      BY <1>0, <2>1, <2>2, <3>1, FitsStays DEF Written, FitsIn, Opens
    <3> QED
      BY <1>0, <2>1, <3>1, <3>2 DEF Written
  <2>3. CASE BuildGoesTo("RollBack")
    BY <1>0, <2>1, <2>3 DEF BuildGoesTo, Written
  <2> QED
    BY <1>1, <1>6, <2>2, <2>3 DEF InstallNew, BuildReturns
<1>7. CASE DropOld
  <2>1. UNCHANGED <<card, reported, live>> /\ pc = "DropOld" /\ pc' = "Clear" /\ unread' = unread
    BY <1>7 DEF DropOld, Building, BuildGoesTo
  <2>2. FitsIn(live)'
    BY <1>0, <2>1, FitsStays DEF Written, FitsIn
  <2> QED
    BY <1>0, <2>1, <2>2 DEF Written
<1>8. CASE Recovery \/ RollBack \/ ClearLibraryIndexDirty \/ ~Build
  BY <1>1, <1>8
     DEF Next, Recovery, NoBackup, BackupOnly, LiveAndBackup, TryBackup, SwapInBackup, RollBack,
         ClearLibraryIndexDirty, BuildGoesTo, BuildReturns,
         PutFile, RenameFile, Transfer, Change, MarkLibraryIndexDirty, ToggleMetadata, Upgrade,
         EnterLibrary, FillCoverGrid, PromptRebuildIndex, PromptDeleteBook, StartBuild, Restart,
         PowerCut
<1> QED
  BY <1>2, <1>3, <1>4, <1>5, <1>6, <1>7, <1>8 DEF Build

LEMMA SuccessStep == ASSUME IInv, Next PROVE SuccessMeansCurrent'
<1>0. Types /\ Places /\ Written /\ SuccessMeansCurrent
  BY DEF IInv
<1>1. CASE ClearLibraryIndexDirty /\ lastBuild' = "ok"
  <2>1. UNCHANGED <<card, unread, live>> /\ pc = "Clear"
    BY <1>1 DEF ClearLibraryIndexDirty, Building, BuildReturns
  <2>2. FitsIn(live)
    BY <1>0, <2>1 DEF Written
  <2>3. Walked' = Walked /\ \A p : card'[p] = card[p]
    BY <2>1, FitsStays
  <2> QED
    BY <2>1, <2>2, <2>3 DEF FitsIn, SuccessMeansCurrent, Shelved, ShelvedIn, IsIndex
<1>2. CASE lastBuild' = "ok" /\ lastBuild = "ok"
  <2>1. UNCHANGED <<card, unread, live>>
    BY <1>0, <1>2
       DEF Next, Build, Recovery, NoBackup, BackupOnly, LiveAndBackup, TryBackup, SwapInBackup, Walk,
           Stage, EmitIndex, ParkLive, InstallNew, RollBack, DropOld, ClearLibraryIndexDirty, Places,
           PutFile, RenameFile, Transfer, Change, MarkLibraryIndexDirty, ToggleMetadata, Upgrade, disk,
           EnterLibrary, FillCoverGrid, PromptRebuildIndex, PromptDeleteBook, StartBuild, Restart,
           PowerCut, Forgets
  <2>2. Walked' = Walked
    BY <2>1, FitsStays
  <2> QED
    BY <1>0, <1>2, <2>1, <2>2 DEF SuccessMeansCurrent, Shelved, IsIndex
<1>3. CASE lastBuild' # "ok"
  BY <1>3 DEF SuccessMeansCurrent
<1>4. lastBuild' = "ok" => lastBuild = "ok" \/ ClearLibraryIndexDirty
  BY DEF Next, Build, Recovery, NoBackup, BackupOnly, LiveAndBackup, TryBackup, SwapInBackup, Walk,
         Stage, EmitIndex, ParkLive, InstallNew, RollBack, DropOld, BuildGoesTo, BuildReturns,
         PutFile, RenameFile, Transfer, Change, MarkLibraryIndexDirty, ToggleMetadata, Upgrade,
         EnterLibrary, FillCoverGrid, PromptRebuildIndex, PromptDeleteBook, StartBuild, Restart,
         PowerCut, Forgets
<1> QED
  BY <1>1, <1>2, <1>3, <1>4

-----------------------------------------------------------------------------
(***************************************************************************)
(* The index and its backup: what the steps do to the two files.           *)
(***************************************************************************)

(* The steps that move neither file leave the shelf as it was, and forget    *)
(* the books they change.                                                    *)
Untouched ==
  /\ UNCHANGED <<live, bak>> /\ (IsLibraryIndexDirty => IsLibraryIndexDirty')
  /\ \A p \in reported' : p \in reported /\ card'[p] = card[p]

(* The steps of a build that move one.                                       *)
Moved ==
  /\ UNCHANGED <<card, marker, dirtyInMemory, reported>>
  /\ \/ live' = live /\ bak' = Nothing /\ live # Nothing /\ (Opens(live) \/ ~Opens(bak))
     \/ live' = bak /\ bak' = Nothing /\ live = Nothing
     \/ live' = Nothing /\ bak' = bak /\ ~Opens(live) /\ Opens(bak)
     \/ live' = Nothing /\ bak' = live /\ bak = Nothing
     \/ /\ live' = fresh /\ bak' = bak /\ Opens(fresh) /\ FitsIn(fresh) /\ reported \cap unread = {}
        /\ pc = "Install" /\ live = Nothing

LEMMA StepIs ==
  ASSUME IInv, Next
  PROVE  \/ Untouched \/ Moved
         \/ MarkLibraryIndexDirty \/ (\E kind \in {"fold", "format"} : Upgrade(kind))
         \/ ClearLibraryIndexDirty \/ Restart \/ PowerCut
<1>0. /\ Places /\ Written /\ card \in [Paths -> Files \cup {Nothing}]
      /\ reported \subseteq Present /\ Present \subseteq Paths
  BY DEF IInv, Types, Present
<1>1. ASSUME NEW p \in Paths, NEW f, card' = [card EXCEPT ![p] = f], reported' = reported \ {p},
             UNCHANGED <<live, bak, marker, dirtyInMemory>>
      PROVE  Untouched
  BY <1>0, <1>1 DEF Untouched, IsLibraryIndexDirty
<1>2. ASSUME UNCHANGED <<card, live, bak, marker, dirtyInMemory>>, reported' \subseteq reported
      PROVE  Untouched
  BY <1>2 DEF Untouched, IsLibraryIndexDirty
<1>3. ASSUME NEW p \in Paths, NEW f \in Files \cup {Nothing}, PutFile(p, f) PROVE Untouched
  BY <1>1, <1>3 DEF PutFile, Change
<1>4. ASSUME NEW p \in Paths, NEW q \in Paths, RenameFile(p, q) PROVE Untouched
  <2>1. \A r \in reported' : r \in reported /\ r # p /\ r # q
    BY <1>0, <1>4 DEF RenameFile
  <2>2. \A r \in reported' : card'[r] = card[r]
    BY <1>0, <1>4, <2>1 DEF RenameFile
  <2> QED
    BY <1>4, <2>1, <2>2 DEF RenameFile, Change, Untouched, IsLibraryIndexDirty
<1>5. ASSUME NEW p \in Paths, NEW f \in Files, Transfer(p, f) PROVE Untouched
  BY <1>1, <1>5 DEF Transfer, Change
<1>6. CASE ToggleMetadata \/ EnterLibrary \/ FillCoverGrid \/ PromptRebuildIndex
  BY <1>2, <1>6 DEF ToggleMetadata, disk, EnterLibrary, FillCoverGrid, PromptRebuildIndex, StartBuild
<1>7. ASSUME NEW p \in Paths, PromptDeleteBook(p) PROVE Untouched
  BY <1>1, <1>2, <1>7 DEF PromptDeleteBook, StartBuild
<1>8. CASE Recovery
  <2>1. UNCHANGED <<card, marker, dirtyInMemory, reported>>
    BY <1>8 DEF Recovery, NoBackup, BackupOnly, LiveAndBackup, TryBackup, SwapInBackup, Building, Unmarked
  <2>2. CASE UNCHANGED <<live, bak>>
    BY <1>2, <2>1, <2>2
  <2>3. CASE NoBackup
    BY <1>2, <2>1, <2>3 DEF NoBackup
  <2>4. CASE BackupOnly
    BY <2>1, <2>2, <2>4 DEF BackupOnly, Moved
  <2>5. CASE LiveAndBackup
    BY <2>1, <2>2, <2>5 DEF LiveAndBackup, Moved
  <2>6. CASE TryBackup
    BY <1>0, <2>1, <2>2, <2>6 DEF TryBackup, Moved, Places
  <2>7. CASE SwapInBackup
    BY <1>0, <2>1, <2>2, <2>7, NothingIs DEF SwapInBackup, Moved, Places
  <2> QED
    BY <1>8, <2>3, <2>4, <2>5, <2>6, <2>7 DEF Recovery
<1>9. CASE Walk \/ Stage \/ EmitIndex
  BY <1>2, <1>9 DEF Walk, Stage, EmitIndex, disk, Building, Unmarked
<1>10. CASE ParkLive
  <2>1. bak = Nothing
    BY <1>0, <1>10 DEF ParkLive, Places
  <2> QED
    BY <1>2, <1>10, <2>1 DEF ParkLive, Moved, Building, Unmarked
<1>11. CASE InstallNew
  <2>1. UNCHANGED <<card, marker, dirtyInMemory, reported, bak>> /\ pc = "Install"
        /\ live' \in {live, fresh}
    BY <1>11 DEF InstallNew, Building, Unmarked
  <2>2. Opens(fresh) /\ FitsIn(fresh) /\ reported \cap unread = {} /\ live = Nothing
    BY <1>0, <2>1 DEF Written, Places
  <2> QED
    BY <1>2, <2>1, <2>2 DEF Moved
<1>12. CASE RollBack
  <2>1. live = Nothing
    BY <1>0, <1>12 DEF RollBack, Places
  <2> QED
    BY <1>2, <1>12, <2>1, NothingIs DEF RollBack, RollsBack, Moved, Building, Unmarked
<1>13. CASE DropOld
  <2>1. Opens(live) /\ live # Nothing
    BY <1>0, <1>13, NothingIs DEF DropOld, Written
  <2> QED
    BY <1>2, <1>13, <2>1 DEF DropOld, Moved, Building, Unmarked
<1> QED
  BY <1>3, <1>4, <1>5, <1>6, <1>7, <1>8, <1>9, <1>10, <1>11, <1>12, <1>13 DEF Next, Build

LEMMA BrokenStep == ASSUME IInv, Next PROVE BrokenTogether'
<1>0. BrokenTogether /\ live \in File /\ bak \in File
  BY DEF IInv, Types
<1>1. CASE Untouched
  BY <1>0, <1>1 DEF Untouched, BrokenTogether, IsIndex
<1>2. CASE Moved
  <2>1. Nothing # Broken /\ (Opens(fresh) => fresh # Broken)
    BY DEF Nothing, Broken, Opens
  <2> QED
    BY <1>0, <1>2, <2>1, NothingIs DEF Moved, BrokenTogether, IsIndex
<1>3. ASSUME NEW kind \in {"fold", "format"}, Upgrade(kind) PROVE BrokenTogether'
  <2>1. live' = AnotherVersion(live, kind) /\ bak' = AnotherVersion(bak, kind)
    BY <1>3, Zenon DEF Upgrade
  <2>2. ~IsIndex(Broken)
    BY DEF IsIndex, Broken
  <2>3. kind = "format" => ~IsIndex(bak')
    BY <1>0, <2>1, AnotherVersionIs
  <2>4. kind = "fold" /\ live' = Broken => live = Broken
    BY <1>0, <2>1, <2>2, AnotherVersionIs
  <2>5. ~IsIndex(bak) => bak' = bak
    BY <1>0, <2>1, AnotherVersionIs
  <2> QED
    BY <1>0, <2>3, <2>4, <2>5 DEF BrokenTogether, IsIndex
<1>4. CASE MarkLibraryIndexDirty \/ ClearLibraryIndexDirty \/ Restart \/ PowerCut
  BY <1>0, <1>4
     DEF MarkLibraryIndexDirty, ClearLibraryIndexDirty, Restart, PowerCut, Forgets, BrokenTogether,
         IsIndex
<1> QED
  BY <1>1, <1>2, <1>3, <1>4, StepIs

LEMMA RememberedStep == ASSUME IInv, Next PROVE Remembered'
<1>0. Types /\ Places /\ Written /\ Remembered
  BY DEF IInv
<1>1. CASE Untouched
  <2>1. CASE IsLibraryIndexDirty
    BY <1>1, <2>1 DEF Untouched, Remembered
  <2>2. CASE ~IsLibraryIndexDirty
    <3>1. \A p \in reported' \cap OnShelf' : p \in reported \cap OnShelf
      BY <1>0, <1>1 DEF Untouched, OnShelf, Present, Types
    <3>2. \A p \in reported' \cap OnShelf' :
            /\ IsIndex(live) => ShelvedIn(live, p)
            /\ ~Opens(live) /\ IsIndex(bak) => ShelvedIn(bak, p)
      BY <1>0, <2>2, <3>1 DEF Remembered
    <3> QED
      BY <1>1, <3>2 DEF Untouched, Remembered, ShelvedIn, IsIndex, Opens
  <2> QED
    BY <2>1, <2>2
<1>2. CASE Moved
  <2>1. UNCHANGED <<card, marker, dirtyInMemory, reported>> /\ OnShelf' = OnShelf
    BY <1>2 DEF Moved, OnShelf, Present
  <2>2. CASE IsLibraryIndexDirty
    BY <2>1, <2>2 DEF Remembered, IsLibraryIndexDirty
  <2>3. CASE ~IsLibraryIndexDirty
    <3> SUFFICES ASSUME NEW p \in reported \cap OnShelf
                 PROVE  /\ IsIndex(live') => ShelvedIn(live', p)
                        /\ ~Opens(live') /\ IsIndex(bak') => ShelvedIn(bak', p)
      BY <2>1 DEF Remembered, ShelvedIn, IsIndex, Opens
    <3>1. /\ IsIndex(live) => ShelvedIn(live, p)
          /\ ~Opens(live) /\ IsIndex(bak) => ShelvedIn(bak, p)
      BY <1>0, <2>3 DEF Remembered
    <3>2. CASE live' = fresh /\ Opens(fresh) /\ FitsIn(fresh) /\ reported \cap unread = {}
      BY <3>2 DEF FitsIn, Walked
    <3>3. CASE ~(live' = fresh /\ Opens(fresh) /\ FitsIn(fresh) /\ reported \cap unread = {})
      BY <1>2, <3>1, <3>3, NothingIs DEF Moved
    <3> QED
      BY <3>2, <3>3
  <2> QED
    BY <2>2, <2>3
<1>3. CASE MarkLibraryIndexDirty
  BY <1>3 DEF MarkLibraryIndexDirty, Remembered, IsLibraryIndexDirty
<1>4. ASSUME NEW kind \in {"fold", "format"}, Upgrade(kind) PROVE Remembered'
  <2>1. /\ live' = AnotherVersion(live, kind) /\ bak' = AnotherVersion(bak, kind)
        /\ UNCHANGED <<card, marker>>
        /\ reported' = IF (dirtyInMemory /\ ~marker) \/ IsIndex(bak) THEN {} ELSE reported
    BY <1>4, Zenon DEF Upgrade
  <2>2. CASE marker
    BY <2>1, <2>2 DEF Remembered, IsLibraryIndexDirty
  <2>3. CASE ~marker /\ (dirtyInMemory \/ IsIndex(bak))
    BY <2>1, <2>3 DEF Remembered
  <2>4. CASE ~IsLibraryIndexDirty /\ ~IsIndex(bak)
    <3>1. \A p \in reported \cap OnShelf : IsIndex(live) => ShelvedIn(live, p)
      BY <1>0, <2>4 DEF Remembered
    <3>2. reported' = reported /\ OnShelf' = OnShelf
      BY <2>1, <2>4 DEF IsLibraryIndexDirty, OnShelf, Present
    <3>3. live \in File /\ bak \in File
      BY <1>0 DEF Types
    <3>4. bak' = bak /\ (IsIndex(live') => IsIndex(live) /\ live'.books = live.books)
      BY <2>1, <2>4, <3>3, AnotherVersionIs
    <3>5. \A p \in reported' \cap OnShelf' : IsIndex(live') => ShelvedIn(live', p)
      BY <3>1, <3>2, <3>4 DEF ShelvedIn
    <3> QED
      BY <2>1, <2>4, <3>4, <3>5 DEF Remembered, ShelvedIn, IsIndex
  <2> QED
    BY <2>2, <2>3, <2>4 DEF IsLibraryIndexDirty
<1>5. CASE ClearLibraryIndexDirty
  <2>1. UNCHANGED <<card, live, bak, reported>> /\ pc = "Clear"
    BY <1>5 DEF ClearLibraryIndexDirty, Building
  <2>2. FitsIn(live) /\ reported \cap unread = {} /\ (Opens(live) \/ bak = Nothing)
    BY <1>0, <2>1 DEF Written, Places
  <2>3. \A p \in reported \cap OnShelf : ShelvedIn(live, p)
    BY <2>2 DEF FitsIn, Walked
  <2>4. OnShelf' = OnShelf
    BY <2>1 DEF OnShelf, Present
  <2> QED
    BY <2>1, <2>2, <2>3, <2>4, NothingIs DEF Remembered, ShelvedIn, IsIndex, Opens
<1>6. CASE Restart \/ PowerCut
  <2>1. UNCHANGED <<card, live, bak, marker>>
        /\ reported' = IF dirtyInMemory /\ ~marker THEN {} ELSE reported
    BY <1>6 DEF Restart, PowerCut, Forgets
  <2>2. CASE marker \/ dirtyInMemory
    BY <2>1, <2>2 DEF Remembered, IsLibraryIndexDirty
  <2>3. CASE ~IsLibraryIndexDirty
    <3>1. reported' = reported /\ OnShelf' = OnShelf
      BY <2>1, <2>3 DEF IsLibraryIndexDirty, OnShelf, Present
    <3> QED
      BY <1>0, <2>1, <2>3, <3>1 DEF Remembered, ShelvedIn, IsIndex, Opens
  <2> QED
    BY <2>2, <2>3 DEF IsLibraryIndexDirty
<1> QED
  BY <1>1, <1>2, <1>3, <1>4, <1>5, <1>6, StepIs

-----------------------------------------------------------------------------
(***************************************************************************)
(* The theorems.                                                           *)
(***************************************************************************)
LEMMA InitInvariant == Init => IInv
<1> SUFFICES ASSUME Init PROVE IInv
  OBVIOUS
<1>1. /\ card \in [Paths -> Files \cup {Nothing}] /\ live \in {Nothing, Broken} /\ bak = Nothing
      /\ fresh = Nothing /\ built = Nothing /\ pc = "Idle" /\ lastBuild = "none" /\ reported = {}
      /\ unread = {} /\ arrived = Nothing
  BY DEF Init
<1>2. Types
  <2>1. marker = FALSE /\ dirtyInMemory = FALSE /\ useMetadata = TRUE /\ changes = 0 /\ faults = 0
    BY DEF Init
  <2>2. changes \in 0 .. MaxChanges /\ faults \in 0 .. MaxFaults
    BY <2>1
  <2>3. pc \in Steps /\ pc # "Mark" /\ unread \subseteq Present /\ reported \subseteq Present
    BY <1>1 DEF Steps
  <2> QED
    BY <1>1, <2>1, <2>2, <2>3, NothingIs DEF Types
<1>3. Places /\ Written
  BY <1>1 DEF Places, Written
<1>4. BrokenTogether /\ Remembered /\ SuccessMeansCurrent
  BY <1>1, NothingIs DEF BrokenTogether, Remembered, SuccessMeansCurrent
<1> QED
  BY <1>2, <1>3, <1>4 DEF IInv

LEMMA NextInvariant == IInv /\ [Next]_vars => IInv'
<1> SUFFICES ASSUME IInv, [Next]_vars PROVE IInv'
  OBVIOUS
<1>1. CASE Next
  BY <1>1, TypesStep, PlacesStep, BrokenStep, WrittenStep, RememberedStep, SuccessStep DEF IInv
<1>2. CASE UNCHANGED vars
  <2>1. /\ UNCHANGED <<card, live, bak, fresh, marker, dirtyInMemory, useMetadata, pc, built>>
        /\ UNCHANGED <<unread, arrived, lastBuild, reported, changes, faults>>
    BY <1>2 DEF vars
  <2>2. Present' = Present /\ OnShelf' = OnShelf /\ Walked' = Walked
    BY <2>1 DEF Present, OnShelf, Walked
  <2>3. Types'
    BY <2>1, <2>2 DEF IInv, Types
  <2>4. Places' /\ BrokenTogether'
    BY <2>1 DEF IInv, Places, BrokenTogether, Opens, IsIndex
  <2>5. Written'
    BY <2>1, <2>2 DEF IInv, Written, FitsIn, ShelvedIn, Opens, IsIndex
  <2>6. Remembered'
    BY <2>1, <2>2 DEF IInv, Remembered, IsLibraryIndexDirty, ShelvedIn, Opens, IsIndex
  <2>7. SuccessMeansCurrent'
    BY <2>1, <2>2 DEF IInv, SuccessMeansCurrent, Shelved, IsIndex
  <2> QED
    BY <2>3, <2>4, <2>5, <2>6, <2>7 DEF IInv
<1> QED
  BY <1>1, <1>2

(* Files, mark and build fit together at all times.                          *)
THEOREM Invariance == Spec => []IInv
<1> QED
  BY InitInvariant, NextInvariant, PTL DEF Spec

(* Every variable keeps its type: no build writes an index of books that     *)
(* have no path or an arrival number out of range.                           *)
THEOREM TypeCorrect == Spec => []TypeOK
<1>1. IInv => TypeOK
  BY TypesAreTypes DEF IInv
<1> QED
  BY Invariance, <1>1, PTL

(* A book transferred and marked is on the shelf or will be rebuilt, and a   *)
(* build that reports success has indexed what it walked.                    *)
THEOREM Current == Spec => []ShelfIsCurrent
<1>1. IInv => ShelfIsCurrent
  BY DEF IInv, ShelfIsCurrent, TransfersAreNotForgotten, RebuildNeeded, Remembered, Shelved, ShelvedIn,
         IsIndex, Opens
<1> QED
  BY Invariance, <1>1, PTL

LEMMA RetainedIs ==
  IsIndex(Retained) <=> IsIndex(live) \/ (IsIndex(bak) /\ (live = Nothing \/ Opens(bak)))
<1>1. CASE live = Nothing
  <2>1. Retained = bak
    BY <1>1, Zenon DEF Retained
  <2> QED
    BY <1>1, <2>1, NothingIs
<1>2. CASE live # Nothing /\ ~Opens(live) /\ Opens(bak)
  <2>1. Retained = bak
    BY <1>2 DEF Retained
  <2> QED
    BY <1>2, <2>1 DEF Opens, IsIndex
<1>3. CASE live # Nothing /\ ~(~Opens(live) /\ Opens(bak))
  <2>1. Retained = live
    BY <1>3 DEF Retained
  <2> QED
    BY <1>3, <2>1 DEF Opens, IsIndex
<1> QED
  BY <1>1, <1>2, <1>3

(* No build, failure or power cut leaves the card without a file that a      *)
(* recovery would take for an index, if there was one.                       *)
THEOREM NeverLost == Spec => IndexIsNeverLost
<1> DEFINE Has == IsIndex(live) \/ (IsIndex(bak) /\ (live = Nothing \/ Opens(bak)))
<1>1. (IsIndex(Retained) <=> Has) /\ (IsIndex(Retained') <=> Has')
  <2>1. IsIndex(Retained) <=> Has
    BY RetainedIs
  <2>2. (IsIndex(Retained) <=> Has)'
    BY RetainedIs, PTL
  <2> QED
    BY <2>1, <2>2 DEF IsIndex
<1>2. ASSUME IInv, Next, ~Upgrade("format"), Has PROVE Has'
  <2>0. BrokenTogether /\ live \in File /\ bak \in File
    BY <1>2 DEF IInv, Types
  <2>1. CASE Untouched
    BY <1>2, <2>1 DEF Untouched, IsIndex, Opens
  <2>2. CASE Moved
    BY <1>2, <2>2, NothingIs, OpensIsIndex DEF Moved, IsIndex, Opens
  <2>3. CASE Upgrade("fold")
    <3>1. live' = AnotherVersion(live, "fold") /\ bak' = AnotherVersion(bak, "fold")
      BY <2>3, Zenon DEF Upgrade
    <3>2. IsIndex(live) => IsIndex(live')
      BY <2>0, <3>1, AnotherVersionIs
    <3>3. live = Nothing => live' = Nothing
      BY <2>0, <3>1, AnotherVersionIs, NothingIs
    <3>4. IsIndex(bak) => IsIndex(bak')
      BY <2>0, <3>1, AnotherVersionIs
    <3>5. IsIndex(live) \/ live = Nothing \/ live = Broken
      BY <2>0, FileIs
    <3> QED
      BY <1>2, <2>0, <3>2, <3>3, <3>4, <3>5 DEF BrokenTogether, IsIndex
  <2>4. CASE MarkLibraryIndexDirty \/ ClearLibraryIndexDirty \/ Restart \/ PowerCut
    BY <1>2, <2>4
       DEF MarkLibraryIndexDirty, ClearLibraryIndexDirty, Restart, PowerCut, Forgets, IsIndex, Opens
  <2> QED
    BY <1>2, <2>1, <2>2, <2>3, <2>4, StepIs
<1>3. UNCHANGED vars /\ Has => Has'
  BY DEF vars, IsIndex, Opens
<1>4. IInv /\ [Next]_vars => [~Upgrade("format") => (IsIndex(Retained) => IsIndex(Retained'))]_vars
  BY <1>1, <1>2, <1>3
<1> QED
  BY Invariance, <1>4, PTL DEF Spec, IndexIsNeverLost

-----------------------------------------------------------------------------
(***************************************************************************)
(* The arrival numbers.                                                    *)
(***************************************************************************)

(* The books the walk has found and the index does not know can be numbered  *)
(* without the counter coming round: it counts modulo SeenLimit.             *)
NewcomersFit == PriorNext + Cardinality(Walked \ DOMAIN PriorBooks) < SeenLimit

Numbered(f) ==
  IsIndex(f) =>
    \A p, q \in DOMAIN f.books : /\ f.books[p].seen = f.books[q].seen => p = q
                                 /\ f.books[p].seen < f.next

SameNumbers(f, g) ==
  IsIndex(f) /\ IsIndex(g) =>
    \A p \in DOMAIN f.books \cap DOMAIN g.books : f.books[p].seen = g.books[p].seen

(* What a build writes keeps the numbers of the index it will replace.       *)
NumbersKept ==
  /\ \A f \in {live, bak, fresh, built} : Numbered(f)
  /\ pc = "Emit" => SameNumbers(built, Retained)
  /\ pc \in {"Park", "Install"} => SameNumbers(fresh, Retained)

LEMMA PriorIsNumbered ==
  ASSUME Types, Numbered(live)
  PROVE  \A p, q \in DOMAIN PriorBooks :
           /\ PriorBooks[p].seen \in Nat
           /\ PriorBooks[p].seen = PriorBooks[q].seen => p = q
           /\ PriorBooks[p].seen < PriorNext
<1>1. CASE IsIndex(live)
  BY <1>1, PriorIs DEF PriorBooks, PriorNext, Numbered
<1>2. CASE ~IsIndex(live)
  BY <1>2 DEF PriorBooks
<1> QED
  BY <1>1, <1>2

(* A number once given is below the sentinel: only newcomers are unresolved. *)
LEMMA UnresolvedAreNew ==
  ASSUME Types, Numbered(live)
  PROVE  Unresolved = Walked \ DOMAIN PriorBooks
<1>1. \A p \in DOMAIN PriorBooks : PriorBooks[p].seen < SeenLimit - 1
  <2>1. PriorNext \in 0 .. (SeenLimit - 1)
    BY PriorIs
  <2> QED
    BY <2>1, PriorIsNumbered
<1>2. \A p \in DOMAIN PriorBooks : PriorBooks[p].seen # FirstSeenUnresolved
  BY <1>1, PriorIsNumbered DEF FirstSeenUnresolved
<1> QED
  BY <1>2 DEF Unresolved

(* Renamed books take the numbers of the leftovers, each its own; the others *)
(* get the numbers from the counter on, each its own.                        *)
LEMMA ReconciledIsNumbered ==
  ASSUME Types, Numbered(live), NewcomersFit, NEW m \in Renames, NEW order \in Orders(Added(m))
  PROVE  Numbered(Reconciled(m, order)) /\ SameNumbers(Reconciled(m, order), live)
<1> DEFINE N == PriorNext
           C == Cardinality(Added(m))
           seen(p) == ResolvedFirstSeen(p, m, order)
           old(p) == IF p \notin Unresolved THEN p ELSE m[p]
<1>1. Unresolved = Walked \ DOMAIN PriorBooks
  BY UnresolvedAreNew
<1>2. N \in Nat /\ C \in Nat /\ N + C < SeenLimit
  <2>1. Walked \subseteq Paths
    BY DEF Walked, OnShelf, Present
  <2>2. IsFiniteSet(Walked \ DOMAIN PriorBooks)
    BY <2>1, FS_Subset
  <2>3. Added(m) \subseteq Walked \ DOMAIN PriorBooks
    BY <1>1 DEF Added
  <2>4. /\ C \in Nat /\ Cardinality(Walked \ DOMAIN PriorBooks) \in Nat
        /\ C <= Cardinality(Walked \ DOMAIN PriorBooks)
    BY <2>2, <2>3, FS_Subset, FS_CardinalityType
  <2> QED
    BY <2>4, PriorIs DEF NewcomersFit
<1>3. order \in [Added(m) -> 0 .. (C - 1)] /\ \A p, q \in Added(m) : order[p] = order[q] => p = q
  BY DEF Orders, Injection, IsInjective
<1> HIDE DEF C, N
<1>4. \A p \in Added(m) : seen(p) = N + order[p] /\ order[p] \in 0 .. (C - 1)
  <2> TAKE p \in Added(m)
  <2>1. order[p] \in 0 .. (C - 1)
    BY <1>3
  <2>2. seen(p) = (N + order[p]) % SeenLimit
    BY DEF ResolvedFirstSeen, Added, N
  <2>3. N + order[p] \in 0 .. (SeenLimit - 1)
    BY <1>2, <2>1
  <2>4. (N + order[p]) % SeenLimit = N + order[p]
    BY <2>3
  <2> QED
    BY <2>1, <2>2, <2>4
<1>5. \A p \in Walked \ Added(m) : old(p) \in DOMAIN PriorBooks /\ seen(p) = PriorBooks[old(p)].seen
  <2> TAKE p \in Walked \ Added(m)
  <2>1. CASE p \notin Unresolved
    BY <1>1, <2>1 DEF ResolvedFirstSeen
  <2>2. CASE p \in Unresolved
    <3>1. m[p] # Nothing /\ m[p] \in DOMAIN PriorBooks
      BY <2>2 DEF Added, Renames, Leftover
    <3> QED
      BY <2>2, <3>1 DEF ResolvedFirstSeen
  <2> QED
    BY <2>1, <2>2
<1>6. \A p, q \in Walked \ Added(m) : old(p) = old(q) => p = q
  <2>1. \A p \in Unresolved \ Added(m) : m[p] # Nothing /\ m[p] \notin Walked
    BY DEF Added, Renames, Leftover
  <2>2. \A p, q \in Unresolved : m[p] = m[q] /\ m[p] # Nothing => p = q
    BY DEF Renames
  <2> QED
    BY <2>1, <2>2
<1>7. \A p \in Walked \ Added(m) : seen(p) \in Nat /\ seen(p) < N
  BY <1>5, PriorIsNumbered DEF N
<1>8. \A p, q \in Walked \ Added(m) : seen(p) = seen(q) => p = q
  BY <1>5, <1>6, PriorIsNumbered
<1> HIDE DEF seen, old
<1>9. ASSUME NEW p \in Walked, NEW q \in Walked
      PROVE  (seen(p) = seen(q) => p = q) /\ seen(p) < N + C
  <2>1. seen(p) < N + C
    BY <1>2, <1>4, <1>7
  <2>2. CASE p \in Added(m) /\ q \in Added(m)
    BY <1>2, <1>3, <1>4, <2>1, <2>2
  <2>3. CASE p \notin Added(m) /\ q \notin Added(m)
    BY <1>8, <2>1, <2>3
  <2>4. ASSUME NEW x \in Walked \ Added(m), NEW y \in Added(m) PROVE seen(x) # seen(y)
    BY <1>2, <1>4, <1>7
  <2> QED
    BY <2>1, <2>2, <2>3, <2>4
<1>10. NextFirstSeen(m) = N + C
  <2>1. N + C \in 0 .. (SeenLimit - 1)
    BY <1>2
  <2>2. (N + C) % SeenLimit = N + C
    BY <2>1
  <2> QED
    BY <2>2 DEF NextFirstSeen, N, C
<1> DEFINE bs == [p \in Walked |-> [size |-> card[p].size, time |-> card[p].time,
                                    seen |-> ResolvedFirstSeen(p, m, order)]]
<1>11. Reconciled(m, order).books = bs /\ Reconciled(m, order).next = NextFirstSeen(m)
  BY DEF Reconciled, IndexOver
<1>12. DOMAIN bs = Walked /\ \A p \in Walked : bs[p].seen = seen(p)
  BY DEF seen
<1> HIDE DEF bs
<1>13. Numbered(Reconciled(m, order))
  BY <1>9, <1>10, <1>11, <1>12 DEF Numbered
<1>14. ASSUME IsIndex(live), NEW p \in Walked \cap DOMAIN live.books PROVE bs[p].seen = live.books[p].seen
  <2>1. PriorBooks = live.books /\ p \notin Unresolved
    BY <1>1, <1>14 DEF PriorBooks
  <2>2. seen(p) = PriorBooks[p].seen
    BY <2>1 DEF seen, ResolvedFirstSeen
  <2> QED
    BY <1>12, <2>1, <2>2
<1> QED
  BY <1>11, <1>12, <1>13, <1>14 DEF SameNumbers

(* Whatever else a step does with the two files, the one a recovery would    *)
(* take up stays the same.                                                   *)
LEMMA RetainedStep ==
  ASSUME IInv, Next, ~Upgrade("fold"), ~Upgrade("format")
  PROVE  Retained' = Retained \/ (pc = "Install" /\ Retained' = fresh /\ live = Nothing)
<1>1. /\ Retained = IF live = Nothing \/ (~Opens(live) /\ Opens(bak)) THEN bak ELSE live
      /\ Retained' = IF live' = Nothing \/ (~Opens(live') /\ Opens(bak')) THEN bak' ELSE live'
  <2>1. Retained = IF live = Nothing \/ (~Opens(live) /\ Opens(bak)) THEN bak ELSE live
    BY Zenon DEF Retained
  <2>2. (Retained = IF live = Nothing \/ (~Opens(live) /\ Opens(bak)) THEN bak ELSE live)'
    BY Zenon DEF Retained
  <2> QED
    BY <2>1, <2>2 DEF Opens
<1>2. CASE UNCHANGED <<live, bak>>
  BY <1>1, <1>2
<1>3. CASE Moved
  BY <1>1, <1>3, NothingIs DEF Moved
<1> QED
  BY <1>2, <1>3, StepIs
     DEF Untouched, MarkLibraryIndexDirty, ClearLibraryIndexDirty, Restart, PowerCut, Forgets

(* During a build the index to replace is the one the build has read.        *)
LEMMA RetainedIsLive ==
  ASSUME IInv, pc \in {"Stage", "Emit", "Park"}
  PROVE  Retained = live
<1>1. bak = Nothing
  BY DEF IInv, Places
<1>2. CASE live = Nothing
  BY <1>1, <1>2, Zenon DEF Retained
<1>3. CASE live # Nothing
  BY <1>1, <1>3, NothingIs DEF Retained
<1> QED
  BY <1>2, <1>3

LEMMA NumberedStep ==
  ASSUME IInv, NumbersKept, NewcomersFit, Next
  PROVE  \A f \in {live', bak', fresh', built'} : Numbered(f)
<1>0. Types /\ Numbered(live) /\ Numbered(bak) /\ Numbered(fresh) /\ Numbered(built)
  BY DEF IInv, NumbersKept
<1>1. Numbered(Nothing) /\ Numbered(Broken)
  BY DEF Numbered, IsIndex, Nothing, Broken
<1>2. CASE Stage
  <2>1. UNCHANGED <<live, bak, fresh>>
    BY <1>2 DEF Stage
  <2>2. \/ built' \in {built, Nothing}
        \/ \E m \in Renames : \E order \in Orders(Added(m)) : built' = Reconciled(m, order)
    BY <1>2 DEF Stage, BuildGoesTo, BuildReturns
  <2>3. Numbered(built')
    BY <1>0, <1>1, <2>2, ReconciledIsNumbered
  <2> QED
    BY <1>0, <2>1, <2>3
<1>3. ASSUME NEW kind \in {"fold", "format"}, Upgrade(kind)
      PROVE  \A f \in {live', bak', fresh', built'} : Numbered(f)
  <2>1. /\ live' = AnotherVersion(live, kind) /\ bak' = AnotherVersion(bak, kind)
        /\ fresh' = AnotherVersion(fresh, kind) /\ built' = built
    BY <1>3, Zenon DEF Upgrade
  <2>2. ASSUME NEW f \in File, Numbered(f) PROVE Numbered(AnotherVersion(f, kind))
    <3>1. CASE IsIndex(f) /\ kind = "fold"
      BY <2>2, <3>1, AnotherVersionIs DEF Numbered
    <3>2. CASE ~(IsIndex(f) /\ kind = "fold")
      <4>1. ~IsIndex(AnotherVersion(f, kind))
        BY <3>2, AnotherVersionIs
      <4> QED
        BY <4>1 DEF Numbered
    <3> QED
      BY <3>1, <3>2
  <2>3. live \in File /\ bak \in File /\ fresh \in File
    BY <1>0 DEF Types
  <2> QED
    BY <1>0, <2>1, <2>2, <2>3
<1>4. CASE ~Stage /\ ~(\E kind \in {"fold", "format"} : Upgrade(kind))
  <2>1. {live', bak', fresh', built'} \subseteq {live, bak, fresh, built, Nothing, Broken}
    BY <1>4 DEF Next, Build, Recovery, NoBackup, BackupOnly, LiveAndBackup, TryBackup, SwapInBackup,
       Walk, EmitIndex, ParkLive, InstallNew, RollBack, RollsBack, DropOld, ClearLibraryIndexDirty,
       BuildGoesTo, BuildReturns, Building, Unmarked, disk,
       PutFile, RenameFile, Transfer, Change, MarkLibraryIndexDirty, ToggleMetadata,
       EnterLibrary, FillCoverGrid, PromptRebuildIndex, PromptDeleteBook, StartBuild, Restart,
       PowerCut, Forgets
  <2> QED
    BY <1>0, <1>1, <2>1
<1> QED
  BY <1>2, <1>3, <1>4

LEMMA NumbersKeptStep ==
  ASSUME IInv, NumbersKept, NewcomersFit, Next
  PROVE  NumbersKept'
<1>1. \A f \in {live', bak', fresh', built'} : Numbered(f)
  BY NumberedStep
<1>2. CASE Stage /\ pc' = "Emit"
  <2>0. \E m \in Renames : \E order \in Orders(Added(m)) : built' = Reconciled(m, order)
    BY <1>2 DEF Stage, BuildGoesTo, BuildReturns
  <2>m. PICK m \in Renames : \E order \in Orders(Added(m)) : built' = Reconciled(m, order)
    BY <2>0
  <2>1. PICK order \in Orders(Added(m)) : built' = Reconciled(m, order)
    BY <2>m
  <2>2. SameNumbers(built', live)
    BY <2>1, ReconciledIsNumbered DEF IInv, NumbersKept
  <2>3. Retained' = live
    <3>1. pc = "Stage" /\ Retained = live
      BY <1>2, RetainedIsLive DEF Stage
    <3>2. UNCHANGED <<live, bak>>
      BY <1>2 DEF Stage
    <3> QED
      BY <3>1, <3>2 DEF Retained, Opens
  <2> QED
    BY <1>1, <1>2, <2>2, <2>3 DEF NumbersKept, Numbered, SameNumbers, IsIndex
<1>3. CASE EmitIndex /\ pc' = "Park"
  <2>1. fresh' = built /\ UNCHANGED <<live, bak>> /\ pc = "Emit"
    BY <1>3 DEF EmitIndex, BuildReturns
  <2>2. Retained' = Retained
    BY <2>1 DEF Retained, Opens
  <2>3. SameNumbers(fresh', Retained')
    BY <2>1, <2>2 DEF NumbersKept
  <2> QED
    BY <1>1, <1>3, <2>3 DEF NumbersKept, Numbered, SameNumbers, IsIndex
<1>4. CASE ParkLive /\ pc' = "Install"
  <2>1. fresh' = fresh /\ pc = "Park"
    BY <1>4 DEF ParkLive, BuildReturns
  <2>2. ~Upgrade("fold") /\ ~Upgrade("format")
    BY <2>1 DEF Upgrade
  <2>3. Retained' = Retained
    BY <1>4, <2>1, <2>2, RetainedStep
  <2>4. SameNumbers(fresh', Retained')
    BY <2>1, <2>3 DEF NumbersKept
  <2> QED
    BY <1>1, <1>4, <2>4 DEF NumbersKept, Numbered, SameNumbers, IsIndex
<1>5. pc' \in {"Emit", "Park", "Install"} =>
        \/ Stage /\ pc' = "Emit"
        \/ EmitIndex /\ pc' = "Park"
        \/ ParkLive /\ pc' = "Install"
  BY DEF Next, Build, Recovery, NoBackup, BackupOnly, LiveAndBackup, TryBackup, SwapInBackup,
         Walk, Stage, EmitIndex, ParkLive, InstallNew, RollBack, DropOld, ClearLibraryIndexDirty,
         BuildGoesTo, BuildReturns,
         PutFile, RenameFile, Transfer, Change, MarkLibraryIndexDirty, ToggleMetadata, Upgrade,
         EnterLibrary, FillCoverGrid, PromptRebuildIndex, PromptDeleteBook, StartBuild, Restart,
         PowerCut, Forgets
<1>6. CASE pc' \notin {"Emit", "Park", "Install"}
  BY <1>1, <1>6 DEF NumbersKept, Numbered, IsIndex
<1> QED
  BY <1>2, <1>3, <1>4, <1>5, <1>6

(* As long as the arrival counter has not come round: over any builds,       *)
(* failures and power cuts a book that stays at its path keeps its number,   *)
(* and no two books of the index that counts share one.                      *)
THEOREM ArrivalsKept == Spec /\ []NewcomersFit => ArrivalsAreKept
<1>1. Init => NumbersKept
  BY DEF Init, NumbersKept, Numbered, IsIndex, Nothing, Broken
<1>2. IInv /\ NumbersKept /\ NewcomersFit /\ [Next]_vars => NumbersKept'
  <2> SUFFICES ASSUME IInv, NumbersKept, NewcomersFit, [Next]_vars PROVE NumbersKept'
    OBVIOUS
  <2>1. CASE Next
    BY <2>1, NumbersKeptStep
  <2>2. CASE UNCHANGED vars
    BY <2>2 DEF vars, NumbersKept, Numbered, SameNumbers, Retained, IsIndex, Opens
  <2> QED
    BY <2>1, <2>2
<1>3. NumbersKept => NumbersAreUnique
  <2>1. Retained \in {live, bak}
    BY DEF Retained
  <2> QED
    BY <2>1 DEF NumbersKept, Numbered, NumbersAreUnique
<1>4. IInv /\ NumbersKept /\ [Next]_vars =>
        [(~Upgrade("fold") /\ IsIndex(Retained) /\ IsIndex(Retained')) =>
           \A p \in DOMAIN Retained.books \cap DOMAIN Retained'.books :
             Retained'.books[p].seen = Retained.books[p].seen]_vars
  <2> SUFFICES ASSUME IInv, NumbersKept, Next, ~Upgrade("fold"), IsIndex(Retained), IsIndex(Retained'),
                      NEW p \in DOMAIN Retained.books \cap DOMAIN Retained'.books
               PROVE  Retained'.books[p].seen = Retained.books[p].seen
    OBVIOUS
  <2>1. ~Upgrade("format")
    <3>1. ASSUME Upgrade("format") PROVE FALSE
      <4>1. live' = AnotherVersion(live, "format") /\ bak' = AnotherVersion(bak, "format")
        BY <3>1, Zenon DEF Upgrade
      <4>2. ~IsIndex(live') /\ ~IsIndex(bak')
        BY <4>1, AnotherVersionIs DEF IInv, Types
      <4>3. (Retained \in {live, bak})'
        BY DEF Retained
      <4> QED
        BY <4>2, <4>3
    <3> QED
      BY <3>1
  <2>2. CASE Retained' = Retained
    BY <2>2
  <2>3. CASE pc = "Install" /\ Retained' = fresh
    BY <2>3 DEF NumbersKept, SameNumbers
  <2> QED
    BY <2>1, <2>2, <2>3, RetainedStep
<1> QED
  BY Invariance, <1>1, <1>2, <1>3, <1>4, PTL DEF Spec, ArrivalsAreKept, PlacesAreKept
=============================================================================
