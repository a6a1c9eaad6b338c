---------------------------- MODULE LibraryIndex ----------------------------
(***************************************************************************)
(* The index of the books on the card, /.crosspoint/library.idx, and the   *)
(* mark that says a book has arrived since it was built.  A build walks    *)
(* the card, keeps the arrival numbers of the books it knew, writes        *)
(* library.new, parks the index as library.bak and renames the new one     *)
(* into place.  The power can go between any two card operations, any of   *)
(* them can fail, and the next build starts by recovering.                 *)
(*                                                                         *)
(* A book on the card is its size and its time stamp; a time of 0 is one   *)
(* the file system does not know, or metadata that could not be extracted: *)
(* either makes the builder read the book again.  What it reads is data.   *)
(***************************************************************************)
EXTENDS Naturals, FiniteSets, Functions

CONSTANTS
  Paths,       \* the paths a book can have
  Sizes,       \* sizes of a file that has contents
  Times,       \* time stamps, 0 among them
  Cards,       \* what the card may hold to begin with
  SeenLimit,   \* arrival numbers are counted modulo this (2^16 in the code)
  MaxChanges,  \* bound: changes of the card
  MaxFaults    \* bound: failed operations, and power cuts during a build

ASSUME LibraryAssumption ==
  /\ IsFiniteSet(Paths)
  /\ Sizes \subseteq Nat \ {0} /\ 0 \in Times /\ Times \subseteq Nat
  /\ SeenLimit \in Nat \ {0}
  /\ MaxChanges \in Nat /\ MaxFaults \in Nat

VARIABLES
  card,           \* the file at each path, or Nothing
  live,           \* library.idx
  bak,            \* library.bak
  fresh,          \* library.new
  marker,         \* library.dirty exists
  dirtyInMemory,  \* the mark when the file could not be created
  useMetadata,    \* the setting libraryUseMetadata
  pc,             \* "Idle", "Mark" after a transfer, or the next step of a build
  built,          \* the index the build is about to write
  unread,         \* paths in folders the last walk could not open
  arrived,        \* the path a transfer has just written
  lastBuild,      \* what the last build returned, "none" once the card changed
  reported,       \* history: paths transferred and marked, unchanged since, in
                  \* folders every walk could open
  changes, faults

disk == <<card, live, bak, fresh, marker>>
vars == <<card, live, bak, fresh, marker, dirtyInMemory, useMetadata, pc, built,
          unread, arrived, lastBuild, reported, changes, faults>>

Nothing == [kind |-> "none"]
Broken == [kind |-> "broken"]   \* another format, or a file cut short

(* A name whose contents are gone, or an upload that was cut at its start. *)
Dangling == [size |-> 0, time |-> 0]

Files == [size : Sizes, time : Times] \cup {Dangling}
Entries == [size : Sizes, time : Times, seen : 0..(SeenLimit - 1)]

(* A file written by another fold version is of kind "stale": it is rebuilt, *)
(* but the builder still reads the arrival numbers in it.                    *)
IsIndex(f) == f.kind \in {"ok", "stale"}
IndexOver(bs, next, meta) == [kind |-> "ok", books |-> bs, next |-> next, meta |-> meta]

Present == {p \in Paths : card[p] # Nothing}

(* What a walk finds: an entry without contents is skipped. *)
OnShelf == {p \in Present : card[p] # Dangling}

TypeOK ==
  /\ \A p \in Paths : card[p] \in Files \cup {Nothing}
  /\ \A f \in {live, bak, fresh, built} :
       \/ f \in {Nothing, Broken}
       \/ /\ IsIndex(f) /\ f.next \in 0..(SeenLimit - 1) /\ f.meta \in BOOLEAN
          /\ DOMAIN f.books \subseteq Paths
          /\ \A p \in DOMAIN f.books : f.books[p] \in Entries
  /\ marker \in BOOLEAN /\ dirtyInMemory \in BOOLEAN /\ useMetadata \in BOOLEAN
  /\ pc \in {"Idle", "Mark", "Recover", "TryBackup", "Swap", "Walk", "Stage", "Emit", "Park",
             "Install", "RollBack", "DropOld", "Clear"}
  /\ unread \subseteq Present /\ arrived \in Paths \cup {Nothing}
  /\ lastBuild \in {"none", "ok", "failed"}
  /\ reported \subseteq Present
  /\ changes \in 0..MaxChanges /\ faults \in 0..MaxFaults

(* A card never indexed, or one indexed by a firmware of another format. *)
Init ==
  /\ card \in Cards /\ Cards \subseteq [Paths -> Files \cup {Nothing}]
  /\ live \in {Nothing, Broken} /\ bak = Nothing /\ fresh = Nothing
  /\ marker = FALSE /\ dirtyInMemory = FALSE
  /\ useMetadata = TRUE
  /\ pc = "Idle" /\ built = Nothing /\ unread = {} /\ arrived = Nothing
  /\ lastBuild = "none" /\ reported = {}
  /\ changes = 0 /\ faults = 0

NoFault == faults' = faults
Fault == faults < MaxFaults /\ faults' = faults + 1

-----------------------------------------------------------------------------
(* The card changes.                                                       *)

Change ==
  /\ pc = "Idle" /\ changes < MaxChanges /\ changes' = changes + 1
  /\ lastBuild' = "none" /\ unread' = {}
  /\ UNCHANGED <<live, bak, fresh, marker, dirtyInMemory, useMetadata, built, faults>>

(* A file is put, removed or renamed by something that leaves no mark: the   *)
(* file browser, WebDAV, a web rename, the card in a computer.               *)
PutFile(p, f) ==
  /\ Change /\ card[p] # f
  /\ card' = [card EXCEPT ![p] = f]
  /\ reported' = reported \ {p}
  /\ UNCHANGED <<pc, arrived>>

RenameFile(p, q) ==
  /\ Change /\ p \in Present /\ q \notin Present
  /\ card' = [card EXCEPT ![p] = Nothing, ![q] = card[p]]
  /\ reported' = reported \ {p}
  /\ UNCHANGED <<pc, arrived>>

(* A transfer over HTTP, a WebSocket or OPDS has its whole file on the card. *)
Transfer(p, f) ==
  /\ Change
  /\ card' = [card EXCEPT ![p] = f]
  /\ pc' = "Mark" /\ arrived' = p
  /\ reported' = reported \ {p}

(* markLibraryIndexDirty(): a marker file, or else a flag in memory. *)
MarkLibraryIndexDirty ==
  /\ pc = "Mark"
  /\ \/ marker' = TRUE /\ NoFault /\ UNCHANGED dirtyInMemory
     \/ ~marker /\ Fault /\ dirtyInMemory' = TRUE /\ UNCHANGED marker
  /\ pc' = "Idle" /\ arrived' = Nothing
  /\ reported' = reported \cup {arrived}
  /\ UNCHANGED <<card, live, bak, fresh, useMetadata, built, unread, lastBuild, changes>>

IsLibraryIndexDirty == marker \/ dirtyInMemory

(* The user switches between titles from the books and from file names. *)
ToggleMetadata ==
  /\ pc = "Idle" /\ changes < MaxChanges /\ changes' = changes + 1
  /\ useMetadata' = ~useMetadata
  /\ UNCHANGED <<disk, dirtyInMemory, pc, built, unread, arrived, lastBuild, reported, faults>>

(* A restart with a firmware that has the other fold version, there and back *)
(* again, or another format.  A backup that could not be removed may then be *)
(* the one that opens: what has been shelved since it was parked is not in   *)
(* it, and a recovery that is cut shows it as it is.                         *)
AnotherVersion(f, kind) ==
  CASE ~IsIndex(f) -> f
    [] IsIndex(f) /\ kind = "fold" -> [f EXCEPT !.kind = IF @ = "ok" THEN "stale" ELSE "ok"]
    [] IsIndex(f) /\ kind = "format" -> Broken

Upgrade(kind) ==
  /\ pc = "Idle" /\ changes < MaxChanges /\ changes' = changes + 1
  /\ live' = AnotherVersion(live, kind) /\ bak' = AnotherVersion(bak, kind)
  /\ fresh' = AnotherVersion(fresh, kind)
  /\ dirtyInMemory' = FALSE /\ lastBuild' = "none" /\ unread' = {}
  /\ reported' = IF (dirtyInMemory /\ ~marker) \/ IsIndex(bak) THEN {} ELSE reported
  /\ UNCHANGED <<card, marker, useMetadata, pc, built, arrived, faults>>

-----------------------------------------------------------------------------
(* Who starts a build.                                                     *)

StartBuild ==
  /\ pc = "Idle" /\ pc' = "Recover" /\ lastBuild' = "none" /\ unread' = {}
  /\ UNCHANGED <<live, bak, fresh, marker, dirtyInMemory, useMetadata, built, arrived>>

(* Mutant: the mark is not looked at. *)
CannotBeOpened == ~(live.kind = "ok" /\ live.meta = useMetadata)

(* LibraryListActivity::onEnter() *)
RebuildNeeded ==
  ~(~IsLibraryIndexDirty /\ live.kind = "ok" /\ live.meta = useMetadata)

EnterLibrary ==
  /\ RebuildNeeded /\ StartBuild
  /\ UNCHANGED <<card, reported, changes, faults>>

(* Home fills its covers from the index; it looks at no mark. *)
FillCoverGrid ==
  /\ live.kind # "ok" /\ StartBuild
  /\ UNCHANGED <<card, reported, changes, faults>>

(* The user asks for it. *)
PromptRebuildIndex ==
  /\ changes < MaxChanges /\ changes' = changes + 1 /\ StartBuild
  /\ UNCHANGED <<card, reported, faults>>

(* The user deletes a book from the shelf; the file may refuse to go. *)
PromptDeleteBook(p) ==
  /\ live.kind = "ok" /\ p \in DOMAIN live.books
  /\ changes < MaxChanges /\ changes' = changes + 1 /\ StartBuild
  /\ \/ card' = [card EXCEPT ![p] = Nothing] /\ reported' = reported \ {p} /\ NoFault
     \/ Fault /\ UNCHANGED <<card, reported>>

-----------------------------------------------------------------------------
(* buildLibraryIndex(): recoverInterruptedInstall(), then the walk.        *)

BuildReturns(result) ==
  /\ pc' = "Idle" /\ built' = Nothing /\ lastBuild' = result
  /\ unread' = IF result = "ok" THEN unread ELSE {}

BuildGoesTo(step) == pc' = step /\ UNCHANGED <<built, unread, lastBuild>>

Building ==
  UNCHANGED <<card, useMetadata, arrived, reported, changes>>
Unmarked == UNCHANGED <<marker, dirtyInMemory>>

NoBackup ==
  /\ pc = "Recover" /\ bak = Nothing
  /\ BuildGoesTo("Walk")
  /\ NoFault /\ Building /\ Unmarked /\ UNCHANGED <<live, bak, fresh>>

BackupOnly ==
  /\ pc = "Recover" /\ bak # Nothing /\ live = Nothing
  /\ \/ live' = bak /\ bak' = Nothing /\ BuildGoesTo("Walk") /\ NoFault
     \/ BuildReturns("failed") /\ Fault /\ UNCHANGED <<live, bak>>
  /\ Building /\ Unmarked /\ UNCHANGED fresh

(* LibraryIndexFile::open() *)
Opens(f) == f.kind = "ok"

LiveAndBackup ==
  /\ pc = "Recover" /\ bak # Nothing /\ live # Nothing
  /\ \/ Opens(live) /\ bak' = Nothing /\ BuildGoesTo("Walk") /\ NoFault
     \/ ~Opens(live) /\ BuildGoesTo("TryBackup") /\ NoFault /\ UNCHANGED bak
     \/ BuildReturns("failed") /\ Fault /\ UNCHANGED bak
  /\ Building /\ Unmarked /\ UNCHANGED <<live, fresh>>

TryBackup ==
  /\ pc = "TryBackup"
  /\ \/ Opens(bak) /\ live' = Nothing /\ BuildGoesTo("Swap") /\ NoFault /\ UNCHANGED bak
     \/ ~Opens(bak) /\ bak' = Nothing /\ BuildGoesTo("Walk") /\ NoFault /\ UNCHANGED live
     \/ BuildReturns("failed") /\ Fault /\ UNCHANGED <<live, bak>>
  /\ Building /\ Unmarked /\ UNCHANGED fresh

SwapInBackup ==
  /\ pc = "Swap"
  /\ \/ live' = bak /\ bak' = Nothing /\ BuildGoesTo("Walk") /\ NoFault
     \/ BuildReturns("failed") /\ Fault /\ UNCHANGED <<live, bak>>
  /\ Building /\ Unmarked /\ UNCHANGED fresh

(* walk() takes a folder that cannot be opened for an empty one: its books   *)
(* are not found, and nobody is told.                                        *)
Walk ==
  /\ pc = "Walk" /\ pc' = "Stage"
  /\ \/ unread' = {} /\ NoFault
     \/ unread' \in (SUBSET Present) \ {{}} /\ Fault
  /\ reported' = reported \ unread'
  /\ UNCHANGED <<disk, dirtyInMemory, useMetadata, built, arrived, lastBuild, changes>>

Walked == OnShelf \ unread
AnySkipped == (Present \ OnShelf) \ unread # {}

(* What the new build knows of the old one: another format starts afresh.    *)
PriorBooks == IF IsIndex(live) THEN live.books ELSE [p \in {} |-> Nothing]
PriorNext == IF IsIndex(live) THEN live.next ELSE 0

(* stageRecord() reuses a record only when everything about it agrees. *)
Reused(p) ==
  /\ Opens(live) /\ live.meta = useMetadata
  /\ p \in DOMAIN live.books
  /\ live.books[p].size = card[p].size
  /\ live.books[p].time = card[p].time /\ card[p].time # 0

(* Mutant: the number of books is not compared. *)
EveryBookReused ==
  IsIndex(live) /\ (\A p \in Walked : Reused(p)) /\ ~AnySkipped

Unchanged ==
  /\ IsIndex(live)
  /\ Cardinality(Walked) = Cardinality(DOMAIN live.books)
  /\ \A p \in Walked : Reused(p)
  /\ ~AnySkipped

(* A record staged with the sentinel still has to find its arrival number;   *)
(* the sentinel is the largest value, and a number may have reached it.      *)
FirstSeenUnresolved == SeenLimit - 1

(* Mutant: the old index is not searched by path. *)
NoneByPath == Walked

Unresolved ==
  {p \in Walked : p \notin DOMAIN PriorBooks \/ PriorBooks[p].seen = FirstSeenUnresolved}

(* Books of the old index no path on the card claims.  A new book of the     *)
(* same size as one of them is that book, renamed.                           *)
Leftover == DOMAIN PriorBooks \ Walked
RenameOf(p, q) == q \in Leftover /\ PriorBooks[q].size = card[p].size

(* The ways to pair them, first come first served in the order of the walk.  *)
Renames ==
  {m \in [Unresolved -> Leftover \cup {Nothing}] :
     /\ \A p \in Unresolved : m[p] # Nothing => RenameOf(p, m[p])
     /\ \A p, q \in Unresolved : m[p] = m[q] /\ m[p] # Nothing => p = q
     /\ \A p \in Unresolved : m[p] = Nothing =>
          \A q \in Leftover : RenameOf(p, q) => \E r \in Unresolved : m[r] = q}

(* The others get the next numbers, in the order of the walk. *)
Added(m) == {p \in Unresolved : m[p] = Nothing}
Orders(S) == Injection(S, 0..(Cardinality(S) - 1))

ResolvedFirstSeen(p, m, order) ==
  CASE p \notin Unresolved -> PriorBooks[p].seen
    [] p \in Unresolved /\ m[p] # Nothing -> PriorBooks[m[p]].seen
    [] OTHER -> (PriorNext + order[p]) % SeenLimit

NextFirstSeen(m) == (PriorNext + Cardinality(Added(m))) % SeenLimit

Reconciled(m, order) ==
  IndexOver([p \in Walked |-> [size |-> card[p].size, time |-> card[p].time,
                                seen |-> ResolvedFirstSeen(p, m, order)]],
            NextFirstSeen(m), useMetadata)

(* The staging, reconciliation and sorts write to the staging files only;    *)
(* when one of them fails the index stays.                                   *)
Stage ==
  /\ pc = "Stage"
  /\ \/ Unchanged /\ BuildGoesTo("Clear") /\ NoFault
     \/ /\ ~Unchanged /\ pc' = "Emit" /\ UNCHANGED <<unread, lastBuild>> /\ NoFault
        /\ \E m \in Renames : \E order \in Orders(Added(m)) : built' = Reconciled(m, order)
     \/ BuildReturns("failed") /\ Fault
  /\ Building /\ Unmarked /\ UNCHANGED <<live, bak, fresh>>

(* emitIndex() writes library.new and looks at every result; an incomplete   *)
(* file is removed, unless it was the close that failed.                     *)
EmitIndex ==
  /\ pc = "Emit"
  /\ \/ fresh' = built /\ BuildGoesTo("Park") /\ NoFault
     \/ fresh' \in {Nothing, Broken} /\ BuildReturns("failed") /\ Fault
  /\ Building /\ Unmarked /\ UNCHANGED <<live, bak>>

-----------------------------------------------------------------------------
(* installNewIndex().  The recovery has left no backup.                    *)

ParkLive ==
  /\ pc = "Park"
  /\ \/ live # Nothing /\ bak' = live /\ live' = Nothing /\ BuildGoesTo("Install")
        /\ NoFault /\ UNCHANGED fresh
     \/ live = Nothing /\ BuildGoesTo("Install") /\ NoFault /\ UNCHANGED <<live, bak, fresh>>
     \/ live # Nothing /\ fresh' = Nothing /\ BuildReturns("failed") /\ Fault
        /\ UNCHANGED <<live, bak>>
  /\ Building /\ Unmarked

HadPrevious == bak # Nothing

InstallNew ==
  /\ pc = "Install"
  /\ \/ /\ live' = fresh /\ fresh' = Nothing /\ NoFault
        /\ BuildGoesTo(IF HadPrevious THEN "DropOld" ELSE "Clear")
     \/ HadPrevious /\ BuildGoesTo("RollBack") /\ Fault /\ UNCHANGED <<live, fresh>>
     \/ ~HadPrevious /\ fresh' = Nothing /\ BuildReturns("failed") /\ Fault /\ UNCHANGED live
  /\ Building /\ Unmarked /\ UNCHANGED bak

(* Mutant: the backup is cleaned up whether or not it went back. *)
RollsBackOrDrops ==
  /\ bak' = Nothing
  /\ \/ live' = bak /\ NoFault
     \/ Fault /\ UNCHANGED live

(* The parked index goes back, or stays for the next build to recover. *)
RollsBack ==
  \/ live' = bak /\ bak' = Nothing /\ NoFault
  \/ Fault /\ UNCHANGED <<live, bak>>

RollBack ==
  /\ pc = "RollBack" /\ RollsBack /\ fresh' = Nothing
  /\ BuildReturns("failed")
  /\ Building /\ Unmarked

DropOld ==
  /\ pc = "DropOld" /\ BuildGoesTo("Clear")
  /\ \/ bak' = Nothing /\ NoFault
     \/ Fault /\ UNCHANGED bak
  /\ Building /\ Unmarked /\ UNCHANGED <<live, fresh>>

ClearLibraryIndexDirty ==
  /\ pc = "Clear" /\ dirtyInMemory' = FALSE
  /\ \/ marker' = FALSE /\ NoFault
     \/ marker /\ Fault /\ UNCHANGED marker
  /\ BuildReturns("ok")
  /\ Building /\ UNCHANGED <<live, bak, fresh>>

-----------------------------------------------------------------------------
(* A restart at rest, which ends most network sessions, or a power cut.    *)

Forgets ==
  /\ dirtyInMemory' = FALSE /\ built' = Nothing /\ arrived' = Nothing
  /\ lastBuild' = "none" /\ unread' = {}
  /\ reported' = IF dirtyInMemory /\ ~marker THEN {} ELSE reported
  /\ UNCHANGED <<card, live, bak, marker, useMetadata, changes>>

Restart ==
  /\ pc = "Idle" /\ Forgets /\ NoFault /\ UNCHANGED <<pc, fresh>>

PowerCut ==
  /\ pc # "Idle" /\ pc' = "Idle" /\ Forgets /\ Fault
  /\ IF pc = "Emit" THEN fresh' \in {fresh, Broken, built} ELSE UNCHANGED fresh

Recovery == NoBackup \/ BackupOnly \/ LiveAndBackup \/ TryBackup \/ SwapInBackup
Build ==
  \/ Recovery \/ Walk \/ Stage \/ EmitIndex
  \/ ParkLive \/ InstallNew \/ RollBack \/ DropOld \/ ClearLibraryIndexDirty

Next ==
  \/ \E p \in Paths : \E f \in Files \cup {Nothing} : PutFile(p, f)
  \/ \E p, q \in Paths : RenameFile(p, q)
  \/ \E p \in Paths : \E f \in Files : Transfer(p, f)
  \/ MarkLibraryIndexDirty
  \/ ToggleMetadata
  \/ \E kind \in {"fold", "format"} : Upgrade(kind)
  \/ EnterLibrary \/ FillCoverGrid \/ PromptRebuildIndex
  \/ \E p \in Paths : PromptDeleteBook(p)
  \/ Build
  \/ Restart \/ PowerCut

Spec == Init /\ [][Next]_vars

(* A build runs to its end, and the reader opens the library now and then.   *)
FairSpec == Spec /\ WF_vars(Build) /\ WF_vars(MarkLibraryIndexDirty) /\ WF_vars(EnterLibrary)

-----------------------------------------------------------------------------
(* Properties                                                              *)

(* The index the next build starts from, after its recovery. *)
Retained ==
  CASE live = Nothing -> bak
    [] ~Opens(live) /\ Opens(bak) -> bak
    [] OTHER -> live

(* A card that was indexed once never loses its index to a build, whatever   *)
(* fails and wherever the power goes: there is always a file a recovery      *)
(* would take up.  Only a firmware of another format gives it up.            *)
IndexIsNeverLost ==
  [][~Upgrade("format") => (IsIndex(Retained) => IsIndex(Retained'))]_vars

(* A book transferred to the card and marked is on the shelf, or the next    *)
(* entry of the library rebuilds it: as long as an entry would show the      *)
(* index as it stands, the book is in it.  No failed build, no crash during  *)
(* one and no shortcut for an unchanged card lets a book fall between.       *)
Shelved(p) ==
  /\ IsIndex(live) /\ p \in DOMAIN live.books
  /\ live.books[p].size = card[p].size /\ live.books[p].time = card[p].time

TransfersAreNotForgotten ==
  RebuildNeeded \/ \A p \in reported \cap OnShelf : Shelved(p)

(* A build that says it succeeded has left an index of exactly the books the *)
(* walk could reach, also when it found that nothing had to be written.      *)
SuccessMeansCurrent ==
  lastBuild = "ok" =>
    /\ IsIndex(live) /\ DOMAIN live.books = Walked
    /\ \A p \in Walked : Shelved(p)

(* What the library screen shows without a rebuild is what is on the card,   *)
(* as far as anything has told the firmware.                                 *)
ShelfIsCurrent == TransfersAreNotForgotten /\ SuccessMeansCurrent

(* A failure on the card keeps the previous index and fails the build, so a  *)
(* build that succeeds has indexed the card.  A folder that cannot be opened *)
(* breaks this.                                                              *)
FailuresRetainTheIndex ==
  lastBuild = "ok" => IsIndex(live) /\ DOMAIN live.books = OnShelf

(* What stays at its path keeps its number over any build.  (A change of     *)
(* firmware may bring an older backup up.)                                   *)
PlacesAreKept ==
  [][(~Upgrade("fold") /\ IsIndex(Retained) /\ IsIndex(Retained')) =>
       \A p \in DOMAIN Retained.books \cap DOMAIN Retained'.books :
         Retained'.books[p].seen = Retained.books[p].seen]_vars

(* No two books of the index share an arrival number, and none has one that  *)
(* the counter is still to give.                                             *)
NumbersAreUnique ==
  IsIndex(Retained) =>
    \A p, q \in DOMAIN Retained.books :
      /\ Retained.books[p].seen = Retained.books[q].seen => p = q
      /\ Retained.books[p].seen < Retained.next

(* The order of "Recently added" is kept over builds that fail or are cut.    *)
ArrivalsAreKept == PlacesAreKept /\ []NumbersAreUnique

(* Every transferred book is on the shelf in the end, once failures stop and *)
(* the reader keeps opening the library.                                     *)
TransfersReachTheShelf ==
  \A p \in Paths : p \in reported ~> (p \notin reported \/ p \notin OnShelf \/ Shelved(p))
=============================================================================
