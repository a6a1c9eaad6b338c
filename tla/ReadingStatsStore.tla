-------------------------- MODULE ReadingStatsStore --------------------------
(***************************************************************************)
(* src/src/ReadingStatsStore.cpp: how the reading statistics get to the SD  *)
(* card and back: the main file, its internal backup, the temporary file of *)
(* each, the suspension after a load that failed or was skipped, import,    *)
(* reset, and the release of the memory during a network session.           *)
(*                                                                         *)
(* The store runs on the main task, so a call is one step of the model; but *)
(* the power may go between any two operations on the card.  A call is      *)
(* therefore a set of runs, each with the contents of the card it passes    *)
(* through: it either ends, or is cut in one of them.                       *)
(***************************************************************************)
EXTENDS Naturals, FiniteSets

CONSTANTS
    Books,       \* the books there are
    Touch,       \* a board with a touch screen (X4 Pro)
    FaultKinds,  \* what may fail: of "write", "rename", "remove", "load", "skip"
    MaxRead,     \* bound: units of reading time credited to a book
    MaxFailures  \* bound: failures

ASSUME StoreAssumption ==
    /\ Touch \in BOOLEAN /\ MaxRead \in Nat \ {0} /\ MaxFailures \in Nat
    /\ FaultKinds \subseteq {"write", "rename", "remove", "load", "skip"}

VARIABLES
    up,        \* the firmware runs
    disk,      \* the four files
    store,     \* stats, dirty, persistenceSuspended, internalBackupPrepared
    failures,  \* failures left
    active,    \* the book of activeSession, or "none"
    network,   \* a screen that released the memory has not handed over yet
    durable,   \* history: per book, the time a save that succeeded has written
    forgotten  \* history: per book, "reset" or "removed" once that was saved

storeVars == <<up, disk, store, failures, active, network, durable, forgotten>>

-----------------------------------------------------------------------------
(* Contents.                                                               *)

Stats == [Books -> 0 .. MaxRead]
None == [b \in Books |-> 0]
AtLeast(s, t) == \A b \in Books : s[b] >= t[b]

\* A file cut short may or may not show an entry before the cut.
NoFile == [is |-> "absent", stats |-> None]
CutShort(s) == [is |-> "torn", stats |-> s]
Whole(s) == [is |-> "whole", stats |-> s]

HasData(file) == file.stats # None

Files == {"main", "mainTmp", "bak", "bakTmp"}
Temp == [main |-> "mainTmp", bak |-> "bakTmp"]

Fresh == [stats |-> None, dirty |-> FALSE, suspended |-> FALSE, prepared |-> FALSE]

-----------------------------------------------------------------------------
(* A run so far: the card, the store, the failures left, the result of the  *)
(* last operation, whether the main file was saved, and the contents of the *)
(* card on the way.                                                        *)

Run(d, s, n) == [disk |-> d, store |-> s, failures |-> n, ok |-> TRUE, saved |-> FALSE,
                 trail |-> {d}]

Then(runs, F(_)) == UNION {F(r) : r \in runs}
IfOk(runs, F(_), G(_)) == UNION {IF r.ok THEN F(r) ELSE G(r) : r \in runs}
Done(r) == {[r EXCEPT !.ok = TRUE]}
Failed(r) == {[r EXCEPT !.ok = FALSE]}

CanFail(r, kind) == kind \in FaultKinds /\ r.failures > 0

FailedBy(r, kind) ==
    IF CanFail(r, kind) THEN {[r EXCEPT !.ok = FALSE, !.failures = @ - 1]} ELSE {}

Put(r, f, file) ==
    LET d == [r.disk EXCEPT ![f] = file]
    IN [r EXCEPT !.disk = d, !.trail = @ \cup {d}, !.ok = TRUE]

Remove(r, f) ==
    IF r.disk[f] = NoFile THEN Done(r) ELSE {Put(r, f, NoFile)} \cup FailedBy(r, "remove")

\* SdFat's rename() does not overwrite, and is one operation on the directory.
Rename(r, f, g) ==
    IF r.disk[g] # NoFile \/ r.disk[f] = NoFile
    THEN Failed(r)
    ELSE LET d == [r.disk EXCEPT ![g] = r.disk[f], ![f] = NoFile]
         IN {[r EXCEPT !.disk = d, !.trail = @ \cup {d}, !.ok = TRUE]} \cup FailedBy(r, "rename")

\* A write in place: until it is complete the file is torn.
WriteFile(r, f, file) ==
    LET cut == {Put(r, f, CutShort(s)) : s \in {None, file.stats}}
        through == [r EXCEPT !.trail = UNION {c.trail : c \in cut}]
    IN {Put(through, f, file)} \cup UNION {FailedBy(c, "write") : c \in cut}

DropTemp(r, f) == Then(Remove(r, f), Failed)

-----------------------------------------------------------------------------
(* Replacing a file.                                                       *)

copyFileViaTemp(r, from, to) ==
    LET tmp == Temp[to]
        Promote(x) == IfOk(Rename(x, tmp, to), Done, LAMBDA y : DropTemp(y, tmp))
        Replace(x) == IfOk(Remove(x, to), Promote, LAMBDA y : DropTemp(y, tmp))
    IN IF r.disk[from] = NoFile
       THEN Failed(r)
       ELSE IfOk(Then(Remove(r, tmp), LAMBDA x : WriteFile(x, tmp, x.disk[from])),
                 Replace, LAMBDA x : DropTemp(x, tmp))

\* When the rename fails the temporary file is copied, and kept if that fails too.
promoteJsonTempFile(r) ==
    LET Copied(x) == Then(Remove(x, "mainTmp"), Done)
        Copy(x) == IfOk(WriteFile(x, "main", x.disk["mainTmp"]), Copied, LAMBDA y : DropTemp(y, "main"))
        Promote(x) == IfOk(Rename(x, "mainTmp", "main"), Done, Copy)
    IN IfOk(Remove(r, "main"), Promote, LAMBDA x : DropTemp(x, "mainTmp"))

\* Mutant: the main file is truncated and written in place.
WriteInPlace(r) == WriteFile(r, "main", Whole(r.store.stats))

saveReadingStats(r) ==
    IfOk(Then(Remove(r, "mainTmp"), LAMBDA x : WriteFile(x, "mainTmp", Whole(x.store.stats))),
         promoteJsonTempFile, LAMBDA x : DropTemp(x, "mainTmp"))

-----------------------------------------------------------------------------
(* The backup.                                                             *)

Prepared(r) == {[r EXCEPT !.store.prepared = TRUE, !.ok = TRUE]}

prepareInternalBackup(r) ==
    IF r.store.prepared THEN Done(r)
    ELSE IF ~HasData(r.disk["main"]) THEN Prepared(r)
    ELSE IfOk(copyFileViaTemp(r, "main", "bak"), Prepared, Failed)

refreshInternalBackupFromMain(r) ==
    LET Refresh(x) == IF HasData(x.disk["main"])
                      THEN IfOk(copyFileViaTemp(x, "main", "bak"), Prepared, Failed)
                      ELSE Then(Remove(x, "bak"), Prepared)
    IN Then(Remove(r, "bakTmp"), Refresh)

restoreInternalBackupToMain(r) ==
    LET Restored(x) == {[x EXCEPT !.store.prepared = FALSE]}
    IN IF HasData(r.disk["bak"])
       THEN IfOk(copyFileViaTemp(r, "bak", "main"), Restored, Failed)
       ELSE Failed(r)

-----------------------------------------------------------------------------
(* Saving.                                                                 *)

\* Mutant: the suspension is not looked at.
AlwaysAllowed(r) == TRUE

SavingAllowed(r) == ~r.store.suspended

persistToFile(r) ==
    LET Saved(x) == {[x EXCEPT !.store.dirty = FALSE, !.saved = TRUE]}
        Backup(x) == IF x.disk["bak"] = NoFile /\ x.store.stats # None
                     THEN Then(refreshInternalBackupFromMain(x), Done)
                     ELSE Done(x)
        Save(x) == IfOk(saveReadingStats(x), LAMBDA y : Then(Saved(y), Backup), Failed)
    IN IF SavingAllowed(r) THEN Then(prepareInternalBackup(r), Save) ELSE Done(r)

\* due: no session is active, or the last save is DEFERRED_SAVE_INTERVAL_MS ago.
saveToFile(r, due) ==
    IF \/ ~r.store.dirty /\ r.disk["main"] # NoFile
       \/ ~due
    THEN Done(r)
    ELSE persistToFile(r)

-----------------------------------------------------------------------------
(* Loading.                                                                *)

markLoadSkippedForRecovery(r) ==
    {[r EXCEPT !.store.suspended = TRUE, !.store.prepared = FALSE, !.store.dirty = FALSE,
               !.ok = FALSE]}

\* Without enough memory the document overflows, whatever the file holds.
loadMainFile(r) ==
    LET Loaded == [r EXCEPT !.store.stats = r.disk["main"].stats, !.store.dirty = FALSE,
                            !.store.suspended = FALSE]
    IN IF r.disk["main"].is = "whole"
       THEN Then(prepareInternalBackup(Loaded), Done) \cup FailedBy(r, "load")
       ELSE Failed(r)

loadFromFile(r) ==
    LET RecoverTemp(x) == IF x.disk["main"] = NoFile /\ x.disk["mainTmp"] # NoFile
                          THEN Rename(x, "mainTmp", "main") ELSE {x}
        RecoverBackup(x) == IF x.disk["main"] = NoFile THEN restoreInternalBackupToMain(x) ELSE {x}
        Again(x) == IfOk(loadMainFile(x), Done, markLoadSkippedForRecovery)
        \* the first load succeeded or failed; the backup may be needed after either
        AfterGood(x) == IF x.store.stats = None
                        THEN IfOk(restoreInternalBackupToMain(x), Again, Done) ELSE Done(x)
        AfterBad(x) == IfOk(restoreInternalBackupToMain(x), Again, markLoadSkippedForRecovery)
        Load(x) == IF x.disk["main"] = NoFile THEN Failed(x)
                   ELSE IfOk(loadMainFile(x), AfterGood, AfterBad)
    IN Then(Then(RecoverTemp(r), RecoverBackup), Load)

-----------------------------------------------------------------------------
(* The operations.                                                         *)

\* A call ends, or the power goes at one of the contents the card had on the way.
Ends(r) ==
    /\ disk' = r.disk /\ store' = r.store /\ failures' = r.failures
    /\ up' = TRUE

PowerGoes(r) ==
    /\ disk' \in r.trail /\ store' = Fresh /\ failures' = r.failures
    /\ up' = FALSE /\ active' = "none" /\ network' = FALSE

Now == Run(disk, store, failures)

With(stats) == [Now EXCEPT !.store.stats = stats, !.store.dirty = TRUE]

\* Mutant: the time is credited when the page is turned and again afterwards.
CreditedTwice(b) == With([store.stats EXCEPT ![b] = @ + 2])

Credited(b) == With([store.stats EXCEPT ![b] = @ + 1])

\* The last page is credited, or nothing has been read since; any save is due.
SessionEnded ==
    IF active = "none" THEN {Now}
    ELSE UNION {saveToFile(last, TRUE) :
                last \in {Now} \cup (IF store.stats[active] < MaxRead THEN {Credited(active)} ELSE {})}

\* A book that is read again after its removal is no longer a forgotten one.
ReadAgain(r) ==
    [b \in Books |-> IF r.store.stats[b] > store.stats[b] THEN "no" ELSE forgotten[b]]

Lower(s, t) == [b \in Books |-> IF s[b] < t[b] THEN s[b] ELSE t[b]]
Higher(s, t) == [b \in Books |-> IF s[b] < t[b] THEN t[b] ELSE s[b]]

\* What a save that went through has written is what the user may count on.
Noted(r) == IF r.saved THEN Higher(durable, r.store.stats) ELSE durable

Idle == up /\ ~network

Boot ==
    /\ ~up
    /\ \E r \in loadFromFile(Now) :
         PowerGoes(r) \/ (Ends(r) /\ UNCHANGED <<active, network>>)
    /\ UNCHANGED <<durable, forgotten>>

\* Recovery mode, after a crash while the statistics were loaded.
BootInRecovery ==
    /\ ~up /\ CanFail(Now, "skip")
    /\ \E r \in markLoadSkippedForRecovery([Now EXCEPT !.failures = @ - 1]) : Ends(r)
    /\ UNCHANGED <<active, network, durable, forgotten>>

PowerLost ==
    /\ up /\ PowerGoes(Now)
    /\ UNCHANGED <<durable, forgotten>>

\* A session that is still active ends first.
beginSession(b) ==
    /\ Idle
    /\ \E r \in SessionEnded :
         /\ \/ PowerGoes(r) /\ UNCHANGED durable
            \/ /\ Ends([r EXCEPT !.store.dirty = TRUE])
               /\ durable' = Noted(r) /\ active' = b /\ UNCHANGED network
         /\ forgotten' = ReadAgain(r)

noteActivity ==
    /\ Idle /\ active # "none" /\ store.stats[active] < MaxRead
    /\ \E due \in BOOLEAN : \E r \in saveToFile(Credited(active), due) :
         /\ \/ PowerGoes(r) /\ UNCHANGED durable
            \/ Ends(r) /\ durable' = Noted(r) /\ UNCHANGED <<active, network>>
         /\ forgotten' = ReadAgain(r)

endSession ==
    /\ Idle /\ active # "none"
    /\ \E r \in SessionEnded :
         /\ \/ PowerGoes(r) /\ UNCHANGED durable
            \/ Ends(r) /\ durable' = Noted(r) /\ active' = "none" /\ UNCHANGED network
         /\ forgotten' = ReadAgain(r)

EntryRemoved(b) == With([store.stats EXCEPT ![b] = 0])

\* Removing the last book leaves an empty main file, which a boot takes for a
\* damaged one: the backup comes back, and no removal stays.
Kept(b) ==
    IF store.stats # [None EXCEPT ![b] = store.stats[b]] THEN forgotten
    ELSE [x \in Books |-> IF forgotten[x] = "removed" THEN "no" ELSE forgotten[x]]

removeBook(b) ==
    /\ Idle /\ store.stats[b] > 0
    /\ LET left == IF active = b THEN "none" ELSE active IN
       \E due \in BOOLEAN : \E r \in saveToFile(EntryRemoved(b), due) :
         /\ left = "none" => due
         /\ durable' = [durable EXCEPT ![b] = 0]
         /\ \/ PowerGoes(r) /\ forgotten' = Kept(b)
            \/ /\ Ends(r) /\ active' = left /\ UNCHANGED network
               /\ forgotten' = IF r.saved /\ r.store.stats # None
                               THEN [forgotten EXCEPT ![b] = "removed"] ELSE Kept(b)

\* Mutant: the backup of the statistics is left where it is.
BackupKept(r) == Done(r)

BackupRemoved(r) == Then(Remove(r, "bak"), LAMBDA x : Then(Remove(x, "bakTmp"), Done))

reset ==
    /\ Idle
    /\ LET Clear(r) == [r EXCEPT !.store = [Fresh EXCEPT !.prepared = TRUE, !.dirty = TRUE]]
           Runs == Then(BackupRemoved(Now), LAMBDA x : saveToFile(Clear(x), TRUE))
       IN \E r \in Runs :
            \/ PowerGoes(r) /\ UNCHANGED forgotten
            \/ /\ Ends(r) /\ active' = "none" /\ UNCHANGED network
               /\ forgotten' = IF r.saved THEN [b \in Books |-> "reset"] ELSE forgotten
    /\ durable' = None

\* What the user may select: a malformed file, one without entries, or statistics.
Imports == {CutShort(None), Whole(None), Whole([b \in Books |-> 1])}

ReloadOriginal(r) ==
    Then(loadFromFile([r EXCEPT !.store.stats = None, !.store.dirty = FALSE]), Failed)

Import(r, src) ==
    LET Taken(x) == [x EXCEPT !.store = [stats |-> src.stats, dirty |-> TRUE,
                                         suspended |-> FALSE, prepared |-> TRUE]]
        Parsed(x) == IF src.is = "whole" THEN Done(x) \cup FailedBy(x, "load") ELSE Failed(x)
        Take(x) == IF src.stats = None THEN ReloadOriginal(x)
                   ELSE IfOk(saveToFile(Taken(x), TRUE), Done, ReloadOriginal)
        Read(x) == IfOk(Parsed(x), Take, Failed)
    IN IfOk(refreshInternalBackupFromMain(r), Read, Failed)

\* Importing over a card whose data was not loaded gives that data up, once begun.
importFromFile(src) ==
    /\ Idle /\ active = "none"
    /\ \E r \in Import(Now, src) :
         \/ /\ PowerGoes(r)
            /\ durable' = IF store.suspended THEN None ELSE Lower(durable, src.stats)
            /\ forgotten' = [b \in Books |-> "no"]
         \/ /\ Ends(r) /\ UNCHANGED <<active, network>>
            /\ IF r.ok
               THEN /\ durable' = src.stats
                    /\ forgotten' = [b \in Books |-> "no"]
               ELSE UNCHANGED <<durable, forgotten>>

-----------------------------------------------------------------------------
(* Around a network session.                                               *)

releaseMemoryForNetwork ==
    /\ Idle
    /\ LET Released(x) == {[x EXCEPT !.store.stats = None, !.store.dirty = FALSE]}
           Save(x) == IF x.store.dirty THEN saveToFile(x, TRUE) ELSE Done(x)
       IN \E saved \in Then(SessionEnded, Save) :
          \E r \in IF saved.ok THEN Released(saved) ELSE {saved} :
            /\ \/ PowerGoes(r) /\ UNCHANGED durable
               \/ /\ Ends(r) /\ durable' = Noted(saved)
                  /\ active' = "none" /\ network' = TRUE
            /\ forgotten' = ReadAgain(saved)

\* The KOReader screens load the statistics again when they are done.
reloadAfterNetwork ==
    /\ up /\ network
    /\ \E r \in IF disk["main"] = NoFile THEN {Now} ELSE loadFromFile(Now) :
         PowerGoes(r) \/ (Ends(r) /\ network' = FALSE /\ UNCHANGED active)
    /\ UNCHANGED <<durable, forgotten>>

\* The others end in silentRestart(): the board starts again, or, with a touch
\* screen, only turns the radio off.
silentRestart ==
    /\ up /\ network
    /\ IF Touch
       THEN network' = FALSE /\ UNCHANGED <<up, disk, store, failures, active>>
       ELSE PowerGoes(Now)
    /\ UNCHANGED <<durable, forgotten>>

-----------------------------------------------------------------------------
StoreInit ==
    /\ up = FALSE /\ disk = [f \in Files |-> NoFile] /\ store = Fresh /\ failures = MaxFailures
    /\ active = "none" /\ network = FALSE
    /\ durable = None /\ forgotten = [b \in Books |-> "no"]

StoreNext ==
    \/ Boot \/ BootInRecovery \/ PowerLost
    \/ \E b \in Books : beginSession(b) \/ removeBook(b)
    \/ noteActivity \/ endSession \/ reset
    \/ \E src \in Imports : importFromFile(src)
    \/ releaseMemoryForNetwork \/ reloadAfterNetwork \/ silentRestart

StoreSpec == StoreInit /\ [][StoreNext]_storeVars

-----------------------------------------------------------------------------
\* What the next boot would show if nothing failed.
NextBoot == (CHOOSE r \in loadFromFile(Run(disk, Fresh, 0)) : TRUE).store.stats

StoreTypeOK ==
    /\ up \in BOOLEAN /\ network \in BOOLEAN /\ failures \in 0 .. MaxFailures
    /\ disk \in [Files -> [is : {"absent", "torn", "whole"}, stats : Stats]]
    /\ store \in [stats : Stats, dirty : BOOLEAN, suspended : BOOLEAN, prepared : BOOLEAN]
    /\ active \in Books \cup {"none"} /\ durable \in Stats
    /\ forgotten \in [Books -> {"no", "reset", "removed"}]

\* Reading time a save has written is still there at the next boot, wherever the
\* power went since, unless the user removed, reset or replaced it.
SavedTimeSurvives == AtLeast(NextBoot, durable)

\* The store in memory never falls behind what was saved: otherwise the next save
\* would drop the difference from the card.
MemoryCoversTheCard == Idle /\ ~store.suspended => AtLeast(store.stats, durable)

\* After a confirmed reset nothing comes back, from the backup or a temporary file,
\* and neither does a book that was removed from among others.
ResetIsFinal == \A b \in Books : forgotten[b] \in {"reset", "removed"} => NextBoot[b] = 0

\* While the persistence is suspended, a main file that shows data is left as it is,
\* for a user to recover: neither reading nor an attempt to load or import touches it.
SuspendedStoreIsNotWritten ==
    [][ (up /\ store.suspended /\ up' /\ store'.suspended /\ HasData(disk["main"]))
          => disk'["main"] = disk["main"] ]_storeVars
=============================================================================
