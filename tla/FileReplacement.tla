--------------------------- MODULE FileReplacement ---------------------------
(***************************************************************************)
(* How the firmware replaces a file on the SD card.  Five disciplines are  *)
(* written out in its sources, and a power cut can fall between any two    *)
(* card operations of each:                                                *)
(*                                                                         *)
(*   "json"    JsonSettingsIO: temp file, remove the target, rename, and a *)
(*             checked copy when the rename fails; the loaders of          *)
(*             settings.json, state.json and the other stores promote a    *)
(*             temp file that has no target beside it;                     *)
(*   "cards"   FlashcardsStore: the same without the copy;                 *)
(*   "plain"   ProgressFile.h: temp file, remove the target, rename; the   *)
(*             loader reads the target only;                               *)
(*   "backed"  BookmarkStore.h: temp file, park the target as .bak, rename,*)
(*             remove .bak; the loader restores a .bak that has no target  *)
(*             beside it;                                                  *)
(*   "swap"    PluginEvents' downloads: like "backed", with another order, *)
(*             and nobody restores the .bak.                               *)
(*                                                                         *)
(* One action is one card operation.  What a file holds is abstracted to   *)
(* Absent, Torn (short or cut) or a whole value.  SdFat's rename moves a   *)
(* directory entry and refuses a name that is taken.                       *)
(***************************************************************************)
EXTENDS Naturals, FiniteSets

CONSTANTS
  Disciplines,  \* the disciplines under study, among AllDisciplines
  Values,       \* the whole values a file can hold
  MaxFaults     \* bound: failed card operations and power cuts in all

AllDisciplines == {"json", "cards", "plain", "backed", "swap"}
Absent == "Absent"
Torn == "Torn"

ASSUME DisciplinesAssumption == Disciplines \subseteq AllDisciplines
ASSUME ValuesAssumption == Absent \notin Values /\ Torn \notin Values
ASSUME MaxFaultsAssumption == MaxFaults \in Nat

VARIABLES
  kind,      \* the discipline of the file
  target,    \* the canonical file
  tmp,       \* <target>.tmp or <target>.part
  bak,       \* <target>.bak
  pc,        \* the next card operation of the save, "Idle", or where a start is
  job,       \* the value being saved, or last saved
  parked,    \* this save moved the target to .bak
  reported,  \* history: the value last saved with true, or loaded, until the next save
  excuses,   \* history: "rename" and "close" when one failed since the file was whole
  hadFile,   \* history: the target or its backup was whole when the save began
  faults     \* faults so far

files == <<target, tmp, bak>>
vars == <<kind, target, tmp, bak, pc, job, parked, reported, excuses,
          hadFile, faults>>

Contents == Values \cup {Absent, Torn}

(* The card operations each discipline may be at. *)
Common == {"Idle", "Off", "Load", "Open", "Write", "Install", "DropTmp"}
Steps(k) ==
  Common \cup (IF k \in {"json", "cards", "backed"} THEN {"Clear"} ELSE {})
         \cup (IF k \in {"json", "cards", "plain"} THEN {"RemoveTarget"}
               ELSE {"RemoveBak", "Park", "Restore", "Unpark"})
         \cup (IF k = "json" THEN {"CopyOpen", "Copy", "DropTarget", "DropCopied"} ELSE {})

TypeOK ==
  /\ kind \in Disciplines
  /\ target \in Contents /\ tmp \in Contents /\ bak \in Contents
  /\ pc \in Steps(kind)
  /\ job \in Values \cup {Absent}
  /\ parked \in BOOLEAN
  /\ reported \in Values \cup {Absent, "Nothing"}
  /\ excuses \subseteq {"rename", "close"}
  /\ hadFile \in BOOLEAN
  /\ faults \in 0..MaxFaults

Init ==
  /\ kind \in Disciplines
  /\ target = Absent /\ tmp = Absent /\ bak = Absent
  /\ pc = "Idle" /\ job = Absent /\ parked = FALSE
  /\ reported = Absent
  /\ excuses = {} /\ hadFile = FALSE
  /\ faults = 0

-----------------------------------------------------------------------------
(* Card operations.  Each either works or, within the budget, fails.       *)

Fault == faults < MaxFaults /\ faults' = faults + 1
NoFault == faults' = faults

GoTo(step) == pc' = step /\ UNCHANGED <<job, reported, hadFile>>

(* The save returns to its caller. *)
Return(ok) ==
  /\ pc' = "Idle"
  /\ reported' = IF ok THEN job ELSE reported
  /\ UNCHANGED <<job, hadFile>>

(* What a loader has left of the contents: a torn file does not parse. *)
Readable(c) == IF c = Torn THEN Absent ELSE c

(* Mutant: only .bak files are promoted. *)
RecoversFromBak == IF kind = "backed" THEN bak ELSE Absent

(* The file a loader promotes when the target is missing. *)
RecoversFrom ==
  CASE kind \in {"json", "cards"} -> tmp
    [] kind = "backed" -> bak
    [] OTHER -> Absent

(* What a restart at this moment would load. *)
Loadable == Readable(IF target = Absent THEN RecoversFrom ELSE target)

-----------------------------------------------------------------------------
(* A save writes the temp file.                                            *)

FirstStep(k) == IF k \in {"json", "cards", "backed"} THEN "Clear" ELSE "Open"

Begin(v) ==
  /\ pc = "Idle"
  /\ pc' = FirstStep(kind)
  /\ job' = v
  /\ parked' = FALSE
  /\ reported' = "Nothing"
  /\ excuses' = IF target \in Values /\ bak # Torn THEN {} ELSE excuses
  /\ hadFile' = (target \in Values \/ bak \in Values)
  /\ UNCHANGED <<kind, files, faults>>

(* A stale temp file is removed first; nobody looks at the result. *)
Clear ==
  /\ pc = "Clear"
  /\ \/ tmp' = Absent /\ NoFault
     \/ tmp # Absent /\ tmp' = tmp /\ Fault
  /\ GoTo("Open")
  /\ UNCHANGED <<kind, target, bak, parked, excuses>>

(* Opening truncates: until the last byte is on the card the file is torn. *)
Open ==
  /\ pc = "Open"
  /\ \/ tmp' = Torn /\ NoFault /\ GoTo("Write")
     \/ /\ Fault /\ tmp' = tmp
        /\ IF kind = "swap" THEN GoTo("DropTmp") ELSE Return(FALSE)
  /\ UNCHANGED <<kind, target, bak, parked, excuses>>

AfterWrite(k) == IF k \in {"json", "cards", "plain"} THEN "RemoveTarget" ELSE "RemoveBak"

(* Who asks the close, which writes the last sector, whether it worked. *)
ChecksClose(k) == k \in {"cards", "backed"}

(* Mutant: nobody compares the bytes written with the bytes meant. *)
WriteUnchecked ==
  /\ pc = "Write"
  /\ \/ tmp' = job /\ NoFault
     \/ tmp' = tmp /\ Fault
  /\ GoTo(AfterWrite(kind))
  /\ UNCHANGED <<kind, target, bak, parked, excuses>>

Write ==
  /\ pc = "Write"
  /\ \/ tmp' = job /\ NoFault /\ UNCHANGED excuses /\ GoTo(AfterWrite(kind))
     \/ tmp' = tmp /\ Fault /\ UNCHANGED excuses /\ GoTo("DropTmp")
     \/ /\ ~ChecksClose(kind) /\ tmp' = tmp /\ Fault
        /\ excuses' = excuses \cup {"close"} /\ GoTo(AfterWrite(kind))
  /\ UNCHANGED <<kind, target, bak, parked>>

-----------------------------------------------------------------------------
(* The target makes room.                                                  *)

(* ProgressFile.h does not look at the result of the removal. *)
AfterRemovalFails(k) == IF k = "plain" THEN "Install" ELSE "DropTmp"

RemoveTarget ==
  /\ pc = "RemoveTarget"
  /\ \/ target' = Absent /\ NoFault /\ GoTo("Install")
     \/ target # Absent /\ target' = target /\ Fault /\ GoTo(AfterRemovalFails(kind))
  /\ UNCHANGED <<kind, tmp, bak, parked, excuses>>

(* Mutant: a stale backup stays. *)
ClearsNoBak(k) == FALSE

(* BookmarkStore removes a stale backup only to make room for the target,  *)
(* a download always.  Nobody looks at the result.                         *)
ClearsBak(k) == k = "swap" \/ target # Absent

RemoveBak ==
  /\ pc = "RemoveBak"
  /\ \/ ClearsBak(kind) /\ bak' = Absent /\ NoFault
     \/ ClearsBak(kind) /\ bak # Absent /\ bak' = bak /\ Fault
     \/ ~ClearsBak(kind) /\ bak' = bak /\ NoFault
  /\ GoTo("Park")
  /\ UNCHANGED <<kind, target, tmp, parked, excuses>>

(* A rename fails when its new name is taken, or by a fault. *)
RenameFails(to) == \/ to # Absent /\ NoFault /\ UNCHANGED excuses
                   \/ Fault /\ excuses' = excuses \cup {"rename"}
RenameWorks(to) == to = Absent /\ NoFault /\ UNCHANGED excuses

Park ==
  /\ pc = "Park"
  /\ UNCHANGED <<kind, tmp>>
  /\ \/ /\ target = Absent
        /\ UNCHANGED <<target, bak, parked, excuses>> /\ NoFault /\ GoTo("Install")
     \/ /\ target # Absent /\ RenameWorks(bak)
        /\ bak' = target /\ target' = Absent /\ parked' = TRUE
        /\ GoTo("Install")
     \/ /\ target # Absent /\ RenameFails(bak)
        /\ UNCHANGED <<target, bak, parked>> /\ GoTo("DropTmp")

-----------------------------------------------------------------------------
(* The temp file takes the name of the target.                             *)

AfterInstall(k) ==
  CASE k \in {"json", "cards", "plain"} -> "Idle"
    [] k = "backed" -> IF parked THEN "Unpark" ELSE "Idle"
    [] k = "swap" -> "Unpark"

(* JsonSettingsIO copies, BookmarkStore rolls back and then drops the temp *)
(* file, the others drop it first.                                         *)
AfterInstallFails(k) ==
  CASE k = "json" -> "CopyOpen"
    [] k = "backed" -> IF parked THEN "Restore" ELSE "DropTmp"
    [] OTHER -> "DropTmp"

(* Mutant: the result of the rename is not looked at. *)
InstallUnchecked ==
  /\ pc = "Install"
  /\ \/ RenameWorks(target) /\ target' = tmp /\ tmp' = Absent
     \/ RenameFails(target) /\ UNCHANGED <<target, tmp>>
  /\ IF AfterInstall(kind) = "Idle" THEN Return(TRUE) ELSE GoTo(AfterInstall(kind))
  /\ UNCHANGED <<kind, bak, parked>>

Install ==
  /\ pc = "Install"
  /\ \/ /\ RenameWorks(target)
        /\ target' = tmp /\ tmp' = Absent
        /\ IF AfterInstall(kind) = "Idle" THEN Return(TRUE) ELSE GoTo(AfterInstall(kind))
     \/ /\ RenameFails(target)
        /\ UNCHANGED <<target, tmp>> /\ GoTo(AfterInstallFails(kind))
  /\ UNCHANGED <<kind, bak, parked>>

(* The backup has served. *)
Unpark ==
  /\ pc = "Unpark"
  /\ \/ bak' = Absent /\ NoFault
     \/ bak # Absent /\ bak' = bak /\ Fault
  /\ Return(TRUE)
  /\ UNCHANGED <<kind, target, tmp, parked, excuses>>

(* The rollback; a download only logs that it failed. *)
Restore ==
  /\ pc = "Restore"
  /\ \/ RenameWorks(target) /\ target' = bak /\ bak' = Absent
     \/ RenameFails(target) /\ UNCHANGED <<target, bak>>
  /\ IF kind = "backed" THEN GoTo("DropTmp") ELSE Return(FALSE)
  /\ UNCHANGED <<kind, tmp, parked>>

(* The save gives up and removes its temp file. *)
DropTmp ==
  /\ pc = "DropTmp"
  /\ \/ tmp' = Absent /\ NoFault
     \/ tmp # Absent /\ tmp' = tmp /\ Fault
  /\ IF kind = "swap" /\ parked THEN GoTo("Restore") ELSE Return(FALSE)
  /\ UNCHANGED <<kind, target, bak, parked, excuses>>

-----------------------------------------------------------------------------
(* JsonSettingsIO's checked copy, after its rename failed.  It counts the  *)
(* bytes: a torn temp file is not copied whole.                            *)

CopyOpen ==
  /\ pc = "CopyOpen"
  /\ \/ target' = Torn /\ NoFault /\ GoTo("Copy")
     \/ target' = target /\ Fault /\ Return(FALSE)
  /\ UNCHANGED <<kind, tmp, bak, parked, excuses>>

Copy ==
  /\ pc = "Copy"
  /\ \/ tmp # Torn /\ target' = tmp /\ NoFault /\ GoTo("DropCopied")
     \/ tmp # Torn /\ target' = target /\ Fault /\ GoTo("DropTarget")
     \/ tmp = Torn /\ target' = target /\ NoFault /\ GoTo("DropTarget")
  /\ UNCHANGED <<kind, tmp, bak, parked, excuses>>

DropTarget ==
  /\ pc = "DropTarget"
  /\ \/ target' = Absent /\ NoFault
     \/ target' = target /\ Fault
  /\ Return(FALSE)
  /\ UNCHANGED <<kind, tmp, bak, parked, excuses>>

DropCopied ==
  /\ pc = "DropCopied"
  /\ \/ tmp' = Absent /\ NoFault
     \/ tmp' = tmp /\ Fault
  /\ Return(TRUE)
  /\ UNCHANGED <<kind, target, bak, parked, excuses>>

-----------------------------------------------------------------------------
(* The power goes at any moment, and a start loads the file.               *)

PowerCut ==
  /\ pc # "Off" /\ Fault
  /\ pc' = "Off" /\ parked' = FALSE
  /\ UNCHANGED <<kind, files, job, reported, excuses, hadFile>>

Restart ==
  /\ pc = "Off" /\ pc' = "Load"
  /\ UNCHANGED <<kind, files, job, parked, reported, excuses, hadFile, faults>>

Promoted == RecoversFrom # Absent /\ target = Absent

Load ==
  /\ pc = "Load"
  /\ \/ /\ Promoted /\ RenameWorks(target)
        /\ target' = RecoversFrom
        /\ tmp' = IF kind = "backed" THEN tmp ELSE Absent
        /\ bak' = IF kind = "backed" THEN Absent ELSE bak
        /\ reported' = Readable(target')
     \/ Promoted /\ RenameFails(target) /\ UNCHANGED files /\ reported' = "Nothing"
     \/ /\ ~Promoted /\ NoFault /\ UNCHANGED <<files, excuses>>
        /\ reported' = Readable(target)
  /\ pc' = "Idle"
  /\ UNCHANGED <<kind, job, parked, hadFile>>

-----------------------------------------------------------------------------
Save == \/ Clear \/ Open \/ Write
        \/ RemoveTarget \/ RemoveBak \/ Park
        \/ Install \/ Unpark \/ Restore \/ DropTmp
        \/ CopyOpen \/ Copy \/ DropTarget \/ DropCopied

Next == \/ \E v \in Values : Begin(v)
        \/ Save
        \/ PowerCut \/ Restart \/ Load

Spec == Init /\ [][Next]_vars

(* A save runs to its end, a cut device is switched on again, and there is *)
(* always something more to save: the firmware saves on every page turn,   *)
(* every change of a setting and every drain.                              *)
Fairness == /\ WF_vars(Save) /\ WF_vars(Restart) /\ WF_vars(Load)
            /\ WF_vars(\E v \in Values : Begin(v))
FairSpec == Spec /\ Fairness

-----------------------------------------------------------------------------
(* Properties                                                              *)

(* The canonical file of reading progress, of bookmarks and of a plugin's  *)
(* download is never half-written, whatever fails and whenever the power   *)
(* goes, and neither is a backup (ProgressFile.h:12-18), provided that no  *)
(* close failed unnoticed.                                                 *)
CanonicalIsNeverTorn ==
  kind \in {"plain", "backed", "swap"} /\ "close" \notin excuses
    => target # Torn /\ bak # Torn

(* ProgressFile.h:12-16 as it stands: progress is written "without ever    *)
(* leaving the canonical file half-written", for it is renamed "only once  *)
(* that is fully written and closed".                                      *)
ProgressIsNeverTorn == kind = "plain" => target # Torn

(* What a save reported saved, and what a start loaded, is what every      *)
(* later start loads, until the next save begins (again but for a close    *)
(* that failed unnoticed).                                                 *)
ReportedIsSaved ==
  reported # "Nothing" /\ "close" \notin excuses => Loadable = reported

(* What a restart would load changes only to the value being saved: one    *)
(* step of a save makes it the new file, no step brings an older one back  *)
(* and none loses both.  The exceptions are the code's own: reading        *)
(* progress and downloads have a window with neither file, a download's    *)
(* rollback reopens the old one, and with a rename or an unchecked close   *)
(* that failed the JSON and flashcard files can be missing until the next  *)
(* save.                                                                   *)
MayVanish == kind \in {"plain", "swap"} \/ (excuses' # {} /\ kind # "backed")
MovesToTheSave ==
  Loadable' \in {Loadable, job'} \cup (IF MayVanish THEN {Absent} ELSE {})
                                \cup (IF kind = "swap" THEN {bak} ELSE {})
LoadableMovesOnlyByTheSave == [][MovesToTheSave]_vars

(* No leftover of an interrupted replacement blocks the later ones: saves  *)
(* keep succeeding once the faults are over.                               *)
Succeeds == pc \notin {"Idle", "Load"} /\ pc' = "Idle" /\ reported' # "Nothing"
SavesKeepSucceeding == []<><<Succeeds>>_vars

(* PluginEvents.cpp:342-343: "a failed commit must not lose both the old   *)
(* file and the fresh download".                                           *)
FailedCommitKeepsOne ==
  [][(kind = "swap" /\ hadFile /\ pc \notin {"Idle", "Load"} /\ pc' = "Idle"
        /\ reported' = "Nothing")
      => \E f \in {target', tmp', bak'} : f \in Values]_vars
=============================================================================
