--------------------------- MODULE FirmwareUpdate ---------------------------
(***************************************************************************)
(* The two application slots of the flash, the two otadata entries that    *)
(* tell the bootloader which of them to start, and the two updates that    *)
(* change them: from a file on the card (SdFirmwareUpdateActivity,         *)
(* FirmwareFlasher, OtaBootSwitch) and over the network (OtaUpdateActivity,*)
(* OtaUpdater).  The power can go at any step, and any flash operation can *)
(* fail.  What an image holds is abstracted to whether it was cut or       *)
(* damaged, whether it was built for this device, and its version.         *)
(***************************************************************************)
EXTENDS Integers

CONSTANTS
  Versions,    \* versions of the firmware
  MaxUpdates,  \* bound: updates started
  MaxFaults    \* bound: failed operations, crashes and power cuts

ASSUME FirmwareAssumption ==
  /\ Versions \subseteq Nat
  /\ MaxUpdates \in Nat /\ MaxFaults \in Nat

(* An image that "crashes" passes every check and resets before setup()      *)
(* confirms it.                                                              *)
Kinds == {"good", "crashes", "foreign", "damaged"}
Images == [kind : Kinds, version : Versions]
Torn == [kind |-> "torn"]       \* erased, or written in part
NoImage == [kind |-> "none"]

Slots == {0, 1}
Indices == {0, 1}
None == 2                       \* no entry, no slot
States == {"new", "pending", "valid", "aborted", "erased"}
Erased == [seq |-> 0, state |-> "erased"]   \* or one whose checksum is wrong

VARIABLES
  slot,      \* what each application slot holds
  otadata,   \* the two entries of otadata
  rollback,  \* the bootloader was built with rollback
  digest,    \* the board's manifest carries a SHA-256 (the X4 and X3 image)
  running,   \* the slot this boot runs from
  pc,        \* "Boot", "Confirm" in setup(), "Idle", or the step of an update
  file,      \* the .bin on the card
  job,       \* the update: where it comes from, its image, what was announced
  lapsed,    \* (history) a confirmation failed, and nobody looked
  updates, faults

flash == <<slot, otadata>>
device == <<rollback, digest>>
vars == <<slot, otadata, rollback, digest, running, pc, file, job, lapsed,
          updates, faults>>

NoJob == [via |-> "none", image |-> NoImage, manifest |-> NoImage]

(* The bootloader and validateImageFile() accept an image that is whole; the *)
(* device check looks at its chip and its board tag.                         *)
Whole(image) == image.kind \in {"good", "crashes", "foreign"}
ForDevice(image) == image.kind \in {"good", "crashes", "damaged"}
ValidateImageFile(image) == Whole(image) /\ ForDevice(image)

(* An entry says (seq - 1) % 2. *)
SlotOf(seq) == (seq - 1) % 2

(* Of the usable entries the one with the highest number counts. *)
Highest(entries, usable) ==
  IF 0 \in usable /\ (1 \in usable => entries[0].seq >= entries[1].seq) THEN 0
  ELSE IF 1 \in usable THEN 1 ELSE None

(* The application leaves out what was aborted.  A bootloader with rollback  *)
(* aborts first what was started once and never confirmed.                   *)
AppActive(entries) ==
  Highest(entries, {i \in Indices : entries[i].state \in {"new", "pending", "valid"}})
BootActive(entries) ==
  Highest(entries, {i \in Indices : \/ entries[i].state \in {"new", "valid"}
                                    \/ entries[i].state = "pending" /\ ~rollback})

(* Without an entry it is slot 0, and a slot that does not verify is passed  *)
(* over for the other one.                                                   *)
SelectedBy(entries) ==
  IF BootActive(entries) = None THEN 0 ELSE SlotOf(entries[BootActive(entries)].seq)
StartedFrom(entries, slots) ==
  LET s == SelectedBy(entries) IN
  IF Whole(slots[s]) THEN s ELSE IF Whole(slots[1 - s]) THEN 1 - s ELSE None

Selected == SelectedBy(otadata)
WouldRun == StartedFrom(otadata, slot)

(* Mutant: the update goes to slot 1. *)
AlwaysSlot1 == 1

(* esp_ota_get_next_update_partition(): the slot that does not run. *)
Dest == 1 - running

Busy == {"Flash", "Download", "EraseEntry", "WriteEntry", "Restart"}

TypeOK ==
  /\ slot \in [Slots -> Images \cup {Torn}]
  /\ otadata \in [Indices -> [seq : Nat, state : States]]
  /\ rollback \in BOOLEAN /\ digest \in BOOLEAN
  /\ running \in Slots
  /\ pc \in {"Boot", "Confirm", "Idle", "Prompt", "Dead"} \cup Busy
  /\ file \in Images \cup {NoImage}
  /\ job \in [via : {"none", "sd", "ota"}, image : Images \cup {NoImage},
              manifest : Images \cup {NoImage}]
  /\ lapsed \in BOOLEAN
  /\ updates \in 0..MaxUpdates /\ faults \in 0..MaxFaults

(* A device in use: it runs a confirmed image, installed over USB to slot 0  *)
(* or by an update to any of the two; the other slot holds anything.         *)
Init ==
  /\ running \in Slots
  /\ slot \in [Slots -> Images \cup {Torn}] /\ slot[running].kind = "good"
  /\ \/ running = 0 /\ otadata = [i \in Indices |-> Erased]
     \/ \E i \in Indices :
          otadata = [j \in Indices |->
            IF j = i THEN [seq |-> running + 1, state |-> "valid"] ELSE Erased]
  /\ rollback \in BOOLEAN /\ digest \in BOOLEAN
  /\ pc = "Idle" /\ file = NoImage /\ job = NoJob
  /\ lapsed = FALSE /\ updates = 0 /\ faults = 0

NoFault == faults' = faults
Fault == faults < MaxFaults /\ faults' = faults + 1

-----------------------------------------------------------------------------
(* The start: the bootloader, then setup() up to the confirmation.         *)

(* With rollback, an entry that was started and not confirmed is aborted,    *)
(* and the one that is started now is marked.                                *)
Started(entries) ==
  IF ~rollback THEN entries
  ELSE [i \in Indices |->
         CASE entries[i].state = "pending" -> [entries[i] EXCEPT !.state = "aborted"]
           [] entries[i].state = "new" /\ i = BootActive(entries) ->
                [entries[i] EXCEPT !.state = "pending"]
           [] OTHER -> entries[i]]

Bootloader ==
  /\ pc = "Boot"
  /\ otadata' = Started(otadata)
  /\ IF WouldRun = None THEN pc' = "Dead" /\ UNCHANGED running
                        ELSE pc' = "Confirm" /\ running' = WouldRun
  /\ NoFault /\ UNCHANGED <<lapsed, slot, device, file, job, updates>>

(* esp_ota_mark_app_valid_cancel_rollback(); its result is not looked at.    *)
MarkedValid(entries) ==
  [i \in Indices |->
    IF i = AppActive(entries) THEN [entries[i] EXCEPT !.state = "valid"] ELSE entries[i]]

MarkAppValid ==
  /\ pc = "Confirm" /\ slot[running].kind # "crashes"
  /\ pc' = "Idle"
  /\ \/ otadata' = MarkedValid(otadata) /\ NoFault /\ UNCHANGED lapsed
     \/ Fault /\ UNCHANGED otadata /\ lapsed' = TRUE
  /\ UNCHANGED <<slot, device, running, file, job, updates>>

(* An image resets before it gets there: one that does always, or by chance. *)
CrashBeforeConfirm ==
  /\ pc = "Confirm" /\ pc' = "Boot"
  /\ \/ slot[running].kind = "crashes" /\ NoFault
     \/ slot[running].kind # "crashes" /\ Fault
  /\ UNCHANGED <<lapsed, flash, device, running, file, job, updates>>

-----------------------------------------------------------------------------
(* An update from the card.                                                *)

(* The card is removable: what the path names may change until the file is   *)
(* opened for the last time.                                                 *)
SwapCard(f) ==
  /\ pc \in {"Idle", "Prompt"} /\ f # file /\ file' = f
  /\ NoFault /\ UNCHANGED <<lapsed, flash, device, running, pc, job, updates>>

PickFirmware ==
  /\ pc = "Idle" /\ file # NoImage /\ ValidateImageFile(file)
  /\ updates < MaxUpdates /\ updates' = updates + 1
  /\ pc' = "Prompt"
  /\ NoFault /\ UNCHANGED <<lapsed, flash, device, running, file, job>>

Decline ==
  /\ pc = "Prompt" /\ pc' = "Idle"
  /\ NoFault /\ UNCHANGED <<lapsed, flash, device, running, file, job, updates>>

(* The file is validated again, whatever was found before the prompt.        *)
Revalidated(f) == f # NoImage /\ ValidateImageFile(f)

(* flashFromSdPath(), which validates, opens the file again and begins to     *)
(* erase, the first of which makes the slot unusable.  The card is taken to   *)
(* stay where it is between the first two.                                    *)
ConfirmUpdate ==
  /\ pc = "Prompt" /\ Revalidated(file)
  /\ job' = [via |-> "sd", image |-> file, manifest |-> NoImage]
  /\ slot' = [slot EXCEPT ![Dest] = Torn]
  /\ pc' = "Flash"
  /\ NoFault /\ UNCHANGED <<lapsed, otadata, device, running, file, updates>>

RefuseUpdate ==
  /\ pc = "Prompt" /\ ~Revalidated(file)
  /\ pc' = "Idle"
  /\ NoFault /\ UNCHANGED <<lapsed, flash, device, running, file, job, updates>>

FlashImage ==
  /\ pc = "Flash"
  /\ \/ slot' = [slot EXCEPT ![Dest] = job.image] /\ pc' = "EraseEntry"
        /\ NoFault /\ UNCHANGED job
     \/ pc' = "Idle" /\ job' = NoJob /\ Fault /\ UNCHANGED slot
  /\ UNCHANGED <<lapsed, otadata, device, running, file, updates>>

-----------------------------------------------------------------------------
(* An update over the network.                                             *)

IsUpdateNewer(manifest) == manifest.version > slot[running].version

(* The manifest names an image; what is then received may be another one.    *)
InstallUpdate(manifest, image) ==
  /\ pc = "Idle" /\ IsUpdateNewer(manifest)
  /\ updates < MaxUpdates /\ updates' = updates + 1
  /\ job' = [via |-> "ota", image |-> image, manifest |-> manifest]
  /\ slot' = [slot EXCEPT ![Dest] = Torn]
  /\ pc' = "Download"
  /\ NoFault /\ UNCHANGED <<lapsed, otadata, device, running, file>>

(* The device check while it streams, the digest of the manifest when there  *)
(* is one, and esp_ota_end().                                                *)
Accepted ==
  /\ ForDevice(job.image)
  /\ digest => job.image = job.manifest
  /\ Whole(job.image)

FinishDownload ==
  /\ pc = "Download"
  /\ \/ /\ Accepted /\ NoFault
        /\ slot' = [slot EXCEPT ![Dest] = job.image]
        /\ pc' = "EraseEntry" /\ UNCHANGED job
     \/ /\ ~Accepted /\ NoFault
        /\ slot' = [slot EXCEPT ![Dest] = IF ForDevice(job.image) THEN job.image ELSE Torn]
        /\ pc' = "Idle" /\ job' = NoJob
     \/ pc' = "Idle" /\ job' = NoJob /\ Fault /\ UNCHANGED slot
  /\ UNCHANGED <<lapsed, otadata, device, running, file, updates>>

-----------------------------------------------------------------------------
(* otadata: switchTo(), and esp_ota_set_boot_partition() alike.            *)

ActiveSeq == IF AppActive(otadata) = None THEN 0 ELSE otadata[AppActive(otadata)].seq

(* Mutant: the next number, whatever slot it stands for. *)
PlusOne(dest) == ActiveSeq + 1

(* The smallest number above the active one that stands for the slot. *)
NewSeq(dest) == IF SlotOf(ActiveSeq + 1) = dest THEN ActiveSeq + 1 ELSE ActiveSeq + 2

(* Mutant: the entry that counts is the one replaced. *)
ActiveEntry == IF AppActive(otadata) = None THEN 0 ELSE AppActive(otadata)

TargetSlot == IF AppActive(otadata) = 0 THEN 1 ELSE 0

EraseEntry ==
  /\ pc = "EraseEntry"
  /\ \/ otadata' = [otadata EXCEPT ![TargetSlot] = Erased]
        /\ pc' = "WriteEntry" /\ NoFault /\ UNCHANGED job
     \/ otadata' \in {otadata, [otadata EXCEPT ![TargetSlot] = Erased]}
        /\ pc' = "Idle" /\ job' = NoJob /\ Fault
  /\ UNCHANGED <<lapsed, slot, device, running, file, updates>>

WriteEntry ==
  /\ pc = "WriteEntry"
  /\ \/ otadata' = [otadata EXCEPT ![TargetSlot] = [seq |-> NewSeq(Dest), state |-> "new"]]
        /\ pc' = "Restart" /\ NoFault /\ UNCHANGED job
     \/ pc' = "Idle" /\ job' = NoJob /\ Fault /\ UNCHANGED otadata
  /\ UNCHANGED <<lapsed, slot, device, running, file, updates>>

Restart ==
  /\ pc = "Restart" /\ pc' = "Boot" /\ job' = NoJob
  /\ NoFault /\ UNCHANGED <<lapsed, flash, device, running, file, updates>>

(* The power goes.  An entry that is being rewritten is lost: by the         *)
(* bootloader as it marks it, or by the confirmation.                        *)
Rewritten ==
  CASE pc = "Boot" -> {i \in Indices : Started(otadata)[i] # otadata[i]}
    [] pc = "Confirm" -> {i \in Indices : MarkedValid(otadata)[i] # otadata[i]}
    [] OTHER -> {}

PowerCut ==
  /\ pc # "Dead" /\ Fault /\ pc' = "Boot" /\ job' = NoJob
  /\ \/ UNCHANGED otadata
     \/ \E i \in Rewritten : otadata' = [otadata EXCEPT ![i] = Erased]
  /\ UNCHANGED <<lapsed, slot, device, running, file, updates>>

Update == FlashImage \/ FinishDownload \/ EraseEntry \/ WriteEntry \/ Restart
Start == Bootloader \/ MarkAppValid \/ CrashBeforeConfirm

Next ==
  \/ Bootloader \/ MarkAppValid \/ CrashBeforeConfirm
  \/ \E f \in Images \cup {NoImage} : SwapCard(f)
  \/ PickFirmware \/ Decline \/ ConfirmUpdate \/ RefuseUpdate \/ FlashImage
  \/ \E manifest, image \in Images : InstallUpdate(manifest, image)
  \/ FinishDownload \/ EraseEntry \/ WriteEntry \/ Restart
  \/ PowerCut

Spec == Init /\ [][Next]_vars

(* The device does what it does next; nobody has to start an update.         *)
FairSpec == Spec /\ WF_vars(Update) /\ WF_vars(Start)

-----------------------------------------------------------------------------
(* Properties                                                              *)

(* Wherever an update fails and whenever the power goes, the bootloader ends *)
(* with a whole image: the running one or the one that was checked.          *)
NeverBricked == pc # "Dead" /\ WouldRun # None

(* The entries are only rewritten after the slot: as long as confirmations   *)
(* succeed, what they select is whole and the bootloader never falls back.   *)
SelectedIsWhole == lapsed \/ Whole(slot[Selected])

(* An image that was selected and is not confirmed yet.                      *)
OnTrial ==
  LET trial == IF pc \in {"Boot", "Confirm"} THEN {"new", "pending"} ELSE {"pending"} IN
  \E i \in Indices : otadata[i].state \in trial

(* Nothing but its last write to otadata makes an update count: what would   *)
(* run next changes there, from the running image to the one the update      *)
(* holds, and by no failure, cut or start before or after.  Only an image on *)
(* trial can be left otherwise: by the bootloader's rollback, or by a cut in  *)
(* the middle of its confirmation, which rewrites the entry.                 *)
UpdateIsAtomic ==
  [][(WouldRun' # WouldRun /\ ~OnTrial /\ ~lapsed)
       => /\ pc = "WriteEntry" /\ WouldRun = running /\ WouldRun' = Dest
          /\ slot[Dest] = job.image]_vars

(* An update that reports success is what the next start runs: checked, and  *)
(* byte for byte what was chosen, whatever card is put in while the user is   *)
(* asked or the image is written.                                            *)
ReportedBoots ==
  pc = "Restart" => /\ WouldRun = Dest
                    /\ slot[Dest] = job.image /\ ValidateImageFile(job.image)
                    /\ job.via = "ota" /\ digest => job.image = job.manifest

(* Where the manifest carries a digest, an update over the network never     *)
(* takes the device back to an older release.                                *)
UpdatesOnlyMoveForward ==
  [][(pc = "WriteEntry" /\ pc' = "Restart" /\ job.via = "ota" /\ digest)
       => slot[WouldRun'].version > slot[running].version]_vars

(* With rollback an image that crashes before it is confirmed is given up    *)
(* for the one before: the device comes up again, unless an update was       *)
(* started over an image that could not be confirmed.                        *)
ComesUpAgain == (rollback /\ pc = "Boot") ~> (pc = "Idle" \/ lapsed)
=============================================================================
