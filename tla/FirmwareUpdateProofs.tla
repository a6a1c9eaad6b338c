------------------------ MODULE FirmwareUpdateProofs ------------------------
(***************************************************************************)
(* Proofs about FirmwareUpdate, for every set of versions and any number   *)
(* of updates and faults: the device never loses the image it can start    *)
(* (NeverBricked), otadata selects a whole one (SelectedIsWhole), and what *)
(* an update reports is what starts next (ReportedBoots).                  *)
(***************************************************************************)
EXTENDS FirmwareUpdate, TLAPS

Entries == [Indices -> [seq : Nat, state : States]]

Trial(e) == {i \in Indices : e[i].state \in {"new", "pending"}}

(* The entry, and the slot, that count when no image on trial does. *)
ValidActive(e) == Highest(e, {i \in Indices : e[i].state = "valid"})
SlotOfEntry(e, i) == IF i = None THEN 0 ELSE SlotOf(e[i].seq)
AppSlot(e) == SlotOfEntry(e, AppActive(e))
ValidSlot(e) == SlotOfEntry(e, ValidActive(e))

(* An image on trial was selected last, over everything that is confirmed.   *)
TrialIsLast(e) == \A i \in Trial(e) : AppActive(e) = i

Switching == {"Restart", "Boot", "Confirm"}

(* What the update under way has checked by now. *)
JobIsSound ==
  /\ pc = "Flash" => ValidateImageFile(job.image) /\ job.via = "sd"
  /\ pc = "Download" => job.image \in Images
  /\ pc \in {"EraseEntry", "WriteEntry", "Restart"} =>
       /\ slot[Dest] = job.image /\ ValidateImageFile(job.image)
       /\ (job.via = "ota" /\ digest) => job.image = job.manifest
  /\ pc \in Busy /\ job.via = "ota" => IsUpdateNewer(job.manifest)

(* As long as confirmations succeed. *)
EntriesAreSound ==
  /\ TrialIsLast(otadata)
  /\ pc \notin Switching => Trial(otadata) = {}
  /\ Whole(slot[ValidSlot(otadata)]) /\ Whole(slot[AppSlot(otadata)])
  /\ pc \notin {"Restart", "Boot"} => AppSlot(otadata) = running

IInv ==
  /\ TypeOK
  /\ pc # "Dead" /\ Whole(slot[running])
  /\ JobIsSound
  /\ pc = "Restart" => WouldRun = Dest
  /\ ~lapsed => EntriesAreSound
-----------------------------------------------------------------------------
(* The entries of otadata.                                                 *)

USE FirmwareAssumption
USE DEF Indices, Slots, None, States

LEMMA SlotOfIsSlot == ASSUME NEW n \in Int PROVE SlotOf(n) \in Slots
  BY DEF SlotOf

(* The next number stands for the other slot. *)
LEMMA SlotsAlternate ==
  ASSUME NEW n \in Nat PROVE SlotOf(n + 2) = SlotOf(n) /\ SlotOf(n + 1) = 1 - SlotOf(n)
  BY DEF SlotOf

(* Highest finds an entry that is usable, and the first of the highest.      *)
LEMMA HighestIs ==
  ASSUME NEW e \in Entries, NEW usable \in SUBSET Indices
  PROVE  /\ Highest(e, usable) = None <=> usable = {}
         /\ Highest(e, usable) \in usable \cup {None}
         /\ usable = {} \/ (\A i \in usable : e[i].seq <= e[Highest(e, usable)].seq)
<1>1. CASE usable = {}
  BY <1>1 DEF Highest
<1>2. CASE usable = {0}
  BY <1>2 DEF Highest, Entries
<1>3. CASE usable = {1}
  BY <1>3 DEF Highest, Entries
<1>4. CASE usable = {0, 1}
  BY <1>4 DEF Highest, Entries
<1> QED
  BY <1>1, <1>2, <1>3, <1>4

(* Leaving out others does not change which one that is.                     *)
LEMMA HighestOfFewer ==
  ASSUME NEW e \in Entries, NEW usable \in SUBSET Indices, NEW fewer \in SUBSET usable,
         Highest(e, usable) \in fewer
  PROVE  Highest(e, fewer) = Highest(e, usable)
<1>1. CASE usable = {0, 1}
  <2>1. fewer \in {{0}, {1}, {0, 1}}
    BY <1>1 DEF Highest, Entries
  <2> QED
    BY <1>1, <2>1 DEF Highest, Entries
<1>2. CASE usable # {0, 1}
  <2>1. fewer = usable
    BY <1>2 DEF Highest
  <2> QED
    BY <2>1
<1> QED
  BY <1>1, <1>2

LEMMA ActiveIs ==
  ASSUME NEW e \in Entries
  PROVE  /\ AppActive(e) \in Indices \cup {None}
         /\ BootActive(e) \in Indices \cup {None}
         /\ ValidActive(e) \in Indices \cup {None}
         /\ AppSlot(e) \in Slots /\ SelectedBy(e) \in Slots /\ ValidSlot(e) \in Slots
<1>1. /\ AppActive(e) \in Indices \cup {None}
      /\ BootActive(e) \in Indices \cup {None}
      /\ ValidActive(e) \in Indices \cup {None}
  BY DEF AppActive, BootActive, ValidActive, Highest
<1>2. \A i \in Indices : e[i].seq \in Nat
  BY DEF Entries
<1> QED
  BY <1>1, <1>2, SlotOfIsSlot DEF AppSlot, SelectedBy, ValidSlot, SlotOfEntry

(* With no image on trial all agree on the entry that counts.                *)
LEMMA NothingOnTrial ==
  ASSUME NEW e \in Entries, Trial(e) = {}
  PROVE  /\ AppActive(e) = ValidActive(e) /\ BootActive(e) = ValidActive(e)
         /\ AppSlot(e) = ValidSlot(e) /\ SelectedBy(e) = ValidSlot(e)
<1>1. \A i \in Indices : e[i].state \notin {"new", "pending"}
  BY DEF Trial
<1>2. AppActive(e) = ValidActive(e) /\ BootActive(e) = ValidActive(e)
  <2>1. {i \in Indices : e[i].state \in {"new", "pending", "valid"}}
          = {i \in Indices : e[i].state = "valid"}
    BY <1>1
  <2>2. {i \in Indices : \/ e[i].state \in {"new", "valid"}
                         \/ e[i].state = "pending" /\ ~rollback}
          = {i \in Indices : e[i].state = "valid"}
    BY <1>1
  <2> QED
    BY <2>1, <2>2 DEF AppActive, BootActive, ValidActive
<1> QED
  BY <1>2 DEF AppSlot, ValidSlot, SelectedBy, SlotOfEntry

(* The bootloader selects the image on trial, or what is confirmed.          *)
LEMMA SelectsOneOfTwo ==
  ASSUME NEW e \in Entries, TrialIsLast(e)
  PROVE  SelectedBy(e) \in {AppSlot(e), ValidSlot(e)}
<1> DEFINE app == {i \in Indices : e[i].state \in {"new", "pending", "valid"}}
           boot == {i \in Indices : \/ e[i].state \in {"new", "valid"}
                                    \/ e[i].state = "pending" /\ ~rollback}
           valid == {i \in Indices : e[i].state = "valid"}
<1>1. CASE AppActive(e) \in boot
  <2>1. Highest(e, boot) = Highest(e, app)
    BY <1>1, HighestOfFewer DEF AppActive
  <2> QED
    BY <2>1 DEF AppActive, BootActive, SelectedBy, AppSlot, SlotOfEntry
<1>2. CASE AppActive(e) \notin boot
  <2>1. boot = valid
    <3>1. ASSUME NEW i \in boot PROVE i \in valid
      <4>1. i \notin Trial(e)
        BY <1>2, <3>1 DEF TrialIsLast
      <4> QED
        BY <3>1, <4>1 DEF Trial
    <3> QED
      BY <3>1
  <2> QED
    BY <2>1 DEF BootActive, ValidActive, SelectedBy, ValidSlot, SlotOfEntry
<1> QED
  BY <1>1, <1>2

(* Highest looks at the numbers of the usable entries only.                  *)
LEMMA HighestDependsOn ==
  ASSUME NEW e \in Entries, NEW f \in Entries, NEW usable \in SUBSET Indices,
         \A i \in usable : f[i].seq = e[i].seq
  PROVE  Highest(f, usable) = Highest(e, usable)
  BY DEF Highest

USE DEF SlotOfEntry

(* What the bootloader writes back has the entry it starts on top, and loses *)
(* nothing that is confirmed.                                                *)
LEMMA StartedIs ==
  ASSUME NEW e \in Entries, TrialIsLast(e)
  PROVE  /\ Started(e) \in Entries /\ TrialIsLast(Started(e))
         /\ ValidSlot(Started(e)) = ValidSlot(e)
         /\ AppSlot(Started(e)) = SelectedBy(e)
<1>1. CASE ~rollback
  <2>1. Started(e) = e
    BY <1>1 DEF Started
  <2>2. BootActive(e) = AppActive(e)
    <3>1. {i \in Indices : \/ e[i].state \in {"new", "valid"}
                           \/ e[i].state = "pending" /\ ~rollback}
            = {i \in Indices : e[i].state \in {"new", "pending", "valid"}}
      BY <1>1
    <3> QED
      BY <3>1 DEF AppActive, BootActive
  <2> QED
    BY <2>1, <2>2 DEF AppSlot, SelectedBy
<1>2. CASE rollback
  <2> DEFINE f == Started(e)
  <2>1. /\ f \in Entries
        /\ \A i \in Indices : /\ f[i].seq = e[i].seq
                              /\ f[i].state = "valid" <=> e[i].state = "valid"
                              /\ f[i].state = "new" => e[i].state = "new"
                              /\ f[i].state = "pending" => e[i].state = "new"
                              /\ e[i].state = "new" => f[i].state \in {"new", "pending"}
    BY <1>2 DEF Started, Entries
  <2> HIDE DEF f
  <2>2. AppActive(f) = BootActive(e)
    <3>1. {i \in Indices : f[i].state \in {"new", "pending", "valid"}}
            = {i \in Indices : \/ e[i].state \in {"new", "valid"}
                               \/ e[i].state = "pending" /\ ~rollback}
      BY <1>2, <2>1
    <3> QED
      BY <2>1, <3>1, HighestDependsOn DEF AppActive, BootActive
  <2>3. ValidActive(f) = ValidActive(e)
    <3>1. {i \in Indices : f[i].state = "valid"} = {i \in Indices : e[i].state = "valid"}
      BY <2>1
    <3> QED
      BY <2>1, <3>1, HighestDependsOn DEF ValidActive
  <2>4. TrialIsLast(f)
    <3> SUFFICES ASSUME NEW i \in Trial(f) PROVE AppActive(f) = i
      BY DEF TrialIsLast
    <3>1. i \in Indices /\ e[i].state = "new"
      BY <2>1 DEF Trial
    <3>2. AppActive(e) = i
      BY <3>1 DEF TrialIsLast, Trial
    <3>3. BootActive(e) = i
      BY <3>1, <3>2, HighestOfFewer DEF AppActive, BootActive
    <3> QED
      BY <2>2, <3>3
  <2>5. AppSlot(f) = SelectedBy(e) /\ ValidSlot(f) = ValidSlot(e)
    BY <2>1, <2>2, <2>3, ActiveIs DEF AppSlot, SelectedBy, ValidSlot
  <2> QED
    BY <2>1, <2>4, <2>5 DEF f
<1> QED
  BY <1>1, <1>2

(* A confirmation ends the trial and changes nothing else.                   *)
LEMMA MarkedValidIs ==
  ASSUME NEW e \in Entries, TrialIsLast(e)
  PROVE  /\ MarkedValid(e) \in Entries /\ Trial(MarkedValid(e)) = {}
         /\ AppSlot(MarkedValid(e)) = AppSlot(e)
<1> DEFINE f == MarkedValid(e)
<1>1. /\ f \in Entries
      /\ \A i \in Indices : /\ f[i].seq = e[i].seq
                            /\ f[i].state = IF i = AppActive(e) THEN "valid" ELSE e[i].state
  BY DEF MarkedValid, Entries
<1> HIDE DEF f
<1>2. Trial(f) = {}
  BY <1>1 DEF Trial, TrialIsLast
<1>3. AppActive(f) = AppActive(e)
  <2>1. AppActive(e) \in Indices => e[AppActive(e)].state \in {"new", "pending", "valid"}
    BY HighestIs DEF AppActive
  <2> DEFINE app == {i \in Indices : e[i].state \in {"new", "pending", "valid"}}
  <2>2. {i \in Indices : f[i].state \in {"new", "pending", "valid"}} = app
    BY <1>1, <2>1
  <2>3. Highest(f, app) = Highest(e, app)
    BY <1>1, HighestDependsOn
  <2> QED
    BY <2>2, <2>3 DEF AppActive
<1> QED
  BY <1>1, <1>2, <1>3, ActiveIs DEF AppSlot, f

(* An entry on trial that is lost leaves what is confirmed.                  *)
LEMMA TrialLost ==
  ASSUME NEW e \in Entries, TrialIsLast(e), NEW k \in Trial(e)
  PROVE  LET f == [e EXCEPT ![k] = Erased]
         IN  f \in Entries /\ Trial(f) = {} /\ ValidSlot(f) = ValidSlot(e)
<1> DEFINE f == [e EXCEPT ![k] = Erased]
<1>0. k \in Indices /\ e[k].state \in {"new", "pending"}
  BY DEF Trial
<1>1. /\ f \in Entries /\ f[k].state = "erased"
      /\ \A i \in Indices \ {k} : f[i] = e[i]
  BY <1>0 DEF Entries, Erased
<1> HIDE DEF f
<1>2. Trial(f) = {}
  BY <1>0, <1>1 DEF Trial, TrialIsLast
<1> DEFINE valid == {i \in Indices : e[i].state = "valid"}
<1>3. {i \in Indices : f[i].state = "valid"} = valid
  BY <1>0, <1>1
<1>4. ValidActive(f) = ValidActive(e)
  <2>1. \A i \in valid : f[i].seq = e[i].seq
    BY <1>0, <1>1
  <2>2. Highest(f, valid) = Highest(e, valid)
    BY <1>1, <2>1, HighestDependsOn
  <2> QED
    BY <1>3, <2>2 DEF ValidActive
<1>5. ValidActive(e) \in valid \cup {None}
  BY HighestIs DEF ValidActive
<1>6. ValidActive(e) \in Indices => f[ValidActive(e)] = e[ValidActive(e)]
  BY <1>0, <1>1, <1>5
<1>7. ValidSlot(f) = ValidSlot(e)
  BY <1>4, <1>5, <1>6 DEF ValidSlot
<1> QED
  BY <1>1, <1>2, <1>7 DEF f

(* The entry that an update replaces is not the one that counts.             *)
LEMMA EntryErased ==
  ASSUME NEW e \in Entries, Trial(e) = {}, NEW k \in Indices, k # AppActive(e)
  PROVE  LET f == [e EXCEPT ![k] = Erased]
         IN  f \in Entries /\ Trial(f) = {} /\ AppSlot(f) = AppSlot(e)
<1> DEFINE f == [e EXCEPT ![k] = Erased]
           app == {i \in Indices : e[i].state \in {"new", "pending", "valid"}}
<1>1. /\ f \in Entries /\ f[k].state = "erased"
      /\ \A i \in Indices \ {k} : f[i] = e[i]
  BY DEF Entries, Erased
<1> HIDE DEF f
<1>2. Trial(f) = {}
  BY <1>1 DEF Trial
<1>3. {i \in Indices : f[i].state \in {"new", "pending", "valid"}} = app \ {k}
  BY <1>1
<1>4. AppActive(f) = AppActive(e)
  <2>1. Highest(f, app \ {k}) = Highest(e, app \ {k})
    BY <1>1, HighestDependsOn
  <2>2. AppActive(e) = Highest(e, app)
    BY DEF AppActive
  <2>3. AppActive(e) \in app \cup {None} /\ (AppActive(e) = None <=> app = {})
    BY <2>2, HighestIs
  <2>4. Highest(e, app \ {k}) = Highest(e, app)
    BY <2>2, <2>3, HighestOfFewer
  <2> QED
    BY <1>3, <2>1, <2>2, <2>4 DEF AppActive
<1>5. AppActive(e) \in Indices => f[AppActive(e)] = e[AppActive(e)]
  BY <1>1
<1>6. AppSlot(f) = AppSlot(e)
  BY <1>4, <1>5, ActiveIs DEF AppSlot
<1> QED
  BY <1>1, <1>2, <1>6 DEF f

(* The entry that is written counts more than every other, for the           *)
(* application and for the bootloader; what was confirmed stays.             *)
LEMMA EntryWritten ==
  ASSUME NEW e \in Entries, NEW k \in Indices, k # AppActive(e), NEW n \in Nat,
         AppActive(e) \in Indices => n > e[AppActive(e)].seq
  PROVE  LET f == [e EXCEPT ![k] = [seq |-> n, state |-> "new"]]
         IN  /\ f \in Entries
             /\ AppSlot(f) = SlotOf(n) /\ SelectedBy(f) = SlotOf(n)
             /\ Trial(e) = {} => TrialIsLast(f) /\ ValidSlot(f) = AppSlot(e)
<1> DEFINE f == [e EXCEPT ![k] = [seq |-> n, state |-> "new"]]
           app == {i \in Indices : e[i].state \in {"new", "pending", "valid"}}
           now == {i \in Indices : f[i].state \in {"new", "pending", "valid"}}
           boot == {i \in Indices : \/ f[i].state \in {"new", "valid"}
                                    \/ f[i].state = "pending" /\ ~rollback}
<1>1. /\ f \in Entries /\ f[k].state = "new" /\ f[k].seq = n
      /\ \A i \in Indices \ {k} : f[i] = e[i]
  BY DEF Entries
<1>2. f[0].seq \in Nat /\ f[1].seq \in Nat /\ e[0].seq \in Nat /\ e[1].seq \in Nat
  BY <1>1 DEF Entries
<1> HIDE DEF f
<1>3. AppActive(e) \in app \cup {None} /\ (AppActive(e) = None <=> app = {})
      /\ \A i \in app : e[i].seq <= e[AppActive(e)].seq
  BY HighestIs DEF AppActive
<1>4. k \in now /\ \A i \in now \ {k} : i \in app
  BY <1>1
<1>5. AppActive(f) = k
  <2>1. Highest(f, now) \in now /\ \A i \in now : f[i].seq <= f[Highest(f, now)].seq
    BY <1>1, <1>4, HighestIs
  <2>2. ASSUME NEW h \in now, h # k, f[k].seq <= f[h].seq PROVE FALSE
    <3>1. h \in app /\ f[h] = e[h]
      BY <1>1, <1>4, <2>2
    <3>2. e[h].seq <= e[AppActive(e)].seq /\ n > e[AppActive(e)].seq
      BY <1>3, <3>1
    <3>3. AppActive(e) \in Indices
      BY <1>3, <3>1
    <3> QED
      BY <1>1, <1>2, <2>2, <3>1, <3>2, <3>3
  <2>3. Highest(f, now) = k
    BY <1>4, <2>1, <2>2
  <2> QED
    BY <2>3 DEF AppActive
<1>6. BootActive(f) = k
  <2>1. Highest(f, now) = k
    BY <1>5 DEF AppActive
  <2>2. k \in boot /\ boot \in SUBSET now
    BY <1>1
  <2>3. Highest(f, boot) = k
    BY <1>1, <2>1, <2>2, HighestOfFewer
  <2> QED
    BY <2>3 DEF BootActive
<1>7. AppSlot(f) = SlotOf(n) /\ SelectedBy(f) = SlotOf(n)
  BY <1>1, <1>5, <1>6 DEF AppSlot, SelectedBy
<1>8. ASSUME Trial(e) = {} PROVE TrialIsLast(f) /\ ValidSlot(f) = AppSlot(e)
  <2>1. TrialIsLast(f)
    BY <1>1, <1>5, <1>8 DEF TrialIsLast, Trial
  <2> DEFINE valid == {i \in Indices : f[i].state = "valid"}
  <2>2. valid = app \ {k}
    BY <1>1, <1>8 DEF Trial
  <2>3. Highest(f, app \ {k}) = Highest(e, app \ {k})
    BY <1>1, HighestDependsOn
  <2>4. AppActive(e) = Highest(e, app)
    BY DEF AppActive
  <2>5. Highest(e, app \ {k}) = Highest(e, app)
    BY <1>3, <2>4, HighestOfFewer
  <2>6. ValidActive(f) = AppActive(e)
    BY <2>2, <2>3, <2>4, <2>5 DEF ValidActive
  <2>7. AppActive(e) \in Indices => f[AppActive(e)] = e[AppActive(e)]
    BY <1>1
  <2>8. ValidSlot(f) = AppSlot(e)
    BY <2>6, <2>7, ActiveIs DEF ValidSlot, AppSlot
  <2> QED
    BY <2>1, <2>8
<1> QED
  BY <1>1, <1>7, <1>8 DEF f

-----------------------------------------------------------------------------
(* The invariant holds at first.                                           *)

USE DEF flash, device, NoFault, Fault, NoJob, NoImage, Torn, Kinds, Images, Busy, Switching

LEMMA IndicesTyped == TypeOK => otadata \in Entries
  BY DEF TypeOK, Entries

LEMMA InitIInv == Init => IInv
<1> SUFFICES ASSUME Init PROVE IInv
  OBVIOUS
<1>1. otadata \in Entries /\ \A i \in Indices : otadata[i].state \in {"valid", "erased"}
  BY DEF Init, Entries, Erased
<1>2. TypeOK
  <2>1. slot \in [Slots -> Images \cup {Torn}] /\ running \in Slots
    BY DEF Init
  <2>2. updates \in 0..MaxUpdates /\ faults \in 0..MaxFaults
    BY DEF Init
  <2>4. rollback \in BOOLEAN /\ digest \in BOOLEAN
    BY DEF Init
  <2>5. lapsed \in BOOLEAN
    BY DEF Init
  <2>3. /\ pc \in {"Boot", "Confirm", "Idle", "Prompt", "Dead"} \cup Busy
        /\ file \in Images \cup {NoImage}
        /\ job \in [via : {"none", "sd", "ota"}, image : Images \cup {NoImage},
                    manifest : Images \cup {NoImage}]
    BY DEF Init
  <2> QED
    BY <1>1, <2>1, <2>2, <2>3, <2>4, <2>5 DEF TypeOK, Entries
<1>3. pc = "Idle" /\ Whole(slot[running])
  BY DEF Init, Whole
<1>4. JobIsSound
  BY <1>3 DEF JobIsSound
<1>5. EntriesAreSound
  <2>1. Trial(otadata) = {} /\ TrialIsLast(otadata)
    BY <1>1 DEF Trial, TrialIsLast
  <2>2. AppSlot(otadata) = running
    <3>1. CASE running = 0 /\ otadata = [i \in Indices |-> Erased]
      <4>1. AppActive(otadata) = None
        BY <3>1 DEF AppActive, Highest, Erased
      <4> QED
        BY <3>1, <4>1 DEF AppSlot
    <3>2. ASSUME NEW i \in Indices,
                 otadata = [j \in Indices |-> IF j = i
                              THEN [seq |-> running + 1, state |-> "valid"] ELSE Erased]
          PROVE  AppSlot(otadata) = running
      <4>1. otadata[i] = [seq |-> running + 1, state |-> "valid"]
            /\ \A j \in Indices \ {i} : otadata[j].state = "erased"
        BY <3>2 DEF Erased
      <4>2. {j \in Indices : otadata[j].state \in {"new", "pending", "valid"}} = {i}
        BY <4>1
      <4>3. AppActive(otadata) = i
        BY <4>2 DEF AppActive, Highest
      <4>4. running \in {0, 1}
        BY <1>2 DEF TypeOK
      <4>5. SlotOf(running + 1) = running
        BY <4>4 DEF SlotOf
      <4> QED
        BY <4>1, <4>3, <4>5 DEF AppSlot
    <3> QED
      BY <3>1, <3>2 DEF Init
  <2>3. ValidSlot(otadata) = running
    BY <1>1, <2>1, <2>2, NothingOnTrial
  <2> QED
    BY <1>3, <2>1, <2>2, <2>3 DEF EntriesAreSound
<1> QED
  BY <1>2, <1>3, <1>4, <1>5 DEF IInv

-----------------------------------------------------------------------------
(* Every action keeps it.                                                  *)

(* The running slot is whole, so there is something to start.                *)
LEMMA SomethingStarts ==
  ASSUME TypeOK, Whole(slot[running])
  PROVE  /\ WouldRun \in Slots /\ Whole(slot[WouldRun])
         /\ Whole(slot[Selected]) => WouldRun = Selected
<1>1. running \in Slots /\ Selected \in Slots
  BY IndicesTyped, ActiveIs DEF TypeOK, Selected
<1> QED
  BY <1>1 DEF WouldRun, StartedFrom, Selected

(* Outside a start nothing is on trial: every way to choose gives the        *)
(* running slot.                                                             *)
LEMMA RunningIsSelected ==
  ASSUME IInv, ~lapsed, pc \notin Switching
  PROVE  /\ Trial(otadata) = {}
         /\ AppSlot(otadata) = running /\ ValidSlot(otadata) = running
         /\ Selected = running
  BY IndicesTyped, NothingOnTrial DEF IInv, EntriesAreSound, Selected

(* The slot that is rewritten is the other one.                              *)
LEMMA DestIsOther == TypeOK => Dest \in Slots /\ Dest # running
  BY DEF TypeOK, Dest

(* Between starts the entries may stay as they are while the other slot      *)
(* changes.                                                                  *)
LEMMA EntriesStaySound ==
  ASSUME IInv, TypeOK', pc \notin Switching, pc' \notin {"Confirm"},
         otadata' = otadata, running' = running, slot'[running] = slot[running],
         lapsed' = lapsed
  PROVE  ~lapsed' => EntriesAreSound'
<1> SUFFICES ASSUME ~lapsed PROVE EntriesAreSound'
  OBVIOUS
<1>1. /\ Trial(otadata) = {}
      /\ AppSlot(otadata) = running /\ ValidSlot(otadata) = running
  BY RunningIsSelected
<1>2. TrialIsLast(otadata')
  BY <1>1 DEF TrialIsLast
<1>3. Whole(slot'[running])
  BY DEF IInv
<1> QED
  BY <1>1, <1>2, <1>3 DEF EntriesAreSound

-----------------------------------------------------------------------------
LEMMA BootloaderKeeps == ASSUME IInv, Bootloader PROVE IInv'
<1> USE DEF Bootloader
<1>1. WouldRun \in Slots /\ Whole(slot[WouldRun]) /\ (Whole(slot[Selected]) => WouldRun = Selected)
  BY SomethingStarts DEF IInv
<1>2. pc' = "Confirm" /\ running' = WouldRun
  BY <1>1
<1>3. otadata' \in Entries
  BY IndicesTyped DEF IInv, Started, Entries
<1>4. TypeOK'
  BY <1>1, <1>2, <1>3 DEF IInv, TypeOK, Entries
<1>5. JobIsSound'
  BY <1>2 DEF JobIsSound
<1>6. ASSUME ~lapsed PROVE EntriesAreSound'
  <2>1. /\ otadata \in Entries /\ TrialIsLast(otadata)
        /\ Whole(slot[ValidSlot(otadata)]) /\ Whole(slot[AppSlot(otadata)])
    BY <1>6, IndicesTyped DEF IInv, EntriesAreSound
  <2>2. Selected \in {AppSlot(otadata), ValidSlot(otadata)}
    BY <2>1, SelectsOneOfTwo DEF Selected
  <2>3. running' = Selected
    BY <1>1, <1>2, <2>1, <2>2
  <2>4. /\ TrialIsLast(otadata') /\ ValidSlot(otadata') = ValidSlot(otadata)
        /\ AppSlot(otadata') = Selected
    BY <2>1, StartedIs DEF Selected
  <2> QED
    BY <1>2, <2>1, <2>2, <2>3, <2>4 DEF EntriesAreSound
<1> QED
  BY <1>1, <1>2, <1>4, <1>5, <1>6 DEF IInv

LEMMA MarkAppValidKeeps == ASSUME IInv, MarkAppValid PROVE IInv'
<1> USE DEF MarkAppValid
<1>1. pc' = "Idle" /\ running' = running /\ slot' = slot
  OBVIOUS
<1>2. otadata' \in Entries
  BY IndicesTyped DEF IInv, MarkedValid, Entries
<1>3. TypeOK'
  <2>1. lapsed' \in BOOLEAN /\ faults' \in 0..MaxFaults
    <3>1. CASE NoFault /\ UNCHANGED lapsed
      BY <3>1 DEF IInv, TypeOK
    <3>2. CASE Fault /\ lapsed' = TRUE
      BY <3>2 DEF IInv, TypeOK
    <3> QED
      BY <3>1, <3>2
  <2> QED
    BY <1>1, <1>2, <2>1 DEF IInv, TypeOK, Entries
<1>4. JobIsSound'
  BY <1>1 DEF JobIsSound
<1>5. ASSUME ~lapsed' PROVE EntriesAreSound'
  <2>1. otadata' = MarkedValid(otadata) /\ ~lapsed
    BY <1>5
  <2>2. otadata \in Entries /\ TrialIsLast(otadata) /\ AppSlot(otadata) = running
    BY <2>1, IndicesTyped DEF IInv, EntriesAreSound
  <2>3. Trial(otadata') = {} /\ AppSlot(otadata') = running
    BY <2>1, <2>2, MarkedValidIs
  <2>4. ValidSlot(otadata') = running
    BY <1>2, <2>3, NothingOnTrial
  <2>5. Whole(slot'[running])
    BY <1>1 DEF IInv
  <2> QED
    BY <1>1, <2>3, <2>4, <2>5 DEF EntriesAreSound, TrialIsLast
<1> QED
  BY <1>1, <1>3, <1>4, <1>5 DEF IInv

LEMMA CrashKeeps == ASSUME IInv, CrashBeforeConfirm PROVE IInv'
<1> USE DEF CrashBeforeConfirm
<1>1. pc' = "Boot" /\ UNCHANGED <<slot, otadata, running, lapsed>>
  OBVIOUS
<1>2. TypeOK'
  <2>1. faults' \in 0..MaxFaults
    BY DEF IInv, TypeOK
  <2> QED
    BY <1>1, <2>1 DEF IInv, TypeOK
<1>3. JobIsSound'
  BY <1>1 DEF JobIsSound
<1>4. ~lapsed' => EntriesAreSound'
  BY <1>1 DEF IInv, EntriesAreSound
<1> QED
  BY <1>1, <1>2, <1>3, <1>4 DEF IInv

-----------------------------------------------------------------------------
LEMMA SwapCardKeeps == ASSUME IInv, NEW f \in Images \cup {NoImage}, SwapCard(f) PROVE IInv'
<1> USE DEF SwapCard
<1>1. TypeOK'
  BY DEF IInv, TypeOK
<1>2. JobIsSound'
  BY DEF IInv, JobIsSound
<1>3. ~lapsed' => EntriesAreSound'
  BY <1>1, EntriesStaySound DEF IInv
<1> QED
  BY <1>1, <1>2, <1>3 DEF IInv

LEMMA PromptKeeps == ASSUME IInv, PickFirmware \/ Decline \/ RefuseUpdate PROVE IInv'
<1> USE DEF PickFirmware, Decline, RefuseUpdate
<1>1. /\ pc \notin Switching /\ pc' \in {"Prompt", "Idle"}
      /\ UNCHANGED <<slot, otadata, running, lapsed>>
  OBVIOUS
<1>2. TypeOK'
  <2>1. updates' \in 0..MaxUpdates
    BY DEF IInv, TypeOK
  <2> QED
    BY <1>1, <2>1 DEF IInv, TypeOK
<1>3. JobIsSound'
  BY <1>1 DEF JobIsSound
<1>4. ~lapsed' => EntriesAreSound'
  BY <1>1, <1>2, EntriesStaySound
<1> QED
  BY <1>1, <1>2, <1>3, <1>4 DEF IInv

LEMMA ConfirmUpdateKeeps == ASSUME IInv, ConfirmUpdate PROVE IInv'
<1> USE DEF ConfirmUpdate
<1>0. Dest \in Slots /\ Dest # running
  BY DestIsOther DEF IInv
<1>1. /\ pc = "Prompt" /\ pc' = "Flash"
      /\ UNCHANGED <<otadata, running, lapsed>> /\ slot'[running] = slot[running]
  BY <1>0 DEF IInv, TypeOK
<1>2. TypeOK'
  <2>1. job' \in [via : {"none", "sd", "ota"}, image : Images \cup {NoImage},
                 manifest : Images \cup {NoImage}]
    BY DEF IInv, TypeOK
  <2> QED
    BY <1>1, <2>1 DEF IInv, TypeOK
<1>3. JobIsSound'
  BY <1>1 DEF JobIsSound, Revalidated, ValidateImageFile, Whole, ForDevice
<1>4. ~lapsed' => EntriesAreSound'
  BY <1>1, <1>2, EntriesStaySound
<1>5. Whole(slot'[running'])
  BY <1>1 DEF IInv
<1> QED
  BY <1>1, <1>2, <1>3, <1>4, <1>5 DEF IInv

LEMMA InstallUpdateKeeps ==
  ASSUME IInv, NEW manifest \in Images, NEW image \in Images, InstallUpdate(manifest, image)
  PROVE  IInv'
<1> USE DEF InstallUpdate
<1>0. Dest \in Slots /\ Dest # running
  BY DestIsOther DEF IInv
<1>1. /\ pc = "Idle" /\ pc' = "Download"
      /\ UNCHANGED <<otadata, running, lapsed>> /\ slot'[running] = slot[running]
  BY <1>0 DEF IInv, TypeOK
<1>2. TypeOK'
  <2>1. job' \in [via : {"none", "sd", "ota"}, image : Images \cup {NoImage},
                 manifest : Images \cup {NoImage}]
    BY DEF IInv, TypeOK
  <2>2. updates' \in 0..MaxUpdates
    BY DEF IInv, TypeOK
  <2> QED
    BY <1>1, <2>1, <2>2 DEF IInv, TypeOK
<1>3. JobIsSound'
  BY <1>1 DEF JobIsSound, IsUpdateNewer
<1>4. ~lapsed' => EntriesAreSound'
  BY <1>1, <1>2, EntriesStaySound
<1>5. Whole(slot'[running'])
  BY <1>1 DEF IInv
<1> QED
  BY <1>1, <1>2, <1>3, <1>4, <1>5 DEF IInv

LEMMA FlashImageKeeps == ASSUME IInv, FlashImage PROVE IInv'
<1> USE DEF FlashImage
<1>0. Dest \in Slots /\ Dest # running
  BY DestIsOther DEF IInv
<1>1. job.image \in Images /\ ValidateImageFile(job.image) /\ job.via = "sd"
  BY DEF IInv, JobIsSound, TypeOK, ValidateImageFile, Whole, ForDevice
<1>2. /\ pc = "Flash" /\ pc' \in {"EraseEntry", "Idle"}
      /\ UNCHANGED <<otadata, running, lapsed>> /\ slot'[running] = slot[running]
      /\ pc' = "EraseEntry" => job' = job /\ slot'[Dest] = job.image
  BY <1>0 DEF IInv, TypeOK
<1>3. TypeOK'
  <2>1. slot' \in [Slots -> Images \cup {Torn}]
    BY <1>0, <1>1 DEF IInv, TypeOK
  <2>2. faults' \in 0..MaxFaults
    BY DEF IInv, TypeOK
  <2>3. job' \in [via : {"none", "sd", "ota"}, image : Images \cup {NoImage},
                 manifest : Images \cup {NoImage}]
    BY DEF IInv, TypeOK
  <2> QED
    BY <1>2, <2>1, <2>2, <2>3 DEF IInv, TypeOK
<1>4. JobIsSound'
  <2>1. Dest' = Dest
    BY <1>2 DEF Dest
  <2> QED
    BY <1>1, <1>2, <2>1 DEF JobIsSound
<1>5. ~lapsed' => EntriesAreSound'
  BY <1>2, <1>3, EntriesStaySound
<1>6. Whole(slot'[running'])
  BY <1>2 DEF IInv
<1> QED
  BY <1>2, <1>3, <1>4, <1>5, <1>6 DEF IInv

LEMMA FinishDownloadKeeps == ASSUME IInv, FinishDownload PROVE IInv'
<1> USE DEF FinishDownload
<1>0. Dest \in Slots /\ Dest # running
  BY DestIsOther DEF IInv
<1>1. job.image \in Images
  BY DEF IInv, JobIsSound
<1>2. /\ pc = "Download" /\ pc' \in {"EraseEntry", "Idle"}
      /\ UNCHANGED <<otadata, running, lapsed, digest>> /\ slot'[running] = slot[running]
      /\ pc' = "EraseEntry" => Accepted /\ job' = job /\ slot'[Dest] = job.image
  BY <1>0 DEF IInv, TypeOK
<1>3. TypeOK'
  <2>1. slot' \in [Slots -> Images \cup {Torn}]
    BY <1>0, <1>1 DEF IInv, TypeOK
  <2>2. faults' \in 0..MaxFaults
    BY DEF IInv, TypeOK
  <2>3. job' \in [via : {"none", "sd", "ota"}, image : Images \cup {NoImage},
                 manifest : Images \cup {NoImage}]
    BY DEF IInv, TypeOK
  <2> QED
    BY <1>2, <2>1, <2>2, <2>3 DEF IInv, TypeOK
<1>4. JobIsSound'
  <2>1. Dest' = Dest
    BY <1>2 DEF Dest
  <2>2. job.via = "ota" => IsUpdateNewer(job.manifest)
    BY <1>2 DEF IInv, JobIsSound
  <2> QED
    BY <1>2, <2>1, <2>2 DEF JobIsSound, Accepted, ValidateImageFile, IsUpdateNewer
<1>5. ~lapsed' => EntriesAreSound'
  BY <1>2, <1>3, EntriesStaySound
<1>6. Whole(slot'[running'])
  BY <1>2 DEF IInv
<1> QED
  BY <1>2, <1>3, <1>4, <1>5, <1>6 DEF IInv

-----------------------------------------------------------------------------
(* otadata, the restart, and the power.                                    *)

LEMMA TargetIs == TypeOK => TargetSlot \in Indices /\ TargetSlot # AppActive(otadata)
  BY IndicesTyped, ActiveIs DEF TargetSlot

LEMMA NewSeqIs ==
  ASSUME TypeOK
  PROVE  /\ NewSeq(Dest) \in Nat /\ SlotOf(NewSeq(Dest)) = Dest
         /\ AppActive(otadata) \in Indices => NewSeq(Dest) > otadata[AppActive(otadata)].seq
<1>1. ActiveSeq \in Nat /\ (AppActive(otadata) \in Indices => ActiveSeq = otadata[AppActive(otadata)].seq)
  BY IndicesTyped, ActiveIs DEF ActiveSeq, Entries
<1>2. Dest \in {0, 1}
  BY DestIsOther
<1>3. SlotOf(ActiveSeq + 1) = Dest \/ SlotOf(ActiveSeq + 2) = Dest
  <2>1. SlotOf((ActiveSeq + 1) + 1) = 1 - SlotOf(ActiveSeq + 1) /\ SlotOf(ActiveSeq + 1) \in {0, 1}
    BY <1>1, SlotsAlternate, SlotOfIsSlot
  <2>2. (ActiveSeq + 1) + 1 = ActiveSeq + 2
    BY <1>1
  <2> QED
    BY <1>2, <2>1, <2>2
<1> QED
  BY <1>1, <1>3 DEF NewSeq

LEMMA EraseEntryKeeps == ASSUME IInv, EraseEntry PROVE IInv'
<1> USE DEF EraseEntry
<1>0. TargetSlot \in Indices /\ TargetSlot # AppActive(otadata) /\ otadata \in Entries
  BY TargetIs, IndicesTyped DEF IInv
<1>1. /\ pc = "EraseEntry" /\ pc' \in {"WriteEntry", "Idle"}
      /\ UNCHANGED <<slot, digest, running, lapsed>>
      /\ otadata' \in {otadata, [otadata EXCEPT ![TargetSlot] = Erased]}
      /\ pc' = "WriteEntry" => job' = job
  OBVIOUS
<1>2. TypeOK'
  <2>1. otadata' \in Entries
    BY <1>0, <1>1 DEF Entries, Erased
  <2>2. faults' \in 0..MaxFaults
    BY DEF IInv, TypeOK
  <2>3. job' \in [via : {"none", "sd", "ota"}, image : Images \cup {NoImage},
                 manifest : Images \cup {NoImage}]
    BY DEF IInv, TypeOK
  <2> QED
    BY <1>1, <2>1, <2>2, <2>3 DEF IInv, TypeOK, Entries
<1>3. JobIsSound'
  <2>1. Dest' = Dest
    BY <1>1 DEF Dest
  <2> QED
    BY <1>1, <2>1 DEF IInv, JobIsSound, IsUpdateNewer
<1>4. ASSUME ~lapsed' PROVE EntriesAreSound'
  <2>1. Trial(otadata) = {} /\ AppSlot(otadata) = running
    BY <1>1, <1>4, RunningIsSelected
  <2>2. Trial(otadata') = {} /\ AppSlot(otadata') = running
    BY <1>0, <1>1, <2>1, EntryErased
  <2>3. ValidSlot(otadata') = running
    BY <1>2, <2>2, NothingOnTrial DEF TypeOK, Entries
  <2>4. Whole(slot'[running])
    BY <1>1 DEF IInv
  <2> QED
    BY <1>1, <2>2, <2>3, <2>4 DEF EntriesAreSound, TrialIsLast
<1> QED
  BY <1>1, <1>2, <1>3, <1>4 DEF IInv

(* Once the entry is written, the new image is what starts.                  *)
LEMMA WrittenStarts ==
  ASSUME IInv, WriteEntry, pc' = "Restart"
  PROVE  WouldRun' = Dest /\ Dest' = Dest
<1> USE DEF WriteEntry
<1>1. SelectedBy(otadata') = Dest
  BY TargetIs, IndicesTyped, NewSeqIs, EntryWritten DEF IInv
<1>2. Whole(slot'[Dest]) /\ rollback' = rollback
  BY DEF IInv, JobIsSound, ValidateImageFile
<1>3. BootActive(otadata)' = BootActive(otadata')
  BY DEF BootActive
<1> QED
  BY <1>1, <1>2 DEF WouldRun, StartedFrom, SelectedBy, BootActive, Dest

LEMMA WriteEntryKeeps == ASSUME IInv, WriteEntry PROVE IInv'
<1> USE DEF WriteEntry
<1>0. /\ TargetSlot \in Indices /\ TargetSlot # AppActive(otadata) /\ otadata \in Entries
      /\ NewSeq(Dest) \in Nat /\ SlotOf(NewSeq(Dest)) = Dest
      /\ AppActive(otadata) \in Indices => NewSeq(Dest) > otadata[AppActive(otadata)].seq
  BY TargetIs, IndicesTyped, NewSeqIs DEF IInv
<1>1. /\ pc = "WriteEntry" /\ pc' \in {"Restart", "Idle"}
      /\ UNCHANGED <<slot, digest, running, lapsed>>
      /\ pc' = "Restart" =>
           /\ job' = job
           /\ otadata' = [otadata EXCEPT ![TargetSlot] = [seq |-> NewSeq(Dest), state |-> "new"]]
      /\ pc' = "Idle" => otadata' = otadata
  OBVIOUS
<1>2. TypeOK'
  <2>1. otadata' \in Entries
    BY <1>0, <1>1 DEF Entries
  <2>2. faults' \in 0..MaxFaults
    BY DEF IInv, TypeOK
  <2>3. job' \in [via : {"none", "sd", "ota"}, image : Images \cup {NoImage},
                 manifest : Images \cup {NoImage}]
    BY DEF IInv, TypeOK
  <2> QED
    BY <1>1, <2>1, <2>2, <2>3 DEF IInv, TypeOK, Entries
<1>3. JobIsSound'
  <2>1. Dest' = Dest
    BY <1>1 DEF Dest
  <2> QED
    BY <1>1, <2>1 DEF IInv, JobIsSound, IsUpdateNewer
<1>4. ASSUME ~lapsed', pc' = "Restart" PROVE EntriesAreSound'
  <2>1. Trial(otadata) = {} /\ AppSlot(otadata) = running
    BY <1>1, <1>4, RunningIsSelected
  <2>2. /\ TrialIsLast(otadata') /\ AppSlot(otadata') = Dest
        /\ ValidSlot(otadata') = running
    BY <1>0, <1>1, <1>4, <2>1, EntryWritten
  <2>3. Whole(slot'[running]) /\ Whole(slot'[Dest])
    BY <1>1 DEF IInv, JobIsSound, ValidateImageFile
  <2> QED
    BY <1>4, <2>2, <2>3 DEF EntriesAreSound
<1>5. ~lapsed' /\ pc' = "Idle" => EntriesAreSound'
  BY <1>1, <1>2, EntriesStaySound
<1>6. pc' = "Restart" => WouldRun' = Dest'
  BY WrittenStarts
<1> QED
  BY <1>1, <1>2, <1>3, <1>4, <1>5, <1>6 DEF IInv

LEMMA RestartKeeps == ASSUME IInv, Restart PROVE IInv'
<1> USE DEF Restart
<1>1. pc = "Restart" /\ pc' = "Boot" /\ UNCHANGED <<slot, otadata, running, lapsed>>
  OBVIOUS
<1>2. TypeOK'
  BY DEF IInv, TypeOK
<1>3. JobIsSound'
  BY <1>1 DEF JobIsSound
<1>4. ~lapsed' => EntriesAreSound'
  BY <1>1 DEF IInv, EntriesAreSound
<1> QED
  BY <1>1, <1>2, <1>3, <1>4 DEF IInv

(* What is rewritten at a start is an image on trial. *)
LEMMA RewrittenIsTrial ==
  ASSUME IInv, ~lapsed
  PROVE  Rewritten \in SUBSET Trial(otadata)
<1>0. otadata \in Entries
  BY IndicesTyped DEF IInv
<1>1. CASE pc = "Boot"
  <2>1. ASSUME NEW i \in Indices \ Trial(otadata) PROVE Started(otadata)[i] = otadata[i]
    BY <2>1 DEF Started, Trial
  <2> QED
    BY <1>1, <2>1 DEF Rewritten
<1>2. CASE pc = "Confirm"
  <2>1. ASSUME NEW i \in Indices \ Trial(otadata) PROVE MarkedValid(otadata)[i] = otadata[i]
    <3>1. CASE i # AppActive(otadata)
      BY <3>1 DEF MarkedValid
    <3>2. CASE i = AppActive(otadata)
      <4>1. otadata[i].state \in {"new", "pending", "valid"}
        BY <1>0, <3>2, HighestIs DEF AppActive
      <4>2. otadata[i].state = "valid" /\ otadata[i] \in [seq : Nat, state : States]
        BY <1>0, <2>1, <4>1 DEF Trial, Entries
      <4>3. [otadata[i] EXCEPT !.state = "valid"] = otadata[i]
        BY <4>2
      <4> QED
        BY <3>2, <4>3 DEF MarkedValid
    <3> QED
      BY <3>1, <3>2
  <2> QED
    BY <1>2, <2>1 DEF Rewritten
<1>3. CASE pc \notin {"Boot", "Confirm"}
  BY <1>3 DEF Rewritten
<1> QED
  BY <1>1, <1>2, <1>3

LEMMA PowerCutKeeps == ASSUME IInv, PowerCut PROVE IInv'
<1> USE DEF PowerCut
<1>0. otadata \in Entries /\ Rewritten \in SUBSET Indices
  BY IndicesTyped DEF IInv, Rewritten
<1>1. /\ pc' = "Boot" /\ UNCHANGED <<slot, running, lapsed>>
      /\ \/ otadata' = otadata
         \/ \E i \in Rewritten : otadata' = [otadata EXCEPT ![i] = Erased]
  OBVIOUS
<1>2. TypeOK'
  <2>1. otadata' \in Entries
    BY <1>0, <1>1 DEF Entries, Erased
  <2>2. faults' \in 0..MaxFaults
    BY DEF IInv, TypeOK
  <2> QED
    BY <1>1, <2>1, <2>2 DEF IInv, TypeOK, Entries
<1>3. JobIsSound'
  BY <1>1 DEF JobIsSound
<1>4. ASSUME ~lapsed' PROVE EntriesAreSound'
  <2>0. TrialIsLast(otadata) /\ Whole(slot[ValidSlot(otadata)]) /\ Whole(slot[AppSlot(otadata)])
    BY <1>1, <1>4 DEF IInv, EntriesAreSound
  <2>1. CASE otadata' = otadata
    BY <1>1, <2>0, <2>1 DEF EntriesAreSound
  <2>2. ASSUME NEW i \in Rewritten, otadata' = [otadata EXCEPT ![i] = Erased]
        PROVE  EntriesAreSound'
    <3>1. i \in Trial(otadata)
      BY <1>1, <1>4, RewrittenIsTrial
    <3>2. /\ otadata' \in Entries /\ Trial(otadata') = {}
          /\ ValidSlot(otadata') = ValidSlot(otadata)
      BY <1>0, <2>0, <2>2, <3>1, TrialLost
    <3>3. AppSlot(otadata') = ValidSlot(otadata)
      BY <3>2, NothingOnTrial
    <3> QED
      BY <1>1, <2>0, <3>2, <3>3 DEF EntriesAreSound, TrialIsLast
  <2> QED
    BY <1>1, <2>1, <2>2
<1> QED
  BY <1>1, <1>2, <1>3, <1>4 DEF IInv

LEMMA NextKeeps == IInv /\ [Next]_vars => IInv'
<1> SUFFICES ASSUME IInv, [Next]_vars PROVE IInv'
  OBVIOUS
<1>1. CASE UNCHANGED vars
  <2>1. TypeOK' /\ JobIsSound'
    BY <1>1 DEF vars, IInv, TypeOK, JobIsSound, Dest, IsUpdateNewer
  <2>2. WouldRun' = WouldRun /\ Dest' = Dest
    BY <1>1 DEF vars, WouldRun, StartedFrom, SelectedBy, BootActive, Dest
  <2>3. EntriesAreSound' = EntriesAreSound
    BY <1>1 DEF vars, EntriesAreSound
  <2> QED
    BY <1>1, <2>1, <2>2, <2>3 DEF IInv, vars
<1>2. ASSUME NEW f \in Images \cup {NoImage}, SwapCard(f) PROVE IInv'
  BY <1>2, SwapCardKeeps
<1>3. ASSUME NEW manifest \in Images, NEW image \in Images, InstallUpdate(manifest, image)
      PROVE  IInv'
  BY <1>3, InstallUpdateKeeps
<1> QED
  BY <1>1, <1>2, <1>3, BootloaderKeeps, MarkAppValidKeeps, CrashKeeps, PromptKeeps,
     ConfirmUpdateKeeps, FlashImageKeeps, FinishDownloadKeeps, EraseEntryKeeps,
     WriteEntryKeeps, RestartKeeps, PowerCutKeeps DEF Next

LEMMA Invariant == Spec => []IInv
<1>1. Init => IInv
  BY InitIInv
<1>2. IInv /\ [Next]_vars => IInv'
  BY NextKeeps
<1> QED
  BY <1>1, <1>2, PTL DEF Spec

-----------------------------------------------------------------------------
(* The entries, the slots and the update keep their types, for every number  *)
(* of updates and faults.                                                    *)
THEOREM TypeCorrect == Spec => []TypeOK
<1>1. IInv => TypeOK
  BY DEF IInv
<1> QED
  BY <1>1, Invariant, PTL

(* Whatever fails and whenever the power goes, in any number of updates, the *)
(* bootloader finds a whole image (NeverBricked).                            *)
THEOREM NeverBrickedHolds == Spec => []NeverBricked
<1>1. IInv => NeverBricked
  BY SomethingStarts DEF IInv, NeverBricked
<1> QED
  BY <1>1, Invariant, PTL

(* As long as confirmations succeed the slot that otadata selects is whole   *)
(* (SelectedIsWhole).                                                        *)
THEOREM SelectedIsWholeHolds == Spec => []SelectedIsWhole
<1>1. IInv => SelectedIsWhole
  <2> SUFFICES ASSUME IInv, ~lapsed PROVE Whole(slot[Selected])
    BY DEF SelectedIsWhole
  <2>1. /\ otadata \in Entries /\ TrialIsLast(otadata)
        /\ Whole(slot[ValidSlot(otadata)]) /\ Whole(slot[AppSlot(otadata)])
    BY IndicesTyped DEF IInv, EntriesAreSound
  <2> QED
    BY <2>1, SelectsOneOfTwo DEF Selected
<1> QED
  BY <1>1, Invariant, PTL

(* An update that reports success holds the image that was checked, and the  *)
(* next start runs it (ReportedBoots).                                       *)
THEOREM ReportedBootsHolds == Spec => []ReportedBoots
<1>1. IInv => ReportedBoots
  BY DEF IInv, JobIsSound, ReportedBoots
<1> QED
  BY <1>1, Invariant, PTL

(* With a digest in the manifest, an update over the network only moves      *)
(* forward (UpdatesOnlyMoveForward).                                         *)
THEOREM UpdatesOnlyMoveForwardHolds == Spec => UpdatesOnlyMoveForward
<1>1. ASSUME IInv, [Next]_vars, pc = "WriteEntry", pc' = "Restart", job.via = "ota", digest
      PROVE  slot[WouldRun'].version > slot[running].version
  <2>1. WriteEntry
    BY <1>1 DEF Next, vars, Bootloader, MarkAppValid, CrashBeforeConfirm, SwapCard, PickFirmware,
       Decline, ConfirmUpdate, RefuseUpdate, FlashImage, InstallUpdate, FinishDownload,
       EraseEntry, Restart, PowerCut
  <2>2. WouldRun' = Dest
    BY <1>1, <2>1, WrittenStarts
  <2>3. slot[Dest] = job.manifest /\ IsUpdateNewer(job.manifest)
    BY <1>1 DEF IInv, JobIsSound
  <2> QED
    BY <2>2, <2>3 DEF IsUpdateNewer
<1>2. IInv /\ [Next]_vars =>
        [(pc = "WriteEntry" /\ pc' = "Restart" /\ job.via = "ota" /\ digest)
           => slot[WouldRun'].version > slot[running].version]_vars
  BY <1>1
<1> QED
  BY <1>2, Invariant, PTL DEF Spec, UpdatesOnlyMoveForward

(* What would run changes with the last write of an update and at no other   *)
(* step, but for an image on trial (UpdateIsAtomic).                         *)
THEOREM UpdateIsAtomicHolds == Spec => UpdateIsAtomic
<1> DEFINE Switched == /\ pc = "WriteEntry" /\ WouldRun = running /\ WouldRun' = Dest
                       /\ slot[Dest] = job.image
<1>1. ASSUME IInv, [Next]_vars, WouldRun' # WouldRun, ~OnTrial, ~lapsed
      PROVE  Switched
  <2>0. /\ otadata \in Entries /\ TypeOK /\ Dest \in Slots /\ Dest # running
        /\ WouldRun \in Slots /\ EntriesAreSound
    BY <1>1, IndicesTyped, SomethingStarts, DestIsOther DEF IInv
  <2>1. ASSUME otadata' = otadata, slot' = slot, rollback' = rollback PROVE FALSE
    BY <1>1, <2>1 DEF WouldRun, StartedFrom, SelectedBy, BootActive
  <2>2. ASSUME pc \notin Switching PROVE WouldRun = running
    BY <1>1, <2>2, RunningIsSelected, SomethingStarts DEF IInv
  <2>3. ASSUME pc \notin Switching, otadata' = otadata, rollback' = rollback,
               slot'[running] = slot[running]
        PROVE  FALSE
    <3>1. Selected' = Selected /\ Selected = running
      BY <1>1, <2>3, RunningIsSelected DEF Selected, SelectedBy, BootActive
    <3>2. Whole(slot'[running])
      BY <1>1, <2>3 DEF IInv
    <3>3. WouldRun' = running
      BY <3>1, <3>2 DEF WouldRun, StartedFrom, Selected
    <3> QED
      BY <1>1, <2>2, <2>3, <3>3
  <2>4. CASE Bootloader \/ MarkAppValid \/ PowerCut
    <3>1. ASSUME pc \in {"Boot", "Confirm"} PROVE Trial(otadata) = {}
      BY <1>1, <3>1 DEF OnTrial, Trial
    <3>2. ASSUME Bootloader PROVE FALSE
      <4>1. Started(otadata) = otadata
        BY <2>0, <3>1, <3>2 DEF Bootloader, Started, Trial, Entries
      <4> QED
        BY <2>1, <3>2, <4>1 DEF Bootloader
    <3>3. ASSUME MarkAppValid PROVE FALSE
      <4>1. pc = "Confirm" /\ Trial(otadata) = {} /\ AppSlot(otadata) = running
        BY <2>0, <3>1, <3>3 DEF MarkAppValid, EntriesAreSound
      <4>2. Selected = running
        BY <2>0, <4>1, NothingOnTrial DEF Selected
      <4>3. otadata' # otadata => otadata' = MarkedValid(otadata)
        BY <3>3 DEF MarkAppValid
      <4>4. SelectedBy(MarkedValid(otadata)) = running
        BY <2>0, <4>1, MarkedValidIs, NothingOnTrial DEF EntriesAreSound
      <4>5. slot' = slot /\ rollback' = rollback
        BY <3>3 DEF MarkAppValid
      <4>6. Selected' = running
        <5>1. CASE otadata' = otadata
          BY <4>2, <4>5, <5>1 DEF Selected, SelectedBy, BootActive
        <5>2. CASE otadata' = MarkedValid(otadata)
          BY <4>4, <4>5, <5>2 DEF Selected, SelectedBy, BootActive
        <5> QED
          BY <4>3, <5>1, <5>2
      <4>7. Whole(slot[running])
        BY <1>1 DEF IInv
      <4> QED
        BY <1>1, <4>2, <4>5, <4>6, <4>7 DEF WouldRun, StartedFrom, Selected
    <3>4. ASSUME PowerCut PROVE FALSE
      <4>1. Rewritten = {}
        BY <1>1, <3>1, RewrittenIsTrial DEF Rewritten
      <4> QED
        BY <2>1, <3>4, <4>1 DEF PowerCut
    <3> QED
      BY <2>4, <3>2, <3>3, <3>4
  <2>5. CASE ConfirmUpdate \/ FlashImage \/ FinishDownload
             \/ \E manifest, image \in Images : InstallUpdate(manifest, image)
    BY <2>0, <2>3, <2>5 DEF ConfirmUpdate, FlashImage, FinishDownload, InstallUpdate, TypeOK
  <2>6. CASE EraseEntry
    <3>1. Trial(otadata) = {} /\ AppSlot(otadata) = running /\ Selected = running
      BY <1>1, <2>6, RunningIsSelected DEF EraseEntry
    <3>2. otadata' # otadata => otadata' = [otadata EXCEPT ![TargetSlot] = Erased]
      BY <2>6 DEF EraseEntry
    <3>3. SelectedBy([otadata EXCEPT ![TargetSlot] = Erased]) = running
      BY <2>0, <3>1, TargetIs, EntryErased, NothingOnTrial
    <3>4. slot' = slot /\ rollback' = rollback
      BY <2>6 DEF EraseEntry
    <3>5. Selected' = running
      <4>1. CASE otadata' = otadata
        BY <3>1, <3>4, <4>1 DEF Selected, SelectedBy, BootActive
      <4>2. CASE otadata' = [otadata EXCEPT ![TargetSlot] = Erased]
        BY <3>3, <3>4, <4>2 DEF Selected, SelectedBy, BootActive
      <4> QED
        BY <3>2, <4>1, <4>2
    <3>6. Whole(slot[running])
      BY <1>1 DEF IInv
    <3> QED
      BY <1>1, <3>1, <3>4, <3>5, <3>6 DEF WouldRun, StartedFrom, Selected
  <2>7. CASE WriteEntry
    <3>1. pc = "WriteEntry" /\ slot[Dest] = job.image
      BY <1>1, <2>7 DEF WriteEntry, IInv, JobIsSound
    <3>2. pc' = "Restart"
      BY <2>1, <2>7 DEF WriteEntry
    <3> QED
      BY <1>1, <2>2, <2>7, <3>1, <3>2, WrittenStarts
  <2>8. CASE UNCHANGED vars \/ CrashBeforeConfirm \/ PickFirmware \/ Decline \/ RefuseUpdate
             \/ Restart \/ \E f \in Images \cup {NoImage} : SwapCard(f)
    BY <2>1, <2>8 DEF vars, CrashBeforeConfirm, PickFirmware, Decline, RefuseUpdate, Restart, SwapCard
  <2> QED
    BY <1>1, <2>4, <2>5, <2>6, <2>7, <2>8 DEF Next
<1>2. IInv /\ [Next]_vars =>
        [(WouldRun' # WouldRun /\ ~OnTrial /\ ~lapsed) => Switched]_vars
  BY <1>1
<1> QED
  BY <1>2, Invariant, PTL DEF Spec, UpdateIsAtomic
=============================================================================
