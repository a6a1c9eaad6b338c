-------------------------- MODULE CardStorageProofs --------------------------
(***************************************************************************)
(* Proofs about what is stored on the card.                                *)
(*                                                                         *)
(* ReadingStatsStore, for every set of books and every number of failures  *)
(* and power cuts: what an operation does to the card and the memory, one  *)
(* lemma for each, then the types, the survival of what was saved, that    *)
(* what was reset or removed stays away, and that a suspended store leaves *)
(* its main file alone.                                                    *)
(*                                                                         *)
(* FileReplacement, for every set of values: a file is not torn unless a   *)
(* close failed unnoticed, what was reported saved is what a start loads,  *)
(* and what a start would load moves only to the value being saved.        *)
(***************************************************************************)
EXTENDS FileReplacement, ReadingStatsStore, TLAPS

-----------------------------------------------------------------------------
(* Runs, and what an operation on the card does to one.                    *)

FileContents == [is : {"absent", "torn", "whole"}, stats : Stats]
Disks == [Files -> FileContents]
Stores == [stats : Stats, dirty : BOOLEAN, suspended : BOOLEAN, prepared : BOOLEAN]
Runs == {r \in [disk : Disks, store : Stores, failures : 0 .. MaxFailures, ok : BOOLEAN,
                saved : BOOLEAN, trail : SUBSET Disks] : r.disk \in r.trail}

(* y goes on from r: the card and the failures may differ, or also the     *)
(* preparation of the backup.                                              *)
Carries(r, y) ==
  /\ y \in Runs /\ y.store = r.store /\ y.saved = r.saved /\ y.failures <= r.failures

KeepsStore(r, y) ==
  /\ y \in Runs /\ y.failures <= r.failures /\ y.saved = r.saved
  /\ y.store.stats = r.store.stats /\ y.store.dirty = r.store.dirty
  /\ y.store.suspended = r.store.suspended

(* What a write of the file may leave when it is cut. *)
Cut(file) == {CutShort(s) : s \in {None, file.stats}}

Elsewhere(d, e, F) == \A f \in Files \ F : d[f] = e[f]

(* Where copyFileViaTemp() passes. *)
CopyPlace(r, from, to, d) ==
  /\ Elsewhere(d, r.disk, {to, Temp[to]})
  /\ d[Temp[to]] \in {r.disk[Temp[to]], NoFile, r.disk[from]} \cup Cut(r.disk[from])
  /\ \/ d[to] = r.disk[to]
     \/ d[to] = NoFile /\ d[Temp[to]] = r.disk[from]
     \/ d[to] = r.disk[from]
     \/ d[to] = NoFile /\ "rename" \in FaultKinds

USE StoreAssumption

LEMMA ContentsAre ==
  /\ None \in Stats /\ NoFile \in FileContents
  /\ \A s \in Stats : CutShort(s) \in FileContents /\ Whole(s) \in FileContents
                      /\ CutShort(s).stats = s /\ Whole(s).stats = s
                      /\ CutShort(s).is = "torn" /\ Whole(s).is = "whole"
  /\ NoFile.is = "absent" /\ NoFile.stats = None
<1>1. None \in Stats
  BY DEF None, Stats
<1> QED
  BY <1>1 DEF NoFile, FileContents, CutShort, Whole

LEMMA PutIs ==
  ASSUME NEW r \in Runs, NEW f \in Files, NEW c \in FileContents
  PROVE  /\ Put(r, f, c) \in Runs
         /\ Put(r, f, c).disk = [r.disk EXCEPT ![f] = c]
         /\ Put(r, f, c).trail = r.trail \cup {[r.disk EXCEPT ![f] = c]}
         /\ Put(r, f, c).failures = r.failures /\ Carries(r, Put(r, f, c)) /\ Put(r, f, c).ok
<1>1. [r.disk EXCEPT ![f] = c] \in Disks
  BY DEF Runs, Disks
<1> DEFINE d == [r.disk EXCEPT ![f] = c]
<1>2. Put(r, f, c) = [r EXCEPT !.disk = d, !.trail = r.trail \cup {d}, !.ok = TRUE]
  BY DEF Put
<1> HIDE DEF d
<1>3. d \in Disks
  BY <1>1 DEF d
<1>4. r.trail \cup {d} \in SUBSET Disks
  BY <1>3 DEF Runs
<1>5. TRUE \in BOOLEAN
  OBVIOUS
<1>6. r.failures \in Nat
  BY DEF Runs
<1>7. /\ Put(r, f, c) \in Runs /\ Put(r, f, c).disk = d /\ Put(r, f, c).trail = r.trail \cup {d}
      /\ Put(r, f, c).store = r.store /\ Put(r, f, c).failures = r.failures
      /\ Put(r, f, c).saved = r.saved /\ Put(r, f, c).ok = TRUE
  BY <1>2, <1>3, <1>4, <1>5 DEF Runs
<1>8. Carries(r, Put(r, f, c))
  BY <1>6, <1>7 DEF Carries
<1> QED
  BY <1>7, <1>8 DEF d

LEMMA CarriesOn ==
  ASSUME NEW r \in Runs, NEW y, NEW z, Carries(r, y), Carries(y, z)
  PROVE  Carries(r, z)
<1>1. r.failures \in Nat /\ y.failures \in Nat /\ z.failures \in Nat
  BY DEF Carries, Runs
<1> QED
  BY <1>1 DEF Carries

LEMMA DoneIs ==
  ASSUME NEW r \in Runs
  PROVE  /\ Carries(r, r)
         /\ \A y \in Done(r) : Carries(r, y) /\ y.ok /\ y.disk = r.disk /\ y.trail = r.trail
         /\ \A y \in Failed(r) : Carries(r, y) /\ ~y.ok /\ y.disk = r.disk /\ y.trail = r.trail
<1>1. r.failures \in Nat
  BY DEF Runs
<1>2. TRUE \in BOOLEAN /\ FALSE \in BOOLEAN
  OBVIOUS
<1>3. ASSUME NEW v \in BOOLEAN, NEW y, y = [r EXCEPT !.ok = v]
      PROVE  Carries(r, y) /\ y.ok = v /\ y.disk = r.disk /\ y.trail = r.trail
  BY <1>1, <1>3 DEF Carries, Runs
<1>4. Carries(r, r)
  BY <1>1 DEF Carries
<1>5. \A y \in Done(r) : Carries(r, y) /\ y.ok = TRUE /\ y.disk = r.disk /\ y.trail = r.trail
  BY <1>2, <1>3 DEF Done
<1>6. \A y \in Failed(r) : Carries(r, y) /\ y.ok = FALSE /\ y.disk = r.disk /\ y.trail = r.trail
  BY <1>2, <1>3 DEF Failed
<1> QED
  BY <1>4, <1>5, <1>6

LEMMA FailedByIs ==
  ASSUME NEW r \in Runs, NEW fault, NEW y \in FailedBy(r, fault)
  PROVE  /\ Carries(r, y) /\ ~y.ok /\ y.disk = r.disk /\ y.trail = r.trail
         /\ fault \in FaultKinds /\ r.failures > 0
<1>1. CanFail(r, fault) /\ y = [r EXCEPT !.ok = FALSE, !.failures = r.failures - 1]
  BY DEF FailedBy
<1>2. fault \in FaultKinds /\ r.failures > 0
  BY <1>1 DEF CanFail
<1>3. r.failures \in 0 .. MaxFailures
  BY DEF Runs
<1> DEFINE n == r.failures - 1
<1>4. n \in 0 .. MaxFailures /\ n <= r.failures
  BY <1>2, <1>3
<1>5. y = [r EXCEPT !.ok = FALSE, !.failures = n] /\ FALSE \in BOOLEAN
  BY <1>1
<1> HIDE DEF n
<1>6. y \in Runs /\ y.disk = r.disk /\ y.store = r.store /\ y.saved = r.saved /\ y.trail = r.trail
      /\ y.ok = FALSE /\ y.failures = n
  BY <1>4, <1>5 DEF Runs
<1> QED
  BY <1>2, <1>4, <1>6 DEF Carries

LEMMA RemoveIs ==
  ASSUME NEW r \in Runs, NEW f \in Files
  PROVE  /\ Remove(r, f) # {}
         /\ \A y \in Remove(r, f) :
              /\ Carries(r, y) /\ y.trail \subseteq r.trail \cup {y.disk}
              /\ \/ y.ok /\ y.disk = [r.disk EXCEPT ![f] = NoFile]
                 \/ ~y.ok /\ y.disk = r.disk /\ "remove" \in FaultKinds /\ r.disk[f] # NoFile
<1>1. CASE r.disk[f] = NoFile
  <2>1. Remove(r, f) = Done(r)
    BY <1>1 DEF Remove
  <2>2. [r.disk EXCEPT ![f] = NoFile] = r.disk
    BY <1>1 DEF Runs, Disks
  <2>3. Done(r) # {}
    BY DEF Done
  <2> QED
    BY <2>1, <2>2, <2>3, DoneIs
<1>2. CASE r.disk[f] # NoFile
  <2>1. Remove(r, f) = {Put(r, f, NoFile)} \cup FailedBy(r, "remove")
    BY <1>2 DEF Remove
  <2>2. ASSUME NEW y \in FailedBy(r, "remove")
        PROVE  /\ Carries(r, y) /\ y.trail \subseteq r.trail \cup {y.disk}
               /\ ~y.ok /\ y.disk = r.disk /\ "remove" \in FaultKinds
    BY FailedByIs
  <2>3. /\ Carries(r, Put(r, f, NoFile)) /\ Put(r, f, NoFile).ok
        /\ Put(r, f, NoFile).disk = [r.disk EXCEPT ![f] = NoFile]
        /\ Put(r, f, NoFile).trail \subseteq r.trail \cup {Put(r, f, NoFile).disk}
    BY PutIs, ContentsAre
  <2> QED
    BY <1>2, <2>1, <2>2, <2>3
<1> QED
  BY <1>1, <1>2

Renamed(r, f, g, y) ==
  /\ Carries(r, y) /\ y.trail \subseteq r.trail \cup {y.disk}
  /\ \/ /\ y.ok /\ y.disk = [r.disk EXCEPT ![g] = r.disk[f], ![f] = NoFile]
        /\ r.disk[g] = NoFile /\ r.disk[f] # NoFile
     \/ ~y.ok /\ y.disk = r.disk /\ (r.disk[g] # NoFile \/ r.disk[f] = NoFile)
     \/ ~y.ok /\ y.disk = r.disk /\ "rename" \in FaultKinds

LEMMA RenameIs ==
  ASSUME NEW r \in Runs, NEW f \in Files, NEW g \in Files, f # g
  PROVE  Rename(r, f, g) # {} /\ \A y \in Rename(r, f, g) : Renamed(r, f, g, y)
<1>1. CASE r.disk[g] # NoFile \/ r.disk[f] = NoFile
  <2>1. Rename(r, f, g) = Failed(r) /\ Failed(r) # {}
    BY <1>1 DEF Rename, Failed
  <2> QED
    BY <1>1, <2>1, DoneIs DEF Renamed
<1>2. CASE r.disk[g] = NoFile /\ r.disk[f] # NoFile
  <2> DEFINE d == [r.disk EXCEPT ![g] = r.disk[f], ![f] = NoFile]
             z == [r EXCEPT !.disk = d, !.trail = r.trail \cup {d}, !.ok = TRUE]
  <2>1. d \in Disks /\ TRUE \in BOOLEAN /\ r.failures \in Nat
    BY ContentsAre DEF Runs, Disks
  <2>2. Rename(r, f, g) = {z} \cup FailedBy(r, "rename")
    BY <1>2 DEF Rename
  <2>3. z.disk = d /\ z.ok /\ Carries(r, z) /\ z.trail = r.trail \cup {z.disk}
    <3>1. z = [r EXCEPT !.disk = d, !.trail = r.trail \cup {d}, !.ok = TRUE]
      OBVIOUS
    <3> HIDE DEF d, z
    <3>2. r.trail \cup {d} \in SUBSET Disks
      BY <2>1 DEF Runs
    <3>3. z \in Runs /\ z.disk = d /\ z.ok = TRUE /\ z.trail = r.trail \cup {d}
          /\ z.store = r.store /\ z.saved = r.saved /\ z.failures = r.failures
      BY <2>1, <3>1, <3>2 DEF Runs
    <3> QED
      BY <2>1, <3>3 DEF Carries
  <2>4. ASSUME NEW y \in FailedBy(r, "rename")
        PROVE  /\ Carries(r, y) /\ y.trail \subseteq r.trail \cup {y.disk}
               /\ ~y.ok /\ y.disk = r.disk /\ "rename" \in FaultKinds
    BY FailedByIs
  <2> HIDE DEF z
  <2> QED
    BY <1>2, <2>2, <2>3, <2>4 DEF Renamed
<1> QED
  BY <1>1, <1>2

Writes(r, f, c, y) ==
  /\ Carries(r, y)
  /\ \A d \in y.trail : d \in r.trail
       \/ \E x \in Cut(c) \cup {c} : d = [r.disk EXCEPT ![f] = x]
  /\ \/ y.ok /\ y.disk = [r.disk EXCEPT ![f] = c]
     \/ /\ ~y.ok /\ "write" \in FaultKinds /\ r.failures > 0
        /\ \E x \in Cut(c) : y.disk = [r.disk EXCEPT ![f] = x]

LEMMA WriteIs ==
  ASSUME NEW r \in Runs, NEW f \in Files, NEW c \in FileContents
  PROVE  WriteFile(r, f, c) # {} /\ \A y \in WriteFile(r, f, c) : Writes(r, f, c, y)
<1>0. r.disk \in r.trail /\ r.trail \subseteq Disks
  BY DEF Runs
<1>1. Cut(c) \subseteq FileContents
  BY ContentsAre DEF Cut, FileContents
<1> DEFINE cut == {Put(r, f, x) : x \in Cut(c)}
           through == [r EXCEPT !.trail = UNION {z.trail : z \in cut}]
<1>2. ASSUME NEW z \in cut
      PROVE  /\ Carries(r, z) /\ z.failures = r.failures
             /\ \E x \in Cut(c) : /\ z.disk = [r.disk EXCEPT ![f] = x]
                                  /\ z.trail = r.trail \cup {[r.disk EXCEPT ![f] = x]}
  <2>1. PICK x \in Cut(c) : z = Put(r, f, x)
    OBVIOUS
  <2>2. x \in FileContents
    BY <1>1, <2>1
  <2>3. /\ z.disk = [r.disk EXCEPT ![f] = x] /\ z.trail = r.trail \cup {[r.disk EXCEPT ![f] = x]}
        /\ Carries(r, z) /\ z.failures = r.failures
    BY <2>1, <2>2, PutIs
  <2> HIDE DEF cut
  <2> QED
    BY <2>1, <2>3
<1>3. WriteFile(r, f, c) = {Put(through, f, c)} \cup UNION {FailedBy(z, "write") : z \in cut}
  <2>1. cut = {Put(r, f, CutShort(s)) : s \in {None, c.stats}}
    BY DEF Cut
  <2> HIDE DEF cut
  <2> QED
    BY <2>1 DEF WriteFile
<1>4. cut # {}
  BY DEF Cut
<1>5. through = [r EXCEPT !.trail = UNION {z.trail : z \in cut}]
  OBVIOUS
<1> HIDE DEF cut, through
<1>6. UNION {z.trail : z \in cut} \in SUBSET Disks
  <2>1. \A z \in cut : z.trail \subseteq Disks
    BY <1>2 DEF Runs, Carries
  <2> QED
    BY <2>1
<1>7. r.disk \in UNION {z.trail : z \in cut}
  <2>1. PICK z \in cut : TRUE
    BY <1>4
  <2>2. r.disk \in z.trail
    BY <1>0, <1>2
  <2> QED
    BY <2>2
<1>8. through \in Runs /\ through.disk = r.disk /\ through.store = r.store
      /\ through.saved = r.saved /\ through.failures = r.failures
      /\ through.trail = UNION {z.trail : z \in cut}
  BY <1>5, <1>6, <1>7 DEF Runs
<1>9. Carries(r, through)
  <2>1. r.failures \in Nat
    BY DEF Runs
  <2> QED
    BY <1>8, <2>1 DEF Carries
<1>10. ASSUME NEW y, y = Put(through, f, c)
       PROVE  /\ Carries(r, y) /\ y.ok /\ y.disk = [r.disk EXCEPT ![f] = c]
              /\ \A d \in y.trail : d \in r.trail
                   \/ \E x \in Cut(c) \cup {c} : d = [r.disk EXCEPT ![f] = x]
  <2>1. Carries(through, y) /\ y.ok /\ y.disk = [r.disk EXCEPT ![f] = c]
        /\ y.trail = through.trail \cup {[r.disk EXCEPT ![f] = c]}
    BY <1>8, <1>10, PutIs
  <2>2. ASSUME NEW d \in through.trail
        PROVE  d \in r.trail \/ \E x \in Cut(c) : d = [r.disk EXCEPT ![f] = x]
    <3>1. PICK z \in cut : d \in z.trail
      BY <1>8
    <3> QED
      BY <1>2, <3>1
  <2>3. Carries(r, y)
    BY <1>9, <2>1, CarriesOn
  <2> QED
    BY <2>1, <2>2, <2>3
<1>11. ASSUME NEW z \in cut, NEW y \in FailedBy(z, "write")
       PROVE  /\ Carries(r, y) /\ ~y.ok /\ "write" \in FaultKinds /\ r.failures > 0
              /\ \E x \in Cut(c) : y.disk = [r.disk EXCEPT ![f] = x]
              /\ \A d \in y.trail : d \in r.trail
                   \/ \E x \in Cut(c) \cup {c} : d = [r.disk EXCEPT ![f] = x]
  <2>1. Carries(r, z) /\ z \in Runs /\ z.failures = r.failures
    BY <1>2 DEF Carries
  <2>2. /\ Carries(z, y) /\ ~y.ok /\ y.disk = z.disk /\ y.trail = z.trail
        /\ "write" \in FaultKinds /\ z.failures > 0
    BY <2>1, FailedByIs
  <2>3. Carries(r, y)
    BY <2>1, <2>2, CarriesOn
  <2> QED
    BY <1>2, <2>1, <2>2, <2>3
<1> QED
  <2>1. ASSUME NEW y \in WriteFile(r, f, c)
        PROVE  Writes(r, f, c, y)
    <3>1. CASE y = Put(through, f, c)
      BY <1>10, <3>1 DEF Writes
    <3>2. CASE \E z \in cut : y \in FailedBy(z, "write")
      <4>1. PICK z \in cut : y \in FailedBy(z, "write")
        BY <3>2
      <4> QED
        BY <1>11, <4>1 DEF Writes
    <3> QED
      BY <1>3, <3>1, <3>2
  <2> QED
    BY <1>3, <2>1
LEMMA DropTempIs ==
  ASSUME NEW r \in Runs, NEW f \in Files
  PROVE  /\ DropTemp(r, f) # {}
         /\ \A y \in DropTemp(r, f) :
              /\ Carries(r, y) /\ ~y.ok /\ y.trail \subseteq r.trail \cup {y.disk}
              /\ \/ y.disk = [r.disk EXCEPT ![f] = NoFile]
                 \/ y.disk = r.disk /\ "remove" \in FaultKinds /\ r.disk[f] # NoFile
<1>1. DropTemp(r, f) = UNION {Failed(x) : x \in Remove(r, f)}
  BY DEF DropTemp, Then
<1>2. \A x \in Remove(r, f) : Failed(x) # {}
  BY DEF Failed
<1>3. ASSUME NEW x \in Remove(r, f), NEW y \in Failed(x)
      PROVE  /\ Carries(r, y) /\ ~y.ok /\ y.disk = x.disk /\ y.trail = x.trail
  <2>1. Carries(r, x) /\ x \in Runs
    BY RemoveIs DEF Carries
  <2>2. Carries(x, y) /\ ~y.ok /\ y.disk = x.disk /\ y.trail = x.trail
    BY <2>1, DoneIs
  <2> QED
    BY <2>1, <2>2, CarriesOn
<1> QED
  BY <1>1, <1>2, <1>3, RemoveIs


LEMMA CopySteps ==
  ASSUME NEW r, NEW from, NEW to, r.disk[from] # NoFile
  PROVE  LET Dropped(x) == DropTemp(x, Temp[to])
             Promote(x) == UNION {IF z.ok THEN Done(z) ELSE Dropped(z) : z \in Rename(x, Temp[to], to)}
             Replace(x) == UNION {IF z.ok THEN Promote(z) ELSE Dropped(z) : z \in Remove(x, to)}
             Opened == UNION {WriteFile(x, Temp[to], x.disk[from]) : x \in Remove(r, Temp[to])}
         IN  copyFileViaTemp(r, from, to)
               = UNION {IF z.ok THEN Replace(z) ELSE Dropped(z) : z \in Opened}
BY DEF copyFileViaTemp, Then, IfOk

Pairs == {<<"main", "bak">>, <<"bak", "main">>}

LEMMA CopyIs ==
  ASSUME NEW r \in Runs, NEW from, NEW to, <<from, to>> \in Pairs
  PROVE  /\ copyFileViaTemp(r, from, to) # {}
         /\ \A y \in copyFileViaTemp(r, from, to) :
              /\ Carries(r, y) /\ CopyPlace(r, from, to, y.disk)
              /\ \A d \in y.trail : d \in r.trail \/ CopyPlace(r, from, to, d)
              /\ y.ok => y.disk[to] = r.disk[from] /\ r.disk[from] # NoFile
              /\ ~y.ok => \/ y.disk[to] = r.disk[to]
                          \/ "rename" \in FaultKinds
              /\ "remove" \notin FaultKinds =>
                   y.disk[Temp[to]] = NoFile \/ (y.disk = r.disk /\ r.disk[from] = NoFile)
<1>1. /\ from \in Files /\ to \in Files /\ Temp[to] \in Files
      /\ from # to /\ Temp[to] # to /\ Temp[to] # from
  BY DEF Pairs, Files, Temp
<1>2. r.disk \in [Files -> FileContents]
  BY DEF Runs, Disks
<1>3. CASE r.disk[from] = NoFile
  <2>1. copyFileViaTemp(r, from, to) = Failed(r) /\ Failed(r) # {}
    BY <1>3 DEF copyFileViaTemp, Failed
  <2>2. CopyPlace(r, from, to, r.disk)
    BY DEF CopyPlace, Elsewhere
  <2> QED
    BY <1>3, <2>1, <2>2, DoneIs
<1>4. CASE r.disk[from] # NoFile
  <2> DEFINE temp == Temp[to]
             c == r.disk[from]
             Dropped(x) == DropTemp(x, temp)
             Promote(x) == UNION {IF z.ok THEN Done(z) ELSE Dropped(z) : z \in Rename(x, temp, to)}
             Replace(x) == UNION {IF z.ok THEN Promote(z) ELSE Dropped(z) : z \in Remove(x, to)}
             Opened == UNION {WriteFile(x, temp, x.disk[from]) : x \in Remove(r, temp)}
             Along(x) == \A d \in x.trail : d \in r.trail \/ CopyPlace(r, from, to, d)
  <2>1. copyFileViaTemp(r, from, to) = UNION {IF z.ok THEN Replace(z) ELSE Dropped(z) : z \in Opened}
    BY <1>4, CopySteps
  <2> HIDE DEF Promote, Replace, Opened
  <2>0. ASSUME NEW d, Elsewhere(d, r.disk, {temp}),
               d[temp] \in {r.disk[temp], NoFile, c} \cup Cut(c)
        PROVE  CopyPlace(r, from, to, d)
    <3>1. d[to] = r.disk[to] /\ Elsewhere(d, r.disk, {to, temp})
      BY <1>1, <2>0 DEF Elsewhere
    <3> QED
      BY <2>0, <3>1 DEF CopyPlace
  <2>2. /\ Opened # {}
        /\ \A x \in Opened :
             /\ Carries(r, x) /\ Along(x) /\ Elsewhere(x.disk, r.disk, {temp})
             /\ x.disk[temp] \in {c} \cup Cut(c) /\ (x.ok => x.disk[temp] = c)
    <3>1. ASSUME NEW x \in Remove(r, temp)
          PROVE  /\ Carries(r, x) /\ x \in Runs /\ Along(x) /\ x.disk[from] = c
                 /\ Elsewhere(x.disk, r.disk, {temp})
      <4>1. /\ Carries(r, x) /\ x.trail \subseteq r.trail \cup {x.disk}
            /\ x.disk = [r.disk EXCEPT ![temp] = NoFile] \/ x.disk = r.disk
        BY <1>1, RemoveIs
      <4>2. Elsewhere(x.disk, r.disk, {temp}) /\ x.disk[temp] \in {r.disk[temp], NoFile} /\ x.disk[from] = c
        BY <1>1, <1>2, <4>1 DEF Elsewhere
      <4>3. CopyPlace(r, from, to, x.disk)
        BY <2>0, <4>2
      <4>4. x \in Runs
        BY <4>1 DEF Carries
      <4>5. Along(x)
        BY <4>1, <4>3
      <4> QED
        BY <4>1, <4>2, <4>4, <4>5
    <3>2. ASSUME NEW x \in Remove(r, temp)
          PROVE  /\ WriteFile(x, temp, c) # {}
                 /\ \A y \in WriteFile(x, temp, c) :
                     /\ Carries(r, y) /\ Along(y) /\ Elsewhere(y.disk, r.disk, {temp})
                     /\ y.disk[temp] \in {c} \cup Cut(c) /\ (y.ok => y.disk[temp] = c)
      <4>1. x \in Runs /\ c \in FileContents /\ Carries(r, x) /\ x.disk \in [Files -> FileContents]
        BY <1>1, <1>2, <3>1 DEF Runs, Disks
      <4>2. ASSUME NEW d, NEW k \in {c} \cup Cut(c), d = [x.disk EXCEPT ![temp] = k]
            PROVE  CopyPlace(r, from, to, d) /\ Elsewhere(d, r.disk, {temp}) /\ d[temp] = k
        <5>1. d[temp] = k /\ Elsewhere(d, r.disk, {temp})
          BY <1>1, <3>1, <4>1, <4>2 DEF Elsewhere
        <5> QED
          BY <2>0, <5>1
      <4>3. ASSUME NEW y \in WriteFile(x, temp, c)
            PROVE  /\ Carries(r, y) /\ Along(y) /\ Elsewhere(y.disk, r.disk, {temp})
                   /\ y.disk[temp] \in {c} \cup Cut(c) /\ (y.ok => y.disk[temp] = c)
        <5>1. /\ Carries(x, y)
              /\ \A d \in y.trail : d \in x.trail \/ \E k \in Cut(c) \cup {c} : d = [x.disk EXCEPT ![temp] = k]
              /\ \/ y.ok /\ y.disk = [x.disk EXCEPT ![temp] = c]
                 \/ ~y.ok /\ \E k \in Cut(c) : y.disk = [x.disk EXCEPT ![temp] = k]
          <6>1. x \in Runs /\ c \in FileContents /\ temp \in Files /\ y \in WriteFile(x, temp, c)
            BY <1>1, <4>1, <4>3
          <6> HIDE DEF c, temp
          <6>2. Writes(x, temp, c, y)
            BY <6>1, WriteIs
          <6> QED
            BY <6>2 DEF Writes
        <5>2. Carries(r, y)
          BY <4>1, <5>1, CarriesOn
        <5>3. Along(y)
          BY <3>1, <4>2, <5>1
        <5>4. CASE y.ok /\ y.disk = [x.disk EXCEPT ![temp] = c]
          BY <4>2, <5>2, <5>3, <5>4
        <5>5. CASE ~y.ok /\ \E k \in Cut(c) : y.disk = [x.disk EXCEPT ![temp] = k]
          BY <4>2, <5>2, <5>3, <5>5
        <5> QED
          BY <5>1, <5>4, <5>5
      <4>4. WriteFile(x, temp, c) # {}
        <5>1. x \in Runs /\ c \in FileContents /\ temp \in Files
          BY <1>1, <4>1
        <5> HIDE DEF c, temp
        <5> QED
          BY <5>1, WriteIs
      <4> QED
        BY <4>3, <4>4
    <3>3. Opened = UNION {WriteFile(x, temp, c) : x \in Remove(r, temp)}
      BY <3>1 DEF Opened
    <3>4. Remove(r, temp) # {}
      BY <1>1, RemoveIs
    <3> HIDE DEF Along, c, temp, Opened
    <3>5. Opened # {}
      BY <3>2, <3>3, <3>4
    <3> QED
      BY <3>2, <3>3, <3>5
  <2>3. ASSUME NEW x, x \in Runs, Carries(r, x), Along(x), Elsewhere(x.disk, r.disk, {temp, to}),
               CopyPlace(r, from, to, [x.disk EXCEPT ![temp] = NoFile]),
               CopyPlace(r, from, to, x.disk)
        PROVE  /\ Dropped(x) # {}
               /\ \A y \in Dropped(x) :
                    /\ Carries(r, y) /\ Along(y) /\ ~y.ok /\ CopyPlace(r, from, to, y.disk)
                    /\ y.disk[to] = x.disk[to]
                    /\ "remove" \notin FaultKinds => y.disk[temp] = NoFile
    <3>1. Dropped(x) # {}
      BY <1>1, <2>3, DropTempIs
    <3>2. ASSUME NEW y \in Dropped(x)
          PROVE  /\ Carries(r, y) /\ Along(y) /\ ~y.ok /\ CopyPlace(r, from, to, y.disk)
                 /\ y.disk[to] = x.disk[to]
                 /\ "remove" \notin FaultKinds => y.disk[temp] = NoFile
      <4>0. x.disk \in [Files -> FileContents]
        BY <2>3 DEF Runs, Disks
      <4>1. /\ Carries(x, y) /\ ~y.ok /\ y.trail \subseteq x.trail \cup {y.disk}
            /\ \/ y.disk = [x.disk EXCEPT ![temp] = NoFile]
               \/ y.disk = x.disk /\ "remove" \in FaultKinds
        BY <1>1, <2>3, DropTempIs
      <4>2. Carries(r, y)
        BY <2>3, <4>1, CarriesOn
      <4>3. CopyPlace(r, from, to, y.disk)
        BY <2>3, <4>1
      <4>4. Along(y)
        BY <2>3, <4>1, <4>3
      <4>5. y.disk[to] = x.disk[to] /\ ("remove" \notin FaultKinds => y.disk[temp] = NoFile)
        BY <1>1, <4>0, <4>1
      <4> QED
        BY <4>1, <4>2, <4>3, <4>4, <4>5
    <3> QED
      BY <3>1, <3>2
  <2>4. ASSUME NEW x \in Opened, x.ok
        PROVE  /\ Replace(x) # {}
               /\ \A y \in Replace(x) :
                    /\ Carries(r, y) /\ Along(y) /\ CopyPlace(r, from, to, y.disk)
                    /\ y.ok => y.disk[to] = c
                    /\ ~y.ok => y.disk[to] = r.disk[to] \/ "rename" \in FaultKinds
                    /\ "remove" \notin FaultKinds => y.disk[temp] = NoFile
    <3>0. /\ x \in Runs /\ Carries(r, x) /\ Along(x) /\ Elsewhere(x.disk, r.disk, {temp})
          /\ x.disk[temp] = c /\ x.disk[to] = r.disk[to] /\ x.disk \in [Files -> FileContents]
      BY <1>1, <2>2, <2>4 DEF Carries, Elsewhere, Runs, Disks
    <3>1. CopyPlace(r, from, to, x.disk) /\ CopyPlace(r, from, to, [x.disk EXCEPT ![temp] = NoFile])
      <4>1. Elsewhere([x.disk EXCEPT ![temp] = NoFile], r.disk, {temp})
            /\ [x.disk EXCEPT ![temp] = NoFile][temp] = NoFile
        BY <1>1, <3>0 DEF Elsewhere
      <4> QED
        BY <2>0, <3>0, <4>1
    <3>2. ASSUME NEW z \in Remove(x, to), ~z.ok
          PROVE  /\ Dropped(z) # {}
                 /\ \A y \in Dropped(z) :
                      /\ Carries(r, y) /\ Along(y) /\ CopyPlace(r, from, to, y.disk)
                      /\ ~y.ok /\ y.disk[to] = r.disk[to]
                      /\ "remove" \notin FaultKinds => y.disk[temp] = NoFile
      <4>1. Carries(x, z) /\ z.trail \subseteq x.trail \cup {x.disk} /\ z.disk = x.disk
        <5>1. x \in Runs /\ to \in Files
          BY <1>1, <3>0
        <5> QED
          BY <3>2, <5>1, RemoveIs
      <4>2. Carries(r, z) /\ z \in Runs
        BY <3>0, <4>1, CarriesOn DEF Carries
      <4>3. Along(z)
        BY <3>0, <3>1, <4>1
      <4>4. Elsewhere(z.disk, r.disk, {temp, to})
        BY <3>0, <4>1 DEF Elsewhere
      <4>5. CopyPlace(r, from, to, z.disk) /\ CopyPlace(r, from, to, [z.disk EXCEPT ![temp] = NoFile])
        BY <3>1, <4>1
      <4>6. z.disk[to] = r.disk[to]
        BY <3>0, <4>1
      <4> HIDE DEF Dropped, Along
      <4> QED
        BY <2>3, <4>2, <4>3, <4>4, <4>5, <4>6
    <3>3. ASSUME NEW z \in Remove(x, to), z.ok
          PROVE  /\ Promote(z) # {}
                 /\ \A y \in Promote(z) :
                      /\ Carries(r, y) /\ Along(y) /\ CopyPlace(r, from, to, y.disk)
                      /\ y.ok => y.disk[to] = c
                      /\ ~y.ok => "rename" \in FaultKinds
                      /\ "remove" \notin FaultKinds => y.disk[temp] = NoFile
      <4>1. /\ Carries(x, z) /\ z.trail \subseteq x.trail \cup {z.disk}
            /\ z.disk = [x.disk EXCEPT ![to] = NoFile]
        BY <1>1, <3>0, <3>3, RemoveIs
      <4>2. Carries(r, z) /\ z \in Runs
        BY <3>0, <4>1, CarriesOn DEF Carries
      <4>3. Elsewhere(z.disk, r.disk, {temp, to}) /\ z.disk[to] = NoFile /\ z.disk[temp] = c
        BY <1>1, <3>0, <4>1 DEF Elsewhere
      <4>4. CopyPlace(r, from, to, z.disk)
        BY <4>3 DEF CopyPlace
      <4>5. Along(z)
        BY <3>0, <4>1, <4>4
      <4>6. ASSUME NEW w \in Rename(z, temp, to), w.ok
            PROVE  /\ Done(w) # {}
                   /\ \A y \in Done(w) :
                        /\ Carries(r, y) /\ Along(y) /\ CopyPlace(r, from, to, y.disk)
                        /\ y.ok /\ y.disk[to] = c /\ y.disk[temp] = NoFile
        <5>1. /\ Carries(z, w) /\ w.trail \subseteq z.trail \cup {w.disk}
              /\ w.disk = [z.disk EXCEPT ![to] = z.disk[temp], ![temp] = NoFile]
          BY <1>1, <4>2, <4>6, RenameIs DEF Renamed
        <5>2. Carries(r, w) /\ w \in Runs
          BY <4>2, <5>1, CarriesOn DEF Carries
        <5>3. Elsewhere(w.disk, r.disk, {temp, to}) /\ w.disk[to] = c /\ w.disk[temp] = NoFile
          <6>1. z.disk \in [Files -> FileContents]
            BY <4>2 DEF Runs, Disks
          <6> QED
            BY <1>1, <4>3, <5>1, <6>1 DEF Elsewhere
        <5>4. CopyPlace(r, from, to, w.disk)
          BY <5>3 DEF CopyPlace
        <5>5. Along(w)
          BY <4>5, <5>1, <5>4
        <5>6. Done(w) # {}
          BY DEF Done
        <5>7. ASSUME NEW y \in Done(w)
              PROVE  Carries(r, y) /\ y.ok /\ y.disk = w.disk /\ y.trail = w.trail
          BY <5>2, DoneIs, CarriesOn
        <5> QED
          BY <5>3, <5>4, <5>5, <5>6, <5>7
      <4>7. ASSUME NEW w \in Rename(z, temp, to), ~w.ok
            PROVE  /\ Dropped(w) # {} /\ "rename" \in FaultKinds
                   /\ \A y \in Dropped(w) :
                        /\ Carries(r, y) /\ Along(y) /\ CopyPlace(r, from, to, y.disk) /\ ~y.ok
                        /\ "remove" \notin FaultKinds => y.disk[temp] = NoFile
        <5>1. /\ Carries(z, w) /\ w.trail \subseteq z.trail \cup {w.disk}
              /\ w.disk = z.disk /\ "rename" \in FaultKinds
          <6>1. /\ z \in Runs /\ temp \in Files /\ to \in Files /\ temp # to
                /\ z.disk[to] = NoFile /\ z.disk[temp] # NoFile
            BY <1>1, <1>4, <4>2, <4>3
          <6> HIDE DEF temp
          <6>2. w \in Rename(z, temp, to)
            BY <4>7
          <6>3. Renamed(z, temp, to, w)
            BY <6>1, <6>2, RenameIs
          <6> QED
            BY <4>7, <6>1, <6>3 DEF Renamed
        <5>2. Carries(r, w) /\ w \in Runs
          BY <4>2, <5>1, CarriesOn DEF Carries
        <5>3. Along(w)
          BY <4>4, <4>5, <5>1
        <5>4. CopyPlace(r, from, to, [w.disk EXCEPT ![temp] = NoFile])
          <6>1. z.disk \in [Files -> FileContents]
            BY <4>2 DEF Runs, Disks
          <6>2. /\ Elsewhere([w.disk EXCEPT ![temp] = NoFile], r.disk, {temp, to})
                /\ [w.disk EXCEPT ![temp] = NoFile][to] = NoFile
                /\ [w.disk EXCEPT ![temp] = NoFile][temp] = NoFile
            BY <1>1, <4>3, <5>1, <6>1 DEF Elsewhere
          <6> QED
            BY <5>1, <6>2 DEF CopyPlace
        <5>5. Elsewhere(w.disk, r.disk, {temp, to}) /\ CopyPlace(r, from, to, w.disk)
          BY <4>3, <4>4, <5>1
        <5> HIDE DEF Dropped, Along
        <5> QED
          BY <2>3, <5>1, <5>2, <5>3, <5>4, <5>5
      <4> HIDE DEF Dropped, Along
      <4>8. Rename(z, temp, to) # {}
        BY <1>1, <4>2, RenameIs
      <4> QED
        BY <4>6, <4>7, <4>8 DEF Promote
    <3>4. Remove(x, to) # {}
      BY <1>1, <3>0, RemoveIs
    <3> HIDE DEF Dropped, Along
    <3> QED
      BY <3>2, <3>3, <3>4 DEF Replace
  <2>5. ASSUME NEW x \in Opened, ~x.ok
        PROVE  /\ Dropped(x) # {}
               /\ \A y \in Dropped(x) :
                    /\ Carries(r, y) /\ Along(y) /\ CopyPlace(r, from, to, y.disk)
                    /\ ~y.ok /\ y.disk[to] = r.disk[to]
                    /\ "remove" \notin FaultKinds => y.disk[temp] = NoFile
    <3>1. /\ x \in Runs /\ Carries(r, x) /\ Along(x) /\ Elsewhere(x.disk, r.disk, {temp})
          /\ x.disk[temp] \in {c} \cup Cut(c) /\ x.disk[to] = r.disk[to] /\ x.disk \in [Files -> FileContents]
      BY <1>1, <2>2, <2>5 DEF Carries, Elsewhere, Runs, Disks
    <3>2. CopyPlace(r, from, to, x.disk)
      BY <2>0, <3>1
    <3>3. CopyPlace(r, from, to, [x.disk EXCEPT ![temp] = NoFile])
      <4>1. Elsewhere([x.disk EXCEPT ![temp] = NoFile], r.disk, {temp})
            /\ [x.disk EXCEPT ![temp] = NoFile][temp] = NoFile
        BY <1>1, <3>1 DEF Elsewhere
      <4> QED
        BY <2>0, <4>1
    <3>4. Elsewhere(x.disk, r.disk, {temp, to})
      BY <3>1 DEF Elsewhere
    <3> HIDE DEF Dropped, Along
    <3> QED
      BY <2>3, <3>1, <3>2, <3>3, <3>4
  <2> HIDE DEF Dropped, Along
  <2>6. copyFileViaTemp(r, from, to) # {}
    <3>1. PICK z \in Opened : TRUE
      BY <2>2
    <3>2. (IF z.ok THEN Replace(z) ELSE Dropped(z)) # {}
      BY <2>4, <2>5
    <3> QED
      BY <2>1, <3>2
  <2>7. ASSUME NEW y \in copyFileViaTemp(r, from, to)
        PROVE  /\ Carries(r, y) /\ Along(y) /\ CopyPlace(r, from, to, y.disk)
               /\ y.ok => y.disk[to] = c
               /\ ~y.ok => y.disk[to] = r.disk[to] \/ "rename" \in FaultKinds
               /\ "remove" \notin FaultKinds => y.disk[temp] = NoFile
    <3>1. PICK z \in Opened : y \in (IF z.ok THEN Replace(z) ELSE Dropped(z))
      BY <2>1
    <3> QED
      BY <2>4, <2>5, <3>1
  <2> QED
    BY <1>4, <2>6, <2>7 DEF Along
<1> QED
  BY <1>3, <1>4

LEMMA KeepsOn ==
  ASSUME NEW r \in Runs, NEW y, NEW z, KeepsStore(r, y), KeepsStore(y, z)
  PROVE  KeepsStore(r, z)
<1>1. r.failures \in Nat /\ y.failures \in Nat /\ z.failures \in Nat
  BY DEF KeepsStore, Runs
<1> QED
  BY <1>1 DEF KeepsStore

LEMMA CarriesKeeps ==
  ASSUME NEW r, NEW y, Carries(r, y)
  PROVE  KeepsStore(r, y)
BY DEF Carries, KeepsStore

LEMMA PreparedIs ==
  ASSUME NEW r \in Runs, NEW y \in Prepared(r)
  PROVE  KeepsStore(r, y) /\ y.disk = r.disk /\ y.trail = r.trail /\ y.ok
<1> DEFINE s == [r.store EXCEPT !.prepared = TRUE]
<1>1. s \in Stores /\ s.stats = r.store.stats /\ s.dirty = r.store.dirty /\ s.suspended = r.store.suspended
  <2>1. TRUE \in BOOLEAN
    OBVIOUS
  <2> QED
    BY <2>1 DEF Runs, Stores
<1>2. y = [r EXCEPT !.store = s, !.ok = TRUE] /\ TRUE \in BOOLEAN
  BY DEF Prepared
<1> HIDE DEF s
<1>3. y \in Runs /\ y.store = s /\ y.disk = r.disk /\ y.trail = r.trail /\ y.ok = TRUE
      /\ y.failures = r.failures /\ y.saved = r.saved
  BY <1>1, <1>2 DEF Runs
<1>4. r.failures \in Nat
  BY DEF Runs
<1> QED
  BY <1>1, <1>3, <1>4 DEF KeepsStore

-----------------------------------------------------------------------------
(* The backup: where an operation on it passes.                            *)
BakPlace(r, d) ==
  /\ d["main"] = r.disk["main"] /\ d["mainTmp"] = r.disk["mainTmp"]
  /\ \/ d["bak"] \in {r.disk["bak"], NoFile}
     \/ d["bak"] = r.disk["main"] /\ HasData(r.disk["main"])

BacksUp(r, y) ==
  /\ KeepsStore(r, y) /\ BakPlace(r, y.disk)
  /\ \A d \in y.trail : d \in r.trail \/ BakPlace(r, d)

LEMMA CopyToBak ==
  ASSUME NEW r \in Runs, HasData(r.disk["main"])
  PROVE  /\ copyFileViaTemp(r, "main", "bak") # {}
         /\ \A y \in copyFileViaTemp(r, "main", "bak") :
              BacksUp(r, y) /\ (y.ok => y.disk["bak"] = r.disk["main"])
<1>1. <<"main", "bak">> \in Pairs /\ Temp["bak"] = "bakTmp"
  BY DEF Pairs, Temp
<1>2. ASSUME NEW d, CopyPlace(r, "main", "bak", d)
      PROVE  BakPlace(r, d)
  BY <1>1, <1>2 DEF CopyPlace, Elsewhere, Files, BakPlace
<1>3. ASSUME NEW y \in copyFileViaTemp(r, "main", "bak")
      PROVE  BacksUp(r, y) /\ (y.ok => y.disk["bak"] = r.disk["main"])
  <2>1. /\ Carries(r, y) /\ CopyPlace(r, "main", "bak", y.disk)
        /\ \A d \in y.trail : d \in r.trail \/ CopyPlace(r, "main", "bak", d)
        /\ y.ok => y.disk["bak"] = r.disk["main"]
    BY <1>1, CopyIs
  <2> QED
    BY <1>2, <2>1, CarriesKeeps DEF BacksUp
<1>4. copyFileViaTemp(r, "main", "bak") # {}
  BY <1>1, CopyIs
<1> QED
  BY <1>3, <1>4

LEMMA BackupAgain ==
  ASSUME NEW r \in Runs, NEW x, NEW y, BacksUp(r, x), KeepsStore(x, y), y.disk = x.disk, y.trail = x.trail
  PROVE  BacksUp(r, y)
BY KeepsOn DEF BacksUp

LEMMA PrepareIs ==
  ASSUME NEW r \in Runs
  PROVE  /\ prepareInternalBackup(r) # {}
         /\ \A y \in prepareInternalBackup(r) : BacksUp(r, y)
<1> DEFINE Copied == UNION {IF z.ok THEN Prepared(z) ELSE Failed(z) : z \in copyFileViaTemp(r, "main", "bak")}
<1>1. prepareInternalBackup(r) \in {Done(r), Prepared(r)}
        \/ (HasData(r.disk["main"]) /\ prepareInternalBackup(r) = Copied)
  BY DEF prepareInternalBackup, IfOk
<1>2. ASSUME NEW x \in Runs
      PROVE  /\ Done(x) # {} /\ Failed(x) # {} /\ Prepared(x) # {}
             /\ \A y \in Done(x) \cup Failed(x) \cup Prepared(x) :
                  KeepsStore(x, y) /\ y.disk = x.disk /\ y.trail = x.trail
  <2>1. \A y \in Done(x) \cup Failed(x) : KeepsStore(x, y) /\ y.disk = x.disk /\ y.trail = x.trail
    BY DoneIs, CarriesKeeps
  <2>2. ASSUME NEW y \in Prepared(x)
        PROVE  KeepsStore(x, y) /\ y.disk = x.disk /\ y.trail = x.trail
    BY PreparedIs
  <2> QED
    BY <2>1, <2>2 DEF Done, Failed, Prepared
<1>3. BacksUp(r, r)
  BY DoneIs, CarriesKeeps DEF BacksUp, BakPlace
<1>4. CASE prepareInternalBackup(r) \in {Done(r), Prepared(r)}
  <2>1. \A y \in Done(r) \cup Prepared(r) : BacksUp(r, y)
    BY <1>2, <1>3, BackupAgain
  <2> QED
    BY <1>2, <1>4, <2>1
<1>5. CASE HasData(r.disk["main"]) /\ prepareInternalBackup(r) = Copied
  <2>1. ASSUME NEW z \in copyFileViaTemp(r, "main", "bak")
        PROVE  /\ Prepared(z) # {} /\ Failed(z) # {}
               /\ \A y \in Prepared(z) \cup Failed(z) : BacksUp(r, y)
    <3>1. BacksUp(r, z) /\ z \in Runs
      BY <1>5, CopyToBak DEF BacksUp, KeepsStore
    <3> QED
      BY <1>2, <3>1, BackupAgain
  <2>2. copyFileViaTemp(r, "main", "bak") # {}
    BY <1>5, CopyToBak
  <2> QED
    BY <1>5, <2>1, <2>2
<1> QED
  BY <1>1, <1>4, <1>5

LEMMA StaysPut ==
  ASSUME NEW x \in Runs
  PROVE  /\ Done(x) # {} /\ Failed(x) # {} /\ Prepared(x) # {}
         /\ \A y \in Done(x) \cup Failed(x) \cup Prepared(x) :
              KeepsStore(x, y) /\ y.disk = x.disk /\ y.trail = x.trail
         /\ \A y \in Done(x) \cup Prepared(x) : y.ok
         /\ \A y \in Failed(x) : ~y.ok
<1>1. \A y \in Done(x) : KeepsStore(x, y) /\ y.disk = x.disk /\ y.trail = x.trail /\ y.ok
  BY DoneIs, CarriesKeeps
<1>2. \A y \in Failed(x) : KeepsStore(x, y) /\ y.disk = x.disk /\ y.trail = x.trail /\ ~y.ok
  BY DoneIs, CarriesKeeps
<1>3. \A y \in Prepared(x) : KeepsStore(x, y) /\ y.disk = x.disk /\ y.trail = x.trail /\ y.ok
  BY PreparedIs
<1>4. Done(x) # {} /\ Failed(x) # {} /\ Prepared(x) # {}
  BY DEF Done, Failed, Prepared
<1> QED
  BY <1>1, <1>2, <1>3, <1>4

LEMMA BackupThen ==
  ASSUME NEW r \in Runs, NEW x, NEW y, BacksUp(r, x), BacksUp(x, y), x.disk["bak"] = r.disk["bak"]
  PROVE  BacksUp(r, y)
BY KeepsOn DEF BacksUp, BakPlace

LEMMA RefreshIs ==
  ASSUME NEW r \in Runs
  PROVE  /\ refreshInternalBackupFromMain(r) # {}
         /\ \A y \in refreshInternalBackupFromMain(r) :
              /\ BacksUp(r, y)
              /\ y.ok => \/ HasData(r.disk["main"]) /\ y.disk["bak"] = r.disk["main"]
                         \/ ~HasData(r.disk["main"]) /\ y.disk["bak"] = NoFile
                         \/ "remove" \in FaultKinds
<1> DEFINE Copied(x) == UNION {IF z.ok THEN Prepared(z) ELSE Failed(z) :
                                  z \in copyFileViaTemp(x, "main", "bak")}
           Dropped(x) == UNION {Prepared(z) : z \in Remove(x, "bak")}
           Refreshed(x) == IF HasData(x.disk["main"]) THEN Copied(x) ELSE Dropped(x)
           Good(x, y) == y.ok => \/ HasData(r.disk["main"]) /\ y.disk["bak"] = r.disk["main"]
                                 \/ ~HasData(r.disk["main"]) /\ y.disk["bak"] = NoFile
                                 \/ "remove" \in FaultKinds
<1>1. refreshInternalBackupFromMain(r) = UNION {Refreshed(x) : x \in Remove(r, "bakTmp")}
  BY DEF refreshInternalBackupFromMain, Then, IfOk
<1>0. "bak" \in Files /\ "bakTmp" \in Files
  BY DEF Files
<1>2. Remove(r, "bakTmp") # {}
  BY <1>0, RemoveIs
<1>3. ASSUME NEW x \in Remove(r, "bakTmp")
      PROVE  BacksUp(r, x) /\ x.disk["bak"] = r.disk["bak"] /\ x.disk["main"] = r.disk["main"] /\ x \in Runs
  <2>1. /\ Carries(r, x) /\ x.trail \subseteq r.trail \cup {x.disk}
        /\ x.disk = [r.disk EXCEPT !["bakTmp"] = NoFile] \/ x.disk = r.disk
    BY <1>0, RemoveIs
  <2>2. BakPlace(r, x.disk) /\ x.disk["bak"] = r.disk["bak"]
    BY <2>1 DEF BakPlace, Runs, Disks, Files
  <2> QED
    BY <2>1, <2>2, CarriesKeeps DEF BacksUp, BakPlace, KeepsStore
<1>4. ASSUME NEW x \in Runs, HasData(x.disk["main"])
      PROVE  /\ Copied(x) # {}
             /\ \A y \in Copied(x) : BacksUp(x, y) /\ (y.ok => y.disk["bak"] = x.disk["main"])
  <2>1. ASSUME NEW z \in copyFileViaTemp(x, "main", "bak")
        PROVE  /\ (IF z.ok THEN Prepared(z) ELSE Failed(z)) # {}
               /\ \A y \in (IF z.ok THEN Prepared(z) ELSE Failed(z)) :
                    BacksUp(x, y) /\ (y.ok => y.disk["bak"] = x.disk["main"])
    <3>1. BacksUp(x, z) /\ z \in Runs /\ (z.ok => z.disk["bak"] = x.disk["main"])
      BY <1>4, CopyToBak DEF BacksUp, KeepsStore
    <3>2. \A y \in Prepared(z) \cup Failed(z) : BacksUp(x, y) /\ y.disk = z.disk
      BY <3>1, StaysPut, BackupAgain
    <3> QED
      BY <3>1, <3>2, StaysPut
  <2>2. copyFileViaTemp(x, "main", "bak") # {}
    BY <1>4, CopyToBak
  <2> QED
    BY <2>1, <2>2
<1>5. ASSUME NEW x \in Runs
      PROVE  /\ Dropped(x) # {}
             /\ \A y \in Dropped(x) : BacksUp(x, y) /\ (y.disk["bak"] = NoFile \/ "remove" \in FaultKinds)
  <2>1. ASSUME NEW z \in Remove(x, "bak")
        PROVE  BacksUp(x, z) /\ z \in Runs /\ (z.disk["bak"] = NoFile \/ "remove" \in FaultKinds)
    <3>1. /\ Carries(x, z) /\ z.trail \subseteq x.trail \cup {z.disk}
          /\ z.disk = [x.disk EXCEPT !["bak"] = NoFile] \/ (z.disk = x.disk /\ "remove" \in FaultKinds)
      BY <1>0, RemoveIs
    <3>2. BakPlace(x, z.disk) /\ (z.disk["bak"] = NoFile \/ "remove" \in FaultKinds)
      BY <3>1 DEF BakPlace, Runs, Disks, Files
    <3> QED
      BY <3>1, <3>2, CarriesKeeps DEF BacksUp, KeepsStore
  <2>2. Remove(x, "bak") # {}
    BY <1>0, RemoveIs
  <2>3. ASSUME NEW z \in Remove(x, "bak"), NEW y \in Prepared(z)
        PROVE  BacksUp(x, y) /\ (y.disk["bak"] = NoFile \/ "remove" \in FaultKinds)
    BY <2>1, PreparedIs, BackupAgain
  <2> QED
    BY <2>1, <2>2, <2>3, StaysPut
<1> HIDE DEF Copied, Dropped
<1>6. ASSUME NEW x \in Remove(r, "bakTmp")
      PROVE  /\ Refreshed(x) # {}
             /\ \A y \in Refreshed(x) : BacksUp(r, y) /\ Good(x, y)
  <2>1. CASE HasData(x.disk["main"])
    <3>1. Refreshed(x) = Copied(x)
      BY <2>1
    <3>2. ASSUME NEW y \in Copied(x)
          PROVE  BacksUp(r, y) /\ Good(x, y)
      <4>1. BacksUp(x, y) /\ (y.ok => y.disk["bak"] = x.disk["main"])
        BY <1>3, <1>4, <2>1
      <4>2. BacksUp(r, y)
        BY <1>3, <4>1, BackupThen
      <4>3. HasData(r.disk["main"]) /\ (y.ok => y.disk["bak"] = r.disk["main"])
        BY <1>3, <2>1, <4>1
      <4> QED
        BY <4>2, <4>3
    <3> QED
      BY <1>3, <1>4, <2>1, <3>1, <3>2
  <2>2. CASE ~HasData(x.disk["main"])
    <3>1. Refreshed(x) = Dropped(x)
      BY <2>2
    <3>2. ASSUME NEW y \in Dropped(x)
          PROVE  BacksUp(r, y) /\ Good(x, y)
      <4>1. BacksUp(x, y) /\ (y.disk["bak"] = NoFile \/ "remove" \in FaultKinds)
        BY <1>3, <1>5
      <4> QED
        BY <1>3, <2>2, <4>1, BackupThen
    <3> QED
      BY <1>3, <1>5, <3>1, <3>2
  <2> QED
    BY <2>1, <2>2
<1> HIDE DEF Refreshed
<1> QED
  BY <1>1, <1>2, <1>6

Restores(r, y) ==
  /\ KeepsStore(r, y)
  /\ \/ ~HasData(r.disk["bak"]) /\ ~y.ok /\ y.disk = r.disk /\ y.trail = r.trail
     \/ /\ HasData(r.disk["bak"]) /\ CopyPlace(r, "bak", "main", y.disk)
        /\ \A d \in y.trail : d \in r.trail \/ CopyPlace(r, "bak", "main", d)
        /\ y.ok => y.disk["main"] = r.disk["bak"]
        /\ ~y.ok => y.disk["main"] = r.disk["main"] \/ "rename" \in FaultKinds
        /\ "remove" \notin FaultKinds => y.disk["mainTmp"] = NoFile

Unprepared(r) == {[r EXCEPT !.store.prepared = FALSE]}

LEMMA RestoredIs ==
  ASSUME NEW r \in Runs, NEW y \in Unprepared(r)
  PROVE  KeepsStore(r, y) /\ y.disk = r.disk /\ y.trail = r.trail /\ (y.ok <=> r.ok)
<1> DEFINE s == [r.store EXCEPT !.prepared = FALSE]
<1>1. s \in Stores /\ s.stats = r.store.stats /\ s.dirty = r.store.dirty /\ s.suspended = r.store.suspended
  <2>1. FALSE \in BOOLEAN
    OBVIOUS
  <2> QED
    BY <2>1 DEF Runs, Stores
<1>2. y = [r EXCEPT !.store = s]
  BY DEF Unprepared
<1> HIDE DEF s
<1>3. y \in Runs /\ y.store = s /\ y.disk = r.disk /\ y.trail = r.trail
      /\ y.failures = r.failures /\ y.saved = r.saved
  BY <1>1, <1>2 DEF Runs
<1>4. r.failures \in Nat
  BY DEF Runs
<1>5. KeepsStore(r, y)
  BY <1>1, <1>3, <1>4 DEF KeepsStore
<1>6. y.ok <=> r.ok
  <2>1. y.ok = r.ok
    BY <1>2 DEF Runs
  <2> QED
    BY <2>1, Zenon
<1> QED
  BY <1>3, <1>5, <1>6

LEMMA RestoreIs ==
  ASSUME NEW r \in Runs
  PROVE  /\ restoreInternalBackupToMain(r) # {}
         /\ \A y \in restoreInternalBackupToMain(r) : Restores(r, y)
<1>1. CASE ~HasData(r.disk["bak"])
  <2>1. restoreInternalBackupToMain(r) = Failed(r)
    BY <1>1 DEF restoreInternalBackupToMain
  <2> QED
    BY <1>1, <2>1, StaysPut DEF Restores
<1>2. CASE HasData(r.disk["bak"])
  <2> DEFINE Ended(z) == IF z.ok THEN {[z EXCEPT !.store.prepared = FALSE]} ELSE Failed(z)
  <2>1. restoreInternalBackupToMain(r) = UNION {Ended(z) : z \in copyFileViaTemp(r, "bak", "main")}
    BY <1>2 DEF restoreInternalBackupToMain, IfOk
  <2>2. <<"bak", "main">> \in Pairs /\ Temp["main"] = "mainTmp" /\ r.disk["bak"] # NoFile
    BY <1>2 DEF Pairs, Temp, HasData, NoFile
  <2>3. ASSUME NEW z \in copyFileViaTemp(r, "bak", "main")
        PROVE  Restores(r, z) /\ z \in Runs
    <3>1. /\ Carries(r, z) /\ CopyPlace(r, "bak", "main", z.disk)
          /\ \A d \in z.trail : d \in r.trail \/ CopyPlace(r, "bak", "main", d)
          /\ z.ok => z.disk["main"] = r.disk["bak"]
          /\ ~z.ok => z.disk["main"] = r.disk["main"] \/ "rename" \in FaultKinds
          /\ "remove" \notin FaultKinds => z.disk["mainTmp"] = NoFile
      BY <2>2, CopyIs
    <3> QED
      BY <1>2, <3>1, CarriesKeeps DEF Restores, KeepsStore
  <2>4. ASSUME NEW z \in copyFileViaTemp(r, "bak", "main")
        PROVE  Ended(z) # {} /\ \A y \in Ended(z) : Restores(r, y)
    <3>1. ASSUME NEW y \in Ended(z)
          PROVE  KeepsStore(z, y) /\ y.disk = z.disk /\ y.trail = z.trail /\ (y.ok <=> z.ok)
      <4>1. CASE z.ok
        <5>1. y \in Unprepared(z)
          BY <4>1 DEF Unprepared
        <5>2. z \in Runs
          BY <2>3
        <5> QED
          BY <5>1, <5>2, RestoredIs
      <4>2. CASE ~z.ok
        <5>1. y \in Failed(z)
          BY <4>2
        <5> QED
          BY <2>3, <4>2, <5>1, StaysPut
      <4> QED
        BY <4>1, <4>2
    <3>2. ASSUME NEW y \in Ended(z)
          PROVE  Restores(r, y)
      BY <1>2, <2>3, <3>1, KeepsOn DEF Restores
    <3>3. Ended(z) # {}
      BY <2>3, StaysPut
    <3> QED
      BY <3>2, <3>3
  <2>5. copyFileViaTemp(r, "bak", "main") # {}
    BY <2>2, CopyIs
  <2> HIDE DEF Ended
  <2> QED
    BY <2>1, <2>4, <2>5
<1> QED
  BY <1>1, <1>2

SavePlace(r, c, d) ==
  /\ d["bak"] = r.disk["bak"]
  /\ d["mainTmp"] \in {r.disk["mainTmp"], NoFile, c} \cup Cut(c)
  /\ \/ d["main"] = r.disk["main"]
     \/ d["main"] = NoFile /\ d["mainTmp"] = c
     \/ d["main"] = c /\ d["mainTmp"] = NoFile
     \/ "rename" \in FaultKinds

Saves(r, c, y) ==
  /\ Carries(r, y) /\ SavePlace(r, c, y.disk)
  /\ \A d \in y.trail : d \in r.trail \/ SavePlace(r, c, d)
  /\ y.ok => y.disk["main"] = c
  /\ ~y.ok => \/ "rename" \in FaultKinds
              \/ y.disk["main"] = r.disk["main"] /\ r.disk["main"] # NoFile
              \/ y.disk["main"] = r.disk["main"] /\ "write" \in FaultKinds /\ r.failures > 0
  /\ FaultKinds \cap {"remove", "rename"} = {} => y.disk["mainTmp"] = NoFile

LEMMA FilesAre ==
  /\ "main" \in Files /\ "mainTmp" \in Files /\ "bak" \in Files /\ "bakTmp" \in Files
  /\ \A r \in Runs : r.disk \in [Files -> FileContents]
BY DEF Files, Runs, Disks

LEMMA PromoteIs ==
  ASSUME NEW r \in Runs, NEW c, r.disk["mainTmp"] = c, c # NoFile,
         NEW y \in promoteJsonTempFile(r)
  PROVE  Saves(r, c, y)
<1> DEFINE Copied(x) == UNION {Done(z) : z \in Remove(x, "mainTmp")}
           CopyAll(x) == UNION {IF z.ok THEN Copied(z) ELSE DropTemp(z, "main") :
                                z \in WriteFile(x, "main", x.disk["mainTmp"])}
           Promote(x) == UNION {IF z.ok THEN Done(z) ELSE CopyAll(z) : z \in Rename(x, "mainTmp", "main")}
           Along(x) == \A d \in x.trail : d \in r.trail \/ SavePlace(r, c, d)
<1>1. promoteJsonTempFile(r)
        = UNION {IF z.ok THEN Promote(z) ELSE DropTemp(z, "mainTmp") : z \in Remove(r, "main")}
  BY DEF promoteJsonTempFile, Then, IfOk
<1>2. PICK z \in Remove(r, "main") : y \in (IF z.ok THEN Promote(z) ELSE DropTemp(z, "mainTmp"))
  BY <1>1
<1>3. r.disk \in [Files -> FileContents] /\ c \in FileContents
  BY FilesAre
<1>4. CASE ~z.ok
  <2>1. /\ Carries(r, z) /\ z \in Runs /\ z.disk = r.disk /\ r.disk["main"] # NoFile
        /\ z.trail \subseteq r.trail \cup {r.disk}
    <3>1. "main" \in Files
      BY FilesAre
    <3>2. Carries(r, z) /\ z.disk = r.disk /\ r.disk["main"] # NoFile /\ z.trail \subseteq r.trail \cup {z.disk}
      BY <1>2, <1>4, <3>1, RemoveIs
    <3> QED
      BY <3>2 DEF Carries
  <2>2. y \in DropTemp(z, "mainTmp")
    BY <1>2, <1>4
  <2>3. /\ Carries(z, y) /\ ~y.ok /\ y.trail \subseteq z.trail \cup {y.disk}
        /\ \/ y.disk = [z.disk EXCEPT !["mainTmp"] = NoFile]
           \/ y.disk = z.disk /\ "remove" \in FaultKinds
    BY <2>1, <2>2, FilesAre, DropTempIs
  <2>4. /\ y.disk["main"] = r.disk["main"] /\ y.disk["bak"] = r.disk["bak"]
        /\ y.disk["mainTmp"] \in {r.disk["mainTmp"], NoFile}
        /\ "remove" \notin FaultKinds => y.disk["mainTmp"] = NoFile
    BY <1>3, <2>1, <2>3, FilesAre
  <2>5. SavePlace(r, c, y.disk) /\ SavePlace(r, c, r.disk)
    BY <2>4 DEF SavePlace
  <2>6. Along(y)
    BY <2>1, <2>3, <2>5
  <2>7. Carries(r, y)
    BY <2>1, <2>3, CarriesOn
  <2> QED
    BY <2>1, <2>3, <2>4, <2>5, <2>6, <2>7 DEF Saves
<1>5. CASE z.ok
  <2>1. /\ Carries(r, z) /\ z \in Runs /\ z.disk = [r.disk EXCEPT !["main"] = NoFile]
        /\ z.trail \subseteq r.trail \cup {z.disk}
    BY <1>2, <1>5, FilesAre, RemoveIs DEF Carries
  <2>2. /\ z.disk["main"] = NoFile /\ z.disk["mainTmp"] = c /\ z.disk["bak"] = r.disk["bak"]
        /\ z.disk \in [Files -> FileContents]
    BY <1>3, <2>1, FilesAre
  <2>3. SavePlace(r, c, z.disk) /\ Along(z)
    <3>1. SavePlace(r, c, z.disk)
      BY <2>2 DEF SavePlace
    <3> QED
      BY <2>1, <3>1
  <2>4. PICK w \in Rename(z, "mainTmp", "main") : y \in (IF w.ok THEN Done(w) ELSE CopyAll(w))
    BY <1>2, <1>5
  <2>5. Renamed(z, "mainTmp", "main", w)
    BY <2>1, <2>4, FilesAre, RenameIs
  <2>6. Carries(r, w) /\ w \in Runs
    BY <2>1, <2>5, CarriesOn DEF Renamed, Carries
  <2>7. CASE w.ok
    <3>1. /\ w.disk = [z.disk EXCEPT !["main"] = z.disk["mainTmp"], !["mainTmp"] = NoFile]
          /\ w.trail \subseteq z.trail \cup {w.disk}
      BY <2>5, <2>7 DEF Renamed
    <3>2. w.disk["main"] = c /\ w.disk["mainTmp"] = NoFile /\ w.disk["bak"] = r.disk["bak"]
      BY <2>2, <3>1, FilesAre
    <3>3. SavePlace(r, c, w.disk)
      BY <3>2 DEF SavePlace
    <3>4. Along(w)
      BY <2>3, <3>1, <3>3
    <3>5. y \in Done(w)
      BY <2>4, <2>7
    <3>6. Carries(w, y) /\ y.ok /\ y.disk = w.disk /\ y.trail = w.trail
      BY <2>6, <3>5, DoneIs
    <3>7. Carries(r, y)
      BY <2>6, <3>6, CarriesOn
    <3> QED
      BY <3>2, <3>3, <3>4, <3>6, <3>7 DEF Saves
  <2>8. CASE ~w.ok
    <3>1. "rename" \in FaultKinds /\ w.disk = z.disk /\ w.trail \subseteq z.trail \cup {w.disk}
      BY <2>2, <2>5, <2>8 DEF Renamed
    <3>2. Along(w) /\ w.disk["mainTmp"] = c /\ w.disk["bak"] = r.disk["bak"] /\ w.disk \in [Files -> FileContents]
      BY <2>2, <2>3, <3>1
    <3>3. PICK v \in WriteFile(w, "main", c) : y \in (IF v.ok THEN Copied(v) ELSE DropTemp(v, "main"))
      <4>1. y \in CopyAll(w)
        BY <2>4, <2>8
      <4> QED
        BY <3>2, <4>1
    <3>4. Writes(w, "main", c, v)
      BY <1>3, <2>6, <3>3, FilesAre, WriteIs
    <3>5. Carries(r, v) /\ v \in Runs
      BY <2>6, <3>4, CarriesOn DEF Writes, Carries
    <3>6. ASSUME NEW d, NEW x, d = [w.disk EXCEPT !["main"] = x]
          PROVE  SavePlace(r, c, d) /\ d["mainTmp"] = c /\ d["bak"] = r.disk["bak"] /\ d["main"] = x
      <4>1. d["mainTmp"] = c /\ d["bak"] = r.disk["bak"] /\ d["main"] = x
        BY <3>2, <3>6, FilesAre
      <4> QED
        BY <3>1, <4>1 DEF SavePlace
    <3>7. Along(v)
      BY <3>2, <3>4, <3>6 DEF Writes
    <3>8. /\ v.disk["mainTmp"] = c /\ v.disk["bak"] = r.disk["bak"]
          /\ (v.ok => v.disk["main"] = c) /\ v.disk \in [Files -> FileContents]
      <4>1. CASE v.ok /\ v.disk = [w.disk EXCEPT !["main"] = c]
        BY <3>5, <3>6, <4>1, FilesAre
      <4>2. CASE ~v.ok /\ \E x \in Cut(c) : v.disk = [w.disk EXCEPT !["main"] = x]
        BY <3>5, <3>6, <4>2, FilesAre
      <4> QED
        BY <3>4, <4>1, <4>2 DEF Writes
    <3>9. CASE v.ok
      <4>1. PICK u \in Remove(v, "mainTmp") : y \in Done(u)
        BY <3>3, <3>9
      <4>2. /\ Carries(v, u) /\ u.trail \subseteq v.trail \cup {u.disk} /\ u \in Runs
            /\ u.disk \in {v.disk, [v.disk EXCEPT !["mainTmp"] = NoFile]}
        <5>1. "mainTmp" \in Files
          BY FilesAre
        <5>2. /\ Carries(v, u) /\ u.trail \subseteq v.trail \cup {u.disk}
              /\ u.disk = v.disk \/ u.disk = [v.disk EXCEPT !["mainTmp"] = NoFile]
          BY <3>5, <4>1, <5>1, RemoveIs
        <5> QED
          BY <5>2 DEF Carries
      <4>3. Carries(u, y) /\ y.ok /\ y.disk = u.disk /\ y.trail = u.trail
        BY <4>1, <4>2, DoneIs
      <4>4. y.disk["main"] = c /\ y.disk["bak"] = r.disk["bak"] /\ y.disk["mainTmp"] \in {c, NoFile}
        BY <3>8, <3>9, <4>2, <4>3, FilesAre
      <4>5. SavePlace(r, c, y.disk)
        BY <3>1, <4>4 DEF SavePlace
      <4>6. Along(y)
        BY <3>7, <4>2, <4>3, <4>5
      <4>7. Carries(r, y)
        BY <3>5, <4>2, <4>3, CarriesOn
      <4> QED
        BY <3>1, <4>3, <4>4, <4>5, <4>6, <4>7 DEF Saves
    <3>10. CASE ~v.ok
      <4>1. y \in DropTemp(v, "main")
        BY <3>3, <3>10
      <4>2. /\ Carries(v, y) /\ ~y.ok /\ y.trail \subseteq v.trail \cup {y.disk}
            /\ y.disk \in {v.disk, [v.disk EXCEPT !["main"] = NoFile]}
        <5>1. "main" \in Files
          BY FilesAre
        <5>2. /\ Carries(v, y) /\ ~y.ok /\ y.trail \subseteq v.trail \cup {y.disk}
              /\ y.disk = v.disk \/ y.disk = [v.disk EXCEPT !["main"] = NoFile]
          BY <3>5, <4>1, <5>1, DropTempIs
        <5> QED
          BY <5>2
      <4>3. y.disk["bak"] = r.disk["bak"] /\ y.disk["mainTmp"] = c
        BY <3>8, <4>2, FilesAre
      <4>4. SavePlace(r, c, y.disk)
        BY <3>1, <4>3 DEF SavePlace
      <4>5. Along(y)
        BY <3>7, <4>2, <4>4
      <4>6. Carries(r, y)
        BY <3>5, <4>2, CarriesOn
      <4> QED
        BY <3>1, <4>2, <4>4, <4>5, <4>6 DEF Saves
    <3> QED
      BY <3>9, <3>10
  <2> QED
    BY <2>7, <2>8
<1> QED
  BY <1>4, <1>5

LEMMA SaveIs ==
  ASSUME NEW r \in Runs, NEW y \in saveReadingStats(r)
  PROVE  Saves(r, Whole(r.store.stats), y)
<1> DEFINE c == Whole(r.store.stats)
           Along(x) == \A d \in x.trail : d \in r.trail \/ SavePlace(r, c, d)
<1>1. saveReadingStats(r)
        = UNION {IF z.ok THEN promoteJsonTempFile(z) ELSE DropTemp(z, "mainTmp") :
                   z \in UNION {WriteFile(x, "mainTmp", Whole(x.store.stats)) : x \in Remove(r, "mainTmp")}}
  BY DEF saveReadingStats, Then, IfOk
<1>2. PICK x \in Remove(r, "mainTmp") : \E z \in WriteFile(x, "mainTmp", Whole(x.store.stats)) :
        y \in (IF z.ok THEN promoteJsonTempFile(z) ELSE DropTemp(z, "mainTmp"))
  BY <1>1
<1>3. c \in FileContents /\ c # NoFile
  <2>1. r.store.stats \in Stats
    BY DEF Runs, Stores
  <2> QED
    BY <2>1, ContentsAre
<1>4. r.disk \in [Files -> FileContents]
  BY FilesAre
<1>5. /\ Carries(r, x) /\ x \in Runs /\ x.trail \subseteq r.trail \cup {x.disk}
      /\ x.disk = [r.disk EXCEPT !["mainTmp"] = NoFile] \/ x.disk = r.disk
  <2>1. "mainTmp" \in Files
    BY FilesAre
  <2>2. /\ Carries(r, x) /\ x.trail \subseteq r.trail \cup {x.disk}
        /\ x.disk = [r.disk EXCEPT !["mainTmp"] = NoFile] \/ x.disk = r.disk
    BY <1>2, <2>1, RemoveIs
  <2> QED
    BY <2>2 DEF Carries
<1>6. /\ x.disk["main"] = r.disk["main"] /\ x.disk["bak"] = r.disk["bak"] /\ x.disk \in [Files -> FileContents]
      /\ x.disk["mainTmp"] \in {r.disk["mainTmp"], NoFile}
  BY <1>4, <1>5, FilesAre
<1>7. ASSUME NEW d, d["main"] = r.disk["main"], d["bak"] = r.disk["bak"],
             d["mainTmp"] \in {r.disk["mainTmp"], NoFile, c} \cup Cut(c)
      PROVE  SavePlace(r, c, d)
  BY <1>7 DEF SavePlace
<1>8. Along(x)
  BY <1>5, <1>6, <1>7
<1>9. PICK z \in WriteFile(x, "mainTmp", c) :
        y \in (IF z.ok THEN promoteJsonTempFile(z) ELSE DropTemp(z, "mainTmp"))
  BY <1>2, <1>5 DEF Carries
<1> HIDE DEF c
<1>10. Writes(x, "mainTmp", c, z)
  BY <1>3, <1>5, FilesAre, WriteIs
<1>11. Carries(r, z) /\ z \in Runs
  BY <1>5, <1>10, CarriesOn DEF Writes, Carries
<1>12. ASSUME NEW d, NEW k \in Cut(c) \cup {c}, d = [x.disk EXCEPT !["mainTmp"] = k]
       PROVE  /\ SavePlace(r, c, d) /\ d["mainTmp"] = k
              /\ d["main"] = r.disk["main"] /\ d["bak"] = r.disk["bak"]
  <2>1. d["mainTmp"] = k /\ d["main"] = r.disk["main"] /\ d["bak"] = r.disk["bak"]
    BY <1>6, <1>12, FilesAre
  <2> QED
    BY <1>7, <2>1
<1>13. Along(z)
  BY <1>8, <1>10, <1>12 DEF Writes
<1>14. CASE z.ok
  <2>1. /\ z.disk["mainTmp"] = c /\ z.disk["main"] = r.disk["main"] /\ z.disk["bak"] = r.disk["bak"]
        /\ y \in promoteJsonTempFile(z)
    BY <1>9, <1>10, <1>12, <1>14 DEF Writes
  <2>2. Saves(z, c, y)
    BY <1>3, <1>11, <2>1, PromoteIs
  <2>3. ASSUME NEW d, SavePlace(z, c, d)
        PROVE  SavePlace(r, c, d)
    BY <2>1, <2>3 DEF SavePlace
  <2>4. Along(y)
    BY <1>13, <2>2, <2>3 DEF Saves
  <2>5. Carries(r, y)
    BY <1>11, <2>2, CarriesOn DEF Saves
  <2>6. z.failures <= r.failures /\ z.failures \in Nat /\ r.failures \in Nat
    BY <1>11 DEF Carries, Runs
  <2>7. ~y.ok => \/ "rename" \in FaultKinds
                 \/ y.disk["main"] = r.disk["main"] /\ r.disk["main"] # NoFile
                 \/ y.disk["main"] = r.disk["main"] /\ "write" \in FaultKinds /\ r.failures > 0
    BY <2>1, <2>2, <2>6 DEF Saves
  <2>8. /\ SavePlace(r, c, y.disk) /\ (y.ok => y.disk["main"] = c)
        /\ FaultKinds \cap {"remove", "rename"} = {} => y.disk["mainTmp"] = NoFile
    BY <2>2, <2>3 DEF Saves
  <2>9. Saves(r, c, y)
    BY <2>4, <2>5, <2>7, <2>8 DEF Saves
  <2> QED
    BY <2>9 DEF c
<1>15. CASE ~z.ok
  <2>1. y \in DropTemp(z, "mainTmp") /\ z.disk \in [Files -> FileContents]
    BY <1>9, <1>11, <1>15, FilesAre
  <2>2. /\ z.disk["main"] = r.disk["main"] /\ z.disk["bak"] = r.disk["bak"]
        /\ z.disk["mainTmp"] \in Cut(c) /\ "write" \in FaultKinds /\ x.failures > 0
    <3>1. "write" \in FaultKinds /\ x.failures > 0 /\ \E k \in Cut(c) : z.disk = [x.disk EXCEPT !["mainTmp"] = k]
      BY <1>10, <1>15 DEF Writes
    <3> QED
      BY <1>12, <3>1
  <2>3. r.failures > 0
    BY <1>5, <2>2 DEF Carries, Runs
  <2>4. /\ Carries(z, y) /\ ~y.ok /\ y.trail \subseteq z.trail \cup {y.disk}
        /\ \/ y.disk = [z.disk EXCEPT !["mainTmp"] = NoFile]
           \/ y.disk = z.disk /\ "remove" \in FaultKinds
    BY <1>11, <2>1, FilesAre, DropTempIs
  <2>5. /\ y.disk["main"] = r.disk["main"] /\ y.disk["bak"] = r.disk["bak"]
        /\ y.disk["mainTmp"] \in {NoFile} \cup Cut(c)
        /\ "remove" \notin FaultKinds => y.disk["mainTmp"] = NoFile
    BY <2>1, <2>2, <2>4, FilesAre
  <2>6. SavePlace(r, c, y.disk)
    BY <1>7, <2>5
  <2>7. Along(y)
    BY <1>13, <2>4, <2>6
  <2>8. Carries(r, y)
    BY <1>11, <2>4, CarriesOn
  <2>9. Saves(r, c, y)
    BY <2>2, <2>3, <2>4, <2>5, <2>6, <2>7, <2>8 DEF Saves
  <2> QED
    BY <2>9 DEF c
<1> QED
  BY <1>14, <1>15

-----------------------------------------------------------------------------
(* Where a save passes, with its backup before and after.                  *)
PersistPlace(r, c, d) ==
  /\ d["mainTmp"] \in {r.disk["mainTmp"], NoFile, c} \cup Cut(c)
  /\ \/ d["main"] = r.disk["main"]
     \/ d["main"] = NoFile /\ d["mainTmp"] = c
     \/ d["main"] = c
     \/ "rename" \in FaultKinds
  /\ \/ d["bak"] \in {r.disk["bak"], NoFile}
     \/ d["bak"] = r.disk["main"] /\ HasData(r.disk["main"])
     \/ d["bak"] = c /\ d["main"] = c /\ HasData(c)

KeepsStats(r, y) ==
  /\ y \in Runs /\ y.failures <= r.failures
  /\ y.store.stats = r.store.stats /\ y.store.suspended = r.store.suspended

Persists(r, c, y) ==
  /\ KeepsStats(r, y)
  /\ PersistPlace(r, c, y.disk)
  /\ \A d \in y.trail : d \in r.trail \/ PersistPlace(r, c, d)
  /\ y.ok => y.saved /\ y.disk["main"] = c
  /\ ~y.ok => (y.saved <=> r.saved)
  /\ ~y.ok => \/ "rename" \in FaultKinds
              \/ y.disk["main"] = r.disk["main"] /\ r.disk["main"] # NoFile
              \/ y.disk["main"] = r.disk["main"] /\ "write" \in FaultKinds /\ r.failures > 0
  /\ FaultKinds \cap {"remove", "rename"} = {} => y.disk["mainTmp"] = NoFile

NothingDone(r, y) ==
  /\ KeepsStats(r, y) /\ (y.saved <=> r.saved)
  /\ y.ok /\ y.disk = r.disk /\ y.trail = r.trail

SavedNow(x) == {[x EXCEPT !.store.dirty = FALSE, !.saved = TRUE]}

LEMMA SavedNowIs ==
  ASSUME NEW r \in Runs, NEW y \in SavedNow(r)
  PROVE  KeepsStats(r, y) /\ y.disk = r.disk /\ y.trail = r.trail /\ y.saved
<1> DEFINE s == [r.store EXCEPT !.dirty = FALSE]
<1>1. s \in Stores /\ s.stats = r.store.stats /\ s.suspended = r.store.suspended
  <2>1. FALSE \in BOOLEAN
    OBVIOUS
  <2> QED
    BY <2>1 DEF Runs, Stores
<1>2. y = [r EXCEPT !.store = s, !.saved = TRUE] /\ TRUE \in BOOLEAN
  BY DEF SavedNow
<1> HIDE DEF s
<1>3. y \in Runs /\ y.store = s /\ y.disk = r.disk /\ y.trail = r.trail /\ y.saved = TRUE
      /\ y.failures = r.failures
  BY <1>1, <1>2 DEF Runs
<1>4. r.failures \in Nat
  BY DEF Runs
<1> QED
  BY <1>1, <1>3, <1>4 DEF KeepsStats

LEMMA KeepsStatsOn ==
  ASSUME NEW r \in Runs, NEW y, NEW z, KeepsStats(r, y), KeepsStats(y, z)
  PROVE  KeepsStats(r, z)
<1>1. r.failures \in Nat /\ y.failures \in Nat /\ z.failures \in Nat
  BY DEF KeepsStats, Runs
<1> QED
  BY <1>1 DEF KeepsStats

LEMMA StoreKeepsStats ==
  ASSUME NEW r, NEW y, KeepsStore(r, y)
  PROVE  KeepsStats(r, y) /\ (y.saved <=> r.saved)
<1>1. KeepsStats(r, y)
  BY DEF KeepsStore, KeepsStats
<1>2. y.saved <=> r.saved
  <2>1. y.saved = r.saved
    BY DEF KeepsStore
  <2> QED
    BY <2>1, Zenon
<1> QED
  BY <1>1, <1>2

LEMMA PersistIs ==
  ASSUME NEW r \in Runs, NEW y \in persistToFile(r)
  PROVE  IF r.store.suspended THEN NothingDone(r, y) ELSE Persists(r, Whole(r.store.stats), y)
<1> DEFINE c == Whole(r.store.stats)
           Along(x) == \A d \in x.trail : d \in r.trail \/ PersistPlace(r, c, d)
           Backup(x) == IF x.disk["bak"] = NoFile /\ x.store.stats # None
                        THEN UNION {Done(z) : z \in refreshInternalBackupFromMain(x)}
                        ELSE Done(x)
           SaveFirst(x) == UNION {IF z.ok THEN UNION {Backup(w) : w \in SavedNow(z)} ELSE Failed(z) :
                               z \in saveReadingStats(x)}
<1>1. persistToFile(r) = IF ~r.store.suspended THEN UNION {SaveFirst(x) : x \in prepareInternalBackup(r)}
                         ELSE Done(r)
  BY DEF persistToFile, SavingAllowed, Then, IfOk, SavedNow
<1>2. CASE r.store.suspended
  <2>1. y \in Done(r)
    BY <1>1, <1>2
  <2> QED
    BY <1>2, <2>1, StaysPut, StoreKeepsStats DEF NothingDone
<1>3. CASE ~r.store.suspended
  <2>1. PICK x \in prepareInternalBackup(r) : y \in SaveFirst(x)
    BY <1>1, <1>3
  <2>2. BacksUp(r, x) /\ KeepsStore(r, x) /\ x \in Runs /\ x.store.stats = r.store.stats
    BY <2>1, PrepareIs DEF BacksUp, KeepsStore
  <2>3. ASSUME NEW d, BakPlace(r, d)
        PROVE  PersistPlace(r, c, d)
    BY <2>3 DEF BakPlace, PersistPlace
  <2>4. BakPlace(r, x.disk) /\ Along(x)
    BY <2>2, <2>3 DEF BacksUp
  <2>5. ASSUME NEW d, SavePlace(x, c, d)
        PROVE  PersistPlace(r, c, d)
    BY <2>4, <2>5 DEF BakPlace, SavePlace, PersistPlace
  <2>6. PICK z \in saveReadingStats(x) :
          y \in (IF z.ok THEN UNION {Backup(w) : w \in SavedNow(z)} ELSE Failed(z))
    BY <2>1
  <2>7. Saves(x, c, z)
    BY <2>2, <2>6, SaveIs
  <2> HIDE DEF c
  <2>8. z \in Runs /\ KeepsStore(r, z) /\ z.disk["main"] \in {c, z.disk["main"]}
    BY <2>2, <2>7, CarriesKeeps, KeepsOn DEF Saves, KeepsStore
  <2>9. Along(z) /\ PersistPlace(r, c, z.disk)
    BY <2>4, <2>5, <2>7 DEF Saves
  <2>10. FaultKinds \cap {"remove", "rename"} = {} => z.disk["mainTmp"] = NoFile
    BY <2>7 DEF Saves
  <2>11. CASE ~z.ok
    <3>1. y \in Failed(z)
      BY <2>6, <2>11
    <3>2. KeepsStore(z, y) /\ y.disk = z.disk /\ y.trail = z.trail /\ ~y.ok
      BY <2>8, <3>1, StaysPut
    <3>3. KeepsStats(r, y) /\ (y.saved <=> r.saved)
      BY <2>8, <3>2, KeepsOn, StoreKeepsStats
    <3>4. \/ "rename" \in FaultKinds
          \/ y.disk["main"] = r.disk["main"] /\ r.disk["main"] # NoFile
          \/ y.disk["main"] = r.disk["main"] /\ "write" \in FaultKinds /\ r.failures > 0
      <4>1. x.failures <= r.failures /\ x.failures \in Nat /\ r.failures \in Nat
        BY <2>2 DEF KeepsStore, Runs
      <4> QED
        BY <2>4, <2>7, <2>11, <3>2, <4>1 DEF Saves, BakPlace
    <3> QED
      BY <1>3, <2>9, <2>10, <3>2, <3>3, <3>4 DEF Persists, c
  <2>12. CASE z.ok
    <3>1. PICK w \in SavedNow(z) : y \in Backup(w)
      BY <2>6, <2>12
    <3>2. KeepsStats(z, w) /\ w.disk = z.disk /\ w.trail = z.trail /\ w.saved /\ w \in Runs
      BY <2>8, <3>1, SavedNowIs DEF KeepsStats
    <3>3. KeepsStats(r, w) /\ w.disk["main"] = c
      BY <2>7, <2>8, <2>12, <3>2, StoreKeepsStats, KeepsStatsOn DEF Saves
    <3>4. w.store.stats = c.stats
      <4>1. r.store.stats = c.stats
        BY DEF Whole, c
      <4> QED
        BY <3>3, <4>1 DEF KeepsStats
    <3>5. ASSUME NEW u, BacksUp(w, u), NEW v, KeepsStore(u, v), v.disk = u.disk, v.trail = u.trail,
                 v = y, v.ok, u.disk = w.disk \/ HasData(c)
          PROVE  Persists(r, c, y)
      <4>1. KeepsStore(w, v) /\ KeepsStats(r, v) /\ v.saved
        <5>1. KeepsStore(w, v)
          BY <3>2, <3>5, KeepsOn DEF BacksUp
        <5>2. KeepsStats(w, v) /\ (v.saved <=> w.saved)
          BY <5>1, StoreKeepsStats
        <5> QED
          BY <3>2, <3>3, <5>1, <5>2, KeepsStatsOn
      <4>2. ASSUME NEW d, BakPlace(w, d)
            PROVE  PersistPlace(r, c, d)
        <5>1. d["main"] = c /\ d["mainTmp"] = z.disk["mainTmp"]
              /\ (d["bak"] \in {z.disk["bak"], NoFile} \/ (d["bak"] = c /\ HasData(c)))
          BY <3>2, <3>3, <4>2 DEF BakPlace
        <5> QED
          BY <2>9, <5>1 DEF PersistPlace
      <4>3. PersistPlace(r, c, y.disk) /\ Along(y)
        BY <2>9, <3>2, <3>5, <4>2 DEF BacksUp
      <4>4. y.disk["main"] = c /\ y.disk["mainTmp"] = z.disk["mainTmp"]
        BY <3>2, <3>3, <3>5 DEF BacksUp, BakPlace
      <4> QED
        BY <2>10, <3>5, <4>1, <4>3, <4>4 DEF Persists
    <3>6. CASE w.disk["bak"] = NoFile /\ w.store.stats # None
      <4>1. PICK u \in refreshInternalBackupFromMain(w) : y \in Done(u)
        BY <3>1, <3>6
      <4>2. BacksUp(w, u) /\ u \in Runs
        BY <3>2, <4>1, RefreshIs DEF BacksUp, KeepsStore
      <4>3. HasData(c)
        BY <3>4, <3>6 DEF HasData
      <4>4. KeepsStore(u, y) /\ y.disk = u.disk /\ y.trail = u.trail /\ y.ok
        BY <4>1, <4>2, StaysPut
      <4>5. Persists(r, c, y)
        BY <3>5, <4>2, <4>3, <4>4
      <4> QED
        BY <1>3, <4>5 DEF c
    <3>7. CASE ~(w.disk["bak"] = NoFile /\ w.store.stats # None)
      <4>1. y \in Done(w)
        BY <3>1, <3>7
      <4>2. KeepsStore(w, y) /\ y.disk = w.disk /\ y.trail = w.trail /\ y.ok
        BY <3>2, <4>1, StaysPut
      <4>3. BacksUp(w, w)
        BY <3>2, DoneIs, CarriesKeeps DEF BacksUp, BakPlace
      <4>4. Persists(r, c, y)
        BY <3>5, <4>2, <4>3
      <4> QED
        BY <1>3, <4>4 DEF c
    <3> QED
      BY <3>6, <3>7
  <2> QED
    BY <2>11, <2>12
<1> QED
  BY <1>2, <1>3

SaveEnds(r, due, y) ==
  \/ /\ NothingDone(r, y)
     /\ r.store.suspended \/ ~due \/ (~r.store.dirty /\ r.disk["main"] # NoFile)
  \/ ~r.store.suspended /\ Persists(r, Whole(r.store.stats), y)

LEMMA SaveToFileIs ==
  ASSUME NEW r \in Runs, NEW due \in BOOLEAN, NEW y \in saveToFile(r, due)
  PROVE  SaveEnds(r, due, y)
<1>1. CASE y \in Done(r) /\ (~due \/ (~r.store.dirty /\ r.disk["main"] # NoFile))
  BY <1>1, StaysPut, StoreKeepsStats DEF SaveEnds, NothingDone
<1>2. CASE y \in persistToFile(r)
  BY <1>2, PersistIs DEF SaveEnds
<1> QED
  BY <1>1, <1>2 DEF saveToFile

-----------------------------------------------------------------------------
(* Loading: the steps of loadFromFile.                                     *)
RecoverTemp(x) ==
  IF x.disk["main"] = NoFile /\ x.disk["mainTmp"] # NoFile THEN Rename(x, "mainTmp", "main") ELSE {x}
RecoverBackup(x) == IF x.disk["main"] = NoFile THEN restoreInternalBackupToMain(x) ELSE {x}
Again(x) == UNION {IF z.ok THEN Done(z) ELSE markLoadSkippedForRecovery(z) : z \in loadMainFile(x)}
AfterGood(x) ==
  IF x.store.stats = None
  THEN UNION {IF z.ok THEN Again(z) ELSE Done(z) : z \in restoreInternalBackupToMain(x)}
  ELSE Done(x)
AfterBad(x) ==
  UNION {IF z.ok THEN Again(z) ELSE markLoadSkippedForRecovery(z) : z \in restoreInternalBackupToMain(x)}
LoadRecovered(x) ==
  IF x.disk["main"] = NoFile THEN Failed(x)
  ELSE UNION {IF z.ok THEN AfterGood(z) ELSE AfterBad(z) : z \in loadMainFile(x)}

LEMMA LoadSteps ==
  ASSUME NEW r
  PROVE  loadFromFile(r)
           = UNION {LoadRecovered(x) : x \in UNION {RecoverBackup(z) : z \in RecoverTemp(r)}}
BY DEF loadFromFile, Then, IfOk, RecoverTemp, RecoverBackup, LoadRecovered, AfterGood, AfterBad, Again

Steady(r, y) == y \in Runs /\ y.failures <= r.failures /\ (y.saved <=> r.saved)

LEMMA SteadyOn ==
  ASSUME NEW r \in Runs, NEW y, NEW z, Steady(r, y), Steady(y, z)
  PROVE  Steady(r, z)
<1>1. r.failures \in Nat /\ y.failures \in Nat /\ z.failures \in Nat
  BY DEF Steady, Runs
<1> QED
  BY <1>1 DEF Steady

LEMMA StoreSteady ==
  ASSUME NEW r, NEW y, KeepsStore(r, y)
  PROVE  Steady(r, y)
BY StoreKeepsStats DEF KeepsStats, Steady

LEMMA MarkIs ==
  ASSUME NEW r \in Runs
  PROVE  /\ markLoadSkippedForRecovery(r) # {}
         /\ \A y \in markLoadSkippedForRecovery(r) :
              /\ Steady(r, y) /\ y.disk = r.disk /\ y.trail = r.trail
              /\ y.store.stats = r.store.stats /\ y.store.suspended /\ ~y.ok
<1>1. ASSUME NEW y \in markLoadSkippedForRecovery(r)
      PROVE  /\ Steady(r, y) /\ y.disk = r.disk /\ y.trail = r.trail
             /\ y.store.stats = r.store.stats /\ y.store.suspended /\ ~y.ok
  <2> DEFINE s == [r.store EXCEPT !.suspended = TRUE, !.prepared = FALSE, !.dirty = FALSE]
  <2>1. s \in Stores /\ s.stats = r.store.stats /\ s.suspended = TRUE
    <3>1. TRUE \in BOOLEAN /\ FALSE \in BOOLEAN
      OBVIOUS
    <3> QED
      BY <3>1 DEF Runs, Stores
  <2>2. y = [r EXCEPT !.store = s, !.ok = FALSE] /\ FALSE \in BOOLEAN
    BY DEF markLoadSkippedForRecovery
  <2> HIDE DEF s
  <2>3. y \in Runs /\ y.store = s /\ y.disk = r.disk /\ y.trail = r.trail /\ y.ok = FALSE
        /\ y.failures = r.failures
    BY <2>1, <2>2 DEF Runs
  <2>4. r.failures \in Nat
    BY DEF Runs
  <2>5. y.saved <=> r.saved
    <3>1. y.saved = r.saved
      BY <2>2 DEF Runs
    <3> QED
      BY <3>1, Zenon
  <2> QED
    BY <2>1, <2>3, <2>4, <2>5 DEF Steady
<1>2. markLoadSkippedForRecovery(r) # {}
  BY DEF markLoadSkippedForRecovery
<1> QED
  BY <1>1, <1>2

LoadsMain(r, y) ==
  /\ Steady(r, y) /\ BakPlace(r, y.disk)
  /\ \A d \in y.trail : d \in r.trail \/ BakPlace(r, d)
  /\ y.ok => /\ r.disk["main"].is = "whole" /\ y.store.stats = r.disk["main"].stats
             /\ ~y.store.suspended
  /\ ~y.ok => /\ y.store = r.store /\ y.disk = r.disk /\ y.trail = r.trail
              /\ r.disk["main"].is # "whole" \/ "load" \in FaultKinds

LoadedFrom(r) == {[r EXCEPT !.store.stats = r.disk["main"].stats, !.store.dirty = FALSE,
                            !.store.suspended = FALSE]}

LEMMA LoadedIs ==
  ASSUME NEW r \in Runs, NEW y \in LoadedFrom(r)
  PROVE  /\ Steady(r, y) /\ y.disk = r.disk /\ y.trail = r.trail
         /\ y.store.stats = r.disk["main"].stats /\ ~y.store.suspended
<1> DEFINE s == [r.store EXCEPT !.stats = r.disk["main"].stats, !.dirty = FALSE, !.suspended = FALSE]
<1>1. s \in Stores /\ s.stats = r.disk["main"].stats /\ s.suspended = FALSE
  <2>1. FALSE \in BOOLEAN /\ r.disk["main"].stats \in Stats
    BY FilesAre DEF FileContents
  <2> QED
    BY <2>1 DEF Runs, Stores
<1>2. y = [r EXCEPT !.store = s]
  BY DEF LoadedFrom
<1> HIDE DEF s
<1>3. y \in Runs /\ y.store = s /\ y.disk = r.disk /\ y.trail = r.trail /\ y.failures = r.failures
  BY <1>1, <1>2 DEF Runs
<1>4. r.failures \in Nat
  BY DEF Runs
<1>5. y.saved <=> r.saved
  <2>1. y.saved = r.saved
    BY <1>2 DEF Runs
  <2> QED
    BY <2>1, Zenon
<1> QED
  BY <1>1, <1>3, <1>4, <1>5 DEF Steady

LEMMA LoadMainIs ==
  ASSUME NEW r \in Runs
  PROVE  loadMainFile(r) # {} /\ \A y \in loadMainFile(r) : LoadsMain(r, y)
<1>0. BakPlace(r, r.disk) /\ Steady(r, r)
  <2>1. KeepsStore(r, r)
    BY DoneIs, CarriesKeeps
  <2> QED
    BY <2>1, StoreSteady DEF BakPlace
<1>1. CASE r.disk["main"].is = "whole"
  <2> DEFINE Through == UNION {UNION {Done(z) : z \in prepareInternalBackup(x)} : x \in LoadedFrom(r)}
  <2>1. loadMainFile(r) = Through \cup FailedBy(r, "load")
    BY <1>1 DEF loadMainFile, Then, LoadedFrom
  <2>2. ASSUME NEW x \in LoadedFrom(r), NEW z \in prepareInternalBackup(x)
        PROVE  Done(z) # {} /\ \A y \in Done(z) : LoadsMain(r, y)
    <3>1. /\ Steady(r, x) /\ x \in Runs /\ x.disk = r.disk /\ x.trail = r.trail
          /\ x.store.stats = r.disk["main"].stats /\ ~x.store.suspended
      BY LoadedIs DEF Steady
    <3>2. BacksUp(x, z) /\ z \in Runs
      BY <2>2, <3>1, PrepareIs DEF BacksUp, KeepsStore
    <3>3. ASSUME NEW y \in Done(z)
          PROVE  LoadsMain(r, y)
      <4>1. KeepsStore(z, y) /\ y.disk = z.disk /\ y.trail = z.trail /\ y.ok
        BY <3>2, StaysPut
      <4>2. BacksUp(x, y)
        BY <3>1, <3>2, <4>1, BackupAgain
      <4>3. Steady(r, y)
        BY <3>1, <4>2, StoreSteady, SteadyOn DEF BacksUp
      <4>4. BakPlace(r, y.disk) /\ \A d \in y.trail : d \in r.trail \/ BakPlace(r, d)
        BY <3>1, <4>2 DEF BacksUp, BakPlace
      <4>5. y.store.stats = r.disk["main"].stats /\ ~y.store.suspended
        <5>1. y.store.stats = x.store.stats /\ (y.store.suspended <=> x.store.suspended)
          BY <4>2, StoreKeepsStats DEF BacksUp, KeepsStore
        <5> QED
          BY <3>1, <5>1
      <4> QED
        BY <1>1, <4>1, <4>3, <4>4, <4>5 DEF LoadsMain
    <3> QED
      BY <3>2, <3>3, StaysPut
  <2>3. ASSUME NEW y \in FailedBy(r, "load")
        PROVE  LoadsMain(r, y)
    <3>1. Carries(r, y) /\ ~y.ok /\ y.disk = r.disk /\ y.trail = r.trail /\ "load" \in FaultKinds
      BY FailedByIs
    <3>2. Steady(r, y) /\ y.store = r.store
      BY <3>1, CarriesKeeps, StoreSteady DEF Carries
    <3> QED
      BY <1>0, <3>1, <3>2 DEF LoadsMain
  <2>4. Through # {}
    <3>1. PICK x \in LoadedFrom(r) : x \in Runs
      BY LoadedIs DEF Steady, LoadedFrom
    <3>2. PICK z \in prepareInternalBackup(x) : TRUE
      BY <3>1, PrepareIs
    <3> QED
      BY <2>2, <3>2
  <2> HIDE DEF Through
  <2>5. \A y \in Through : LoadsMain(r, y)
    BY <2>2 DEF Through
  <2> QED
    BY <2>1, <2>3, <2>4, <2>5
<1>2. CASE r.disk["main"].is # "whole"
  <2>1. loadMainFile(r) = Failed(r)
    BY <1>2 DEF loadMainFile
  <2>2. \A y \in Failed(r) : Carries(r, y) /\ ~y.ok /\ y.disk = r.disk /\ y.trail = r.trail
    BY DoneIs
  <2>3. \A y \in Failed(r) : Steady(r, y) /\ y.store = r.store
    BY <2>2, CarriesKeeps, StoreSteady DEF Carries
  <2> QED
    BY <1>0, <1>2, <2>1, <2>2, <2>3, StaysPut DEF LoadsMain
<1> QED
  BY <1>1, <1>2

(* Nothing in the files a load reads, or in memory, for book b. *)
ZeroOn(b, d) == d["main"].stats[b] = 0 /\ d["mainTmp"].stats[b] = 0 /\ d["bak"].stats[b] = 0
Blank(b, r) == ZeroOn(b, r.disk) /\ r.store.stats[b] = 0

Loading(r, y) ==
  /\ Steady(r, y)
  /\ \A b \in Books : Blank(b, r) =>
       Blank(b, y) /\ \A d \in y.trail : d \in r.trail \/ ZeroOn(b, d)

LEMMA LoadingOn ==
  ASSUME NEW r \in Runs, NEW y, NEW z, Loading(r, y), Loading(y, z)
  PROVE  Loading(r, z)
BY SteadyOn DEF Loading

LEMMA NoFileIsZero ==
  /\ \A b \in Books : NoFile.stats[b] = 0
  /\ \A c \in FileContents, b \in Books : c.stats[b] = 0 => \A x \in Cut(c) : x.stats[b] = 0
<1>1. \A b \in Books : NoFile.stats[b] = 0 /\ None[b] = 0
  BY DEF NoFile, None
<1> QED
  BY <1>1, ContentsAre DEF Cut, FileContents

LEMMA StayLoading ==
  ASSUME NEW r \in Runs, NEW y, Steady(r, y), y.disk = r.disk, y.trail = r.trail,
         y.store.stats = r.store.stats
  PROVE  Loading(r, y)
BY DEF Loading, Blank

LEMMA DoneLoading ==
  ASSUME NEW r \in Runs
  PROVE  /\ Done(r) # {} /\ Failed(r) # {} /\ markLoadSkippedForRecovery(r) # {}
         /\ \A y \in Done(r) \cup Failed(r) \cup markLoadSkippedForRecovery(r) : Loading(r, y)
<1>1. \A y \in Done(r) \cup Failed(r) : Loading(r, y)
  <2>1. \A y \in Done(r) \cup Failed(r) : KeepsStore(r, y) /\ y.disk = r.disk /\ y.trail = r.trail
    BY StaysPut
  <2> QED
    BY <2>1, StoreSteady, StayLoading DEF KeepsStore
<1>2. \A y \in markLoadSkippedForRecovery(r) : Loading(r, y)
  BY MarkIs, StayLoading
<1> QED
  BY <1>1, <1>2, StaysPut, MarkIs

LEMMA RestoreLoading ==
  ASSUME NEW r \in Runs, NEW y \in restoreInternalBackupToMain(r)
  PROVE  Loading(r, y)
<1>1. Restores(r, y)
  BY RestoreIs
<1>2. Steady(r, y) /\ y.store.stats = r.store.stats
  BY <1>1, StoreSteady DEF Restores, KeepsStore
<1>3. CASE ~HasData(r.disk["bak"])
  BY <1>1, <1>2, <1>3, StayLoading DEF Restores
<1>4. CASE HasData(r.disk["bak"])
  <2>1. ASSUME NEW b \in Books, Blank(b, r), NEW d, CopyPlace(r, "bak", "main", d)
        PROVE  ZeroOn(b, d)
    <3>1. /\ d["mainTmp"] \in {r.disk["mainTmp"], NoFile, r.disk["bak"]} \cup Cut(r.disk["bak"])
          /\ d["main"] \in {r.disk["main"], NoFile, r.disk["bak"]} /\ d["bak"] = r.disk["bak"]
      BY <2>1 DEF CopyPlace, Elsewhere, Temp, Files
    <3>2. r.disk["bak"] \in FileContents
      BY FilesAre
    <3> QED
      BY <2>1, <3>1, <3>2, NoFileIsZero DEF Blank, ZeroOn
  <2> QED
    BY <1>1, <1>2, <1>4, <2>1 DEF Loading, Restores, Blank
<1> QED
  BY <1>3, <1>4

LEMMA LoadMainLoading ==
  ASSUME NEW r \in Runs, NEW y \in loadMainFile(r)
  PROVE  Loading(r, y)
<1>1. LoadsMain(r, y)
  BY LoadMainIs
<1>2. ASSUME NEW b \in Books, Blank(b, r), NEW d, BakPlace(r, d)
      PROVE  ZeroOn(b, d)
  BY <1>2, NoFileIsZero DEF Blank, ZeroOn, BakPlace
<1>3. ASSUME NEW b \in Books, Blank(b, r)
      PROVE  y.store.stats[b] = 0
  BY <1>1, <1>3 DEF LoadsMain, Blank, ZeroOn
<1> QED
  BY <1>1, <1>2, <1>3 DEF Loading, LoadsMain, Blank

LEMMA TempLoading ==
  ASSUME NEW r \in Runs
  PROVE  /\ RecoverTemp(r) # {}
         /\ \A y \in RecoverTemp(r) : Loading(r, y)
<1>1. CASE r.disk["main"] = NoFile /\ r.disk["mainTmp"] # NoFile
  <2>1. RecoverTemp(r) = Rename(r, "mainTmp", "main")
    BY <1>1 DEF RecoverTemp
  <2>2. RecoverTemp(r) # {} /\ \A y \in RecoverTemp(r) : Renamed(r, "mainTmp", "main", y)
    BY <2>1, FilesAre, RenameIs
  <2>3. ASSUME NEW y \in RecoverTemp(r)
        PROVE  Loading(r, y)
    <3>1. /\ Carries(r, y) /\ y.trail \subseteq r.trail \cup {y.disk}
          /\ \/ y.disk = [r.disk EXCEPT !["main"] = r.disk["mainTmp"], !["mainTmp"] = NoFile]
             \/ y.disk = r.disk
      BY <2>2 DEF Renamed
    <3>2. Steady(r, y) /\ y.store.stats = r.store.stats
      BY <3>1, CarriesKeeps, StoreSteady DEF Carries
    <3>3. /\ y.disk["main"] \in {r.disk["main"], r.disk["mainTmp"]} /\ y.disk["bak"] = r.disk["bak"]
          /\ y.disk["mainTmp"] \in {r.disk["mainTmp"], NoFile}
      BY <3>1, FilesAre
    <3>4. \A b \in Books : Blank(b, r) => ZeroOn(b, y.disk)
      BY <3>3, NoFileIsZero DEF Blank, ZeroOn
    <3> QED
      BY <3>1, <3>2, <3>4 DEF Loading, Blank
  <2> QED
    BY <2>2, <2>3
<1>2. CASE ~(r.disk["main"] = NoFile /\ r.disk["mainTmp"] # NoFile)
  <2>1. RecoverTemp(r) = {r}
    BY <1>2 DEF RecoverTemp
  <2>2. Steady(r, r)
    BY DoneIs, CarriesKeeps, StoreSteady
  <2> QED
    BY <2>1, <2>2, StayLoading
<1> QED
  BY <1>1, <1>2

LEMMA AgainLoading ==
  ASSUME NEW r \in Runs
  PROVE  Again(r) # {} /\ \A y \in Again(r) : Loading(r, y)
<1>1. ASSUME NEW z \in loadMainFile(r)
      PROVE  /\ Loading(r, z) /\ Done(z) # {} /\ markLoadSkippedForRecovery(z) # {}
             /\ \A y \in Done(z) \cup markLoadSkippedForRecovery(z) : Loading(z, y)
  <2>1. Loading(r, z) /\ z \in Runs
    BY LoadMainLoading DEF Loading, Steady
  <2> QED
    BY <2>1, DoneLoading
<1>2. loadMainFile(r) # {}
  BY LoadMainIs
<1>3. ASSUME NEW y \in Again(r)
      PROVE  Loading(r, y)
  <2>1. PICK z \in loadMainFile(r) : y \in Done(z) \cup markLoadSkippedForRecovery(z)
    BY DEF Again
  <2> QED
    BY <1>1, <2>1, LoadingOn
<1>4. Again(r) # {}
  <2>1. PICK z \in loadMainFile(r) : TRUE
    BY <1>2
  <2> QED
    BY <1>1, <2>1 DEF Again
<1> QED
  BY <1>3, <1>4

LEMMA AfterLoading ==
  ASSUME NEW r \in Runs
  PROVE  /\ AfterGood(r) # {} /\ AfterBad(r) # {}
         /\ \A y \in AfterGood(r) \cup AfterBad(r) : Loading(r, y)
<1>1. ASSUME NEW z \in restoreInternalBackupToMain(r)
      PROVE  /\ Loading(r, z) /\ Again(z) # {} /\ Done(z) # {} /\ markLoadSkippedForRecovery(z) # {}
             /\ \A y \in Again(z) \cup Done(z) \cup markLoadSkippedForRecovery(z) : Loading(z, y)
  <2>1. Loading(r, z) /\ z \in Runs
    BY RestoreLoading DEF Loading, Steady
  <2> QED
    BY <2>1, DoneLoading, AgainLoading
<1>2. PICK z0 \in restoreInternalBackupToMain(r) : TRUE
  BY RestoreIs
<1>3. ASSUME NEW y \in AfterGood(r) \cup AfterBad(r)
      PROVE  Loading(r, y)
  <2>1. CASE y \in Done(r)
    BY <2>1, DoneLoading
  <2>2. CASE \E z \in restoreInternalBackupToMain(r) :
               y \in Again(z) \cup Done(z) \cup markLoadSkippedForRecovery(z)
    BY <1>1, <2>2, LoadingOn
  <2> QED
    BY <2>1, <2>2 DEF AfterGood, AfterBad
<1>4. AfterBad(r) # {}
  BY <1>1, <1>2 DEF AfterBad
<1>5. AfterGood(r) # {}
  BY <1>1, <1>2, DoneLoading DEF AfterGood
<1> QED
  BY <1>3, <1>4, <1>5

LEMMA LoadRecoveredLoading ==
  ASSUME NEW r \in Runs
  PROVE  LoadRecovered(r) # {} /\ \A y \in LoadRecovered(r) : Loading(r, y)
<1>1. CASE r.disk["main"] = NoFile
  BY <1>1, DoneLoading DEF LoadRecovered
<1>2. CASE r.disk["main"] # NoFile
  <2>1. LoadRecovered(r) = UNION {IF z.ok THEN AfterGood(z) ELSE AfterBad(z) : z \in loadMainFile(r)}
    BY <1>2 DEF LoadRecovered
  <2>2. ASSUME NEW z \in loadMainFile(r)
        PROVE  /\ Loading(r, z) /\ AfterGood(z) # {} /\ AfterBad(z) # {}
               /\ \A y \in AfterGood(z) \cup AfterBad(z) : Loading(z, y)
    <3>1. Loading(r, z) /\ z \in Runs
      BY LoadMainLoading DEF Loading, Steady
    <3> QED
      BY <3>1, AfterLoading
  <2>3. PICK z0 \in loadMainFile(r) : TRUE
    BY LoadMainIs
  <2>4. ASSUME NEW y \in LoadRecovered(r)
        PROVE  Loading(r, y)
    <3>1. PICK z \in loadMainFile(r) : y \in AfterGood(z) \cup AfterBad(z)
      BY <2>1
    <3> QED
      BY <2>2, <3>1, LoadingOn
  <2>5. LoadRecovered(r) # {}
    BY <2>1, <2>2, <2>3
  <2> QED
    BY <2>4, <2>5
<1> QED
  BY <1>1, <1>2

LEMMA LoadIs ==
  ASSUME NEW r \in Runs
  PROVE  loadFromFile(r) # {} /\ \A y \in loadFromFile(r) : Loading(r, y)
<1>1. ASSUME NEW z \in RecoverTemp(r)
      PROVE  /\ Loading(r, z) /\ z \in Runs /\ RecoverBackup(z) # {}
             /\ \A x \in RecoverBackup(z) : Loading(z, x)
  <2>1. Loading(r, z) /\ z \in Runs
    BY TempLoading DEF Loading, Steady
  <2>2. Loading(z, z)
    BY <2>1, DoneIs, CarriesKeeps, StoreSteady, StayLoading
  <2> QED
    BY <2>1, <2>2, RestoreIs, RestoreLoading DEF RecoverBackup
<1>2. ASSUME NEW x \in UNION {RecoverBackup(z) : z \in RecoverTemp(r)}
      PROVE  /\ Loading(r, x) /\ x \in Runs /\ LoadRecovered(x) # {}
             /\ \A y \in LoadRecovered(x) : Loading(x, y)
  <2>1. Loading(r, x)
    BY <1>1, LoadingOn
  <2>2. x \in Runs
    BY <2>1 DEF Loading, Steady
  <2> QED
    BY <2>1, <2>2, LoadRecoveredLoading
<1>3. UNION {RecoverBackup(z) : z \in RecoverTemp(r)} # {}
  BY <1>1, TempLoading
<1>4. loadFromFile(r) # {}
  BY <1>2, <1>3, LoadSteps
<1>5. ASSUME NEW y \in loadFromFile(r)
      PROVE  Loading(r, y)
  <2>1. PICK x \in UNION {RecoverBackup(z) : z \in RecoverTemp(r)} : y \in LoadRecovered(x)
    BY LoadSteps
  <2> QED
    BY <1>2, <2>1, LoadingOn
<1> QED
  BY <1>4, <1>5

(* The file that a boot loads, if nothing goes wrong with it. *)
MainOf(d) == IF d["main"] = NoFile THEN d["mainTmp"] ELSE d["main"]

LEMMA LoadGood ==
  ASSUME NEW r \in Runs, FaultKinds \cap {"rename", "load"} = {},
         MainOf(r.disk).is = "whole", HasData(MainOf(r.disk)), NEW y \in loadFromFile(r)
  PROVE  /\ y.disk["main"] = MainOf(r.disk)
         /\ y.store.stats = MainOf(r.disk).stats /\ ~y.store.suspended
         /\ \A d \in y.trail : d \in r.trail \/ MainOf(d) = MainOf(r.disk)
<1> DEFINE m == MainOf(r.disk)
           Along(x) == \A d \in x.trail : d \in r.trail \/ MainOf(d) = m
<1>1. m # NoFile
  BY DEF NoFile
<1>2. PICK w \in RecoverTemp(r) : \E x \in RecoverBackup(w) : y \in LoadRecovered(x)
  BY LoadSteps
<1>3. w.disk["main"] = m /\ Along(w) /\ w \in Runs
  <2>1. CASE r.disk["main"] = NoFile
    <3>1. w \in Rename(r, "mainTmp", "main") /\ m = r.disk["mainTmp"]
      BY <1>1, <1>2, <2>1 DEF RecoverTemp, MainOf
    <3>2. Renamed(r, "mainTmp", "main", w)
      BY <3>1, FilesAre, RenameIs
    <3>3. /\ w.disk = [r.disk EXCEPT !["main"] = r.disk["mainTmp"], !["mainTmp"] = NoFile]
          /\ w.trail \subseteq r.trail \cup {w.disk} /\ w \in Runs
      BY <1>1, <2>1, <3>1, <3>2 DEF Renamed, Carries
    <3>4. w.disk["main"] = m
      BY <3>1, <3>3, FilesAre
    <3>5. MainOf(w.disk) = m
      BY <1>1, <3>4 DEF MainOf
    <3> QED
      BY <3>3, <3>4, <3>5
  <2>2. CASE r.disk["main"] # NoFile
    BY <1>2, <2>2 DEF RecoverTemp, MainOf
  <2> QED
    BY <2>1, <2>2
<1>4. y \in LoadRecovered(w)
  BY <1>1, <1>2, <1>3 DEF RecoverBackup
<1>5. PICK z \in loadMainFile(w) : y \in (IF z.ok THEN AfterGood(z) ELSE AfterBad(z))
  BY <1>1, <1>3, <1>4 DEF LoadRecovered
<1>6. LoadsMain(w, z)
  BY <1>3, <1>5, LoadMainIs
<1>7. z.ok /\ z.store.stats = m.stats /\ ~z.store.suspended /\ z \in Runs
  BY <1>3, <1>6 DEF LoadsMain, Steady
<1>8. y \in Done(z)
  BY <1>5, <1>7 DEF AfterGood, HasData
<1>9. y.disk = z.disk /\ y.trail = z.trail /\ y.store = z.store
  BY <1>7, <1>8, DoneIs DEF Carries
<1>10. \A d : BakPlace(w, d) => d["main"] = m /\ MainOf(d) = m
  BY <1>1, <1>3 DEF BakPlace, MainOf
<1>11. Along(y) /\ y.disk["main"] = m
  BY <1>3, <1>6, <1>9, <1>10 DEF LoadsMain
<1> QED
  BY <1>7, <1>9, <1>11

-----------------------------------------------------------------------------
(* What was saved holds along a load, and along a save.                    *)

Holds(d, D) == D = None \/ (MainOf(d).is = "whole" /\ AtLeast(MainOf(d).stats, D))
Covered(s, D) == ~s.suspended => AtLeast(s.stats, D)
Safe(d, s, n, D) ==
  /\ Holds(d, D)
  /\ D # None => /\ ~s.suspended => d["main"] # NoFile
                 /\ s.suspended => ~("write" \in FaultKinds /\ n > 0)

LEMMA AtLeastIs ==
  /\ \A s \in Stats : AtLeast(s, None) /\ AtLeast(s, s)
  /\ \A s \in Stats, t \in Stats, v \in Stats : AtLeast(s, t) /\ AtLeast(t, v) => AtLeast(s, v)
  /\ \A s \in Stats, t \in Stats : AtLeast(s, t) /\ t # None => s # None
  /\ \A s \in Stats, t \in Stats :
       /\ Higher(s, t) \in Stats /\ Lower(s, t) \in Stats
       /\ AtLeast(Higher(s, t), s) /\ AtLeast(Higher(s, t), t)
       /\ AtLeast(s, Lower(s, t)) /\ AtLeast(t, Lower(s, t))
       /\ AtLeast(t, s) => Higher(s, t) = t
<1>1. \A s \in Stats : AtLeast(s, None) /\ AtLeast(s, s)
  BY DEF AtLeast, None, Stats
<1>2. \A s \in Stats, t \in Stats, v \in Stats : AtLeast(s, t) /\ AtLeast(t, v) => AtLeast(s, v)
  BY DEF AtLeast, Stats
<1>3. ASSUME NEW s \in Stats, NEW t \in Stats, AtLeast(s, t), s = None
      PROVE  t = None
  <2>1. \A b \in Books : t[b] = 0
    BY <1>3 DEF AtLeast, None, Stats
  <2> QED
    BY <2>1 DEF None, Stats
<1>4. ASSUME NEW s \in Stats, NEW t \in Stats
      PROVE  /\ Higher(s, t) \in Stats /\ Lower(s, t) \in Stats
             /\ AtLeast(Higher(s, t), s) /\ AtLeast(Higher(s, t), t)
             /\ AtLeast(s, Lower(s, t)) /\ AtLeast(t, Lower(s, t))
             /\ AtLeast(t, s) => Higher(s, t) = t
  <2>1. Higher(s, t) \in Stats /\ Lower(s, t) \in Stats
    BY DEF Higher, Lower, Stats
  <2>2. AtLeast(Higher(s, t), s) /\ AtLeast(Higher(s, t), t)
    BY DEF Higher, AtLeast, Stats
  <2>3. AtLeast(s, Lower(s, t)) /\ AtLeast(t, Lower(s, t))
    BY DEF Lower, AtLeast, Stats
  <2>4. ASSUME AtLeast(t, s)
        PROVE  Higher(s, t) = t
    <3>1. \A b \in Books : Higher(s, t)[b] = t[b]
      BY <2>4 DEF Higher, AtLeast, Stats
    <3> QED
      BY <2>1, <3>1 DEF Stats
  <2> QED
    BY <2>1, <2>2, <2>3, <2>4
<1> QED
  BY <1>1, <1>2, <1>3, <1>4

LEMMA MainOfIs ==
  ASSUME NEW d \in Disks
  PROVE  MainOf(d) \in FileContents /\ MainOf(d).stats \in Stats
BY FilesAre DEF MainOf, Disks, FileContents, Files

LEMMA HoldsLess ==
  ASSUME NEW d \in Disks, NEW D \in Stats, NEW E \in Stats, Holds(d, D), AtLeast(D, E)
  PROVE  Holds(d, E)
<1>1. CASE D = None
  BY <1>1, AtLeastIs, ContentsAre DEF Holds
<1>2. CASE D # None
  BY <1>2, AtLeastIs, MainOfIs DEF Holds
<1> QED
  BY <1>1, <1>2

LEMMA LoadHolds ==
  ASSUME NEW r \in Runs, NEW D \in Stats, FaultKinds \cap {"rename", "load"} = {},
         Holds(r.disk, D), NEW y \in loadFromFile(r)
  PROVE  /\ Safe(y.disk, y.store, y.failures, D) /\ Covered(y.store, D)
         /\ \A d \in y.trail : d \in r.trail \/ Holds(d, D)
<1>1. y \in Runs /\ y.store.stats \in Stats
  BY LoadIs DEF Loading, Steady, Runs, Stores
<1>2. CASE D = None
  BY <1>1, <1>2, AtLeastIs DEF Safe, Covered, Holds
<1>3. CASE D # None
  <2> DEFINE m == MainOf(r.disk)
  <2>1. m.is = "whole" /\ AtLeast(m.stats, D) /\ m.stats \in Stats
    BY <1>3, MainOfIs DEF Holds, Runs
  <2>2. HasData(m)
    BY <1>3, <2>1, AtLeastIs DEF HasData
  <2>3. /\ y.disk["main"] = m /\ y.store.stats = m.stats /\ ~y.store.suspended
        /\ \A d \in y.trail : d \in r.trail \/ MainOf(d) = m
    BY <2>1, <2>2, LoadGood
  <2>4. m # NoFile
    BY <2>1 DEF NoFile
  <2>5. MainOf(y.disk) = m
    BY <2>3, <2>4 DEF MainOf
  <2> HIDE DEF m
  <2>6. Safe(y.disk, y.store, y.failures, D)
    BY <2>1, <2>3, <2>4, <2>5 DEF Safe, Holds
  <2>7. Covered(y.store, D)
    BY <2>1, <2>3 DEF Covered
  <2>8. \A d \in y.trail : d \in r.trail \/ Holds(d, D)
    BY <2>1, <2>3 DEF Holds
  <2> QED
    BY <2>6, <2>7, <2>8
<1> QED
  BY <1>2, <1>3

Note(y, D) == IF y.saved THEN Higher(D, y.store.stats) ELSE D

LEMMA SaveHolds ==
  ASSUME NEW r \in Runs, NEW D \in Stats, "rename" \notin FaultKinds,
         Safe(r.disk, r.store, r.failures, Note(r, D)), Covered(r.store, D),
         NEW due \in BOOLEAN, NEW y \in saveToFile(r, due)
  PROVE  /\ y \in Runs /\ y.store.stats = r.store.stats /\ (y.store.suspended <=> r.store.suspended)
         /\ Safe(y.disk, y.store, y.failures, Note(y, D)) /\ Covered(y.store, Note(y, D))
         /\ \A d \in y.trail : d \in r.trail \/ Holds(d, D)
<1> DEFINE S == r.store.stats
           c == Whole(S)
           G == Note(r, D)
<1>1. SaveEnds(r, due, y)
  BY SaveToFileIs
<1>2. KeepsStats(r, y) /\ y \in Runs /\ y.store.stats = S /\ (y.store.suspended <=> r.store.suspended)
  <2>1. KeepsStats(r, y)
    BY <1>1 DEF SaveEnds, NothingDone, Persists
  <2>2. y.store.suspended = r.store.suspended
    BY <2>1 DEF KeepsStats
  <2>3. y.store.suspended <=> r.store.suspended
    BY <2>2, Zenon
  <2> QED
    BY <2>1, <2>3 DEF KeepsStats
<1>3. S \in Stats /\ G \in Stats /\ r.failures \in Nat /\ y.failures \in Nat /\ y.failures <= r.failures
  <2>1. S \in Stats /\ r.failures \in Nat /\ y.failures \in Nat /\ y.failures <= r.failures
    BY <1>2 DEF Runs, Stores, KeepsStats
  <2> QED
    BY <2>1, AtLeastIs DEF Note
<1>4. AtLeast(G, D)
  BY <1>3, AtLeastIs DEF Note
<1>5. ~r.store.suspended => AtLeast(S, D) /\ AtLeast(S, G) /\ Higher(D, S) = S
  BY <1>3, AtLeastIs DEF Covered, Note
<1> HIDE DEF c, S, G
<1>6. CASE NothingDone(r, y)
  <2>1. y.disk = r.disk /\ y.trail = r.trail /\ (y.saved <=> r.saved)
    BY <1>6 DEF NothingDone
  <2>2. Note(y, D) = G
    BY <1>2, <2>1 DEF Note, G, S
  <2>3. Safe(y.disk, y.store, y.failures, Note(y, D))
    BY <1>2, <1>3, <2>1, <2>2 DEF Safe, G
  <2>4. Covered(y.store, Note(y, D))
    BY <1>2, <1>5, <2>2 DEF Covered
  <2> QED
    BY <1>2, <2>1, <2>3, <2>4 DEF S
<1>7. CASE ~r.store.suspended /\ Persists(r, c, y)
  <2>1. c.is = "whole" /\ c.stats = S /\ c # NoFile
    BY DEF c, Whole, NoFile
  <2>2. D # None => G # None
    BY <1>3, <1>4, AtLeastIs
  <2>3. G # None => /\ r.disk["main"] # NoFile /\ r.disk["main"].is = "whole"
                    /\ AtLeast(r.disk["main"].stats, G)
    BY <1>7 DEF Safe, Holds, MainOf, G
  <2>4. G # None => AtLeast(r.disk["main"].stats, D)
    BY <1>3, <1>4, <2>3, AtLeastIs, FilesAre DEF FileContents
  <2>5. ASSUME NEW d, PersistPlace(r, c, d)
        PROVE  Holds(d, D)
    <3>1. CASE D = None
      BY <3>1 DEF Holds
    <3>2. CASE D # None /\ d["main"] = r.disk["main"]
      BY <2>2, <2>3, <2>4, <3>2 DEF Holds, MainOf
    <3>3. CASE D # None /\ (d["main"] = c \/ (d["main"] = NoFile /\ d["mainTmp"] = c))
      BY <1>5, <1>7, <2>1, <3>3 DEF Holds, MainOf
    <3> QED
      BY <2>5, <3>1, <3>2, <3>3 DEF PersistPlace
  <2>6. \A d \in y.trail : d \in r.trail \/ Holds(d, D)
    BY <1>7, <2>5 DEF Persists
  <2>7. CASE y.ok
    <3>1. Note(y, D) = S /\ y.disk["main"] = c
      BY <1>2, <1>5, <1>7, <2>7 DEF Note, Persists
    <3>2. Holds(y.disk, S)
      BY <1>3, <2>1, <3>1, AtLeastIs DEF Holds, MainOf
    <3>3. Safe(y.disk, y.store, y.failures, S)
      BY <1>2, <1>7, <2>1, <3>1, <3>2 DEF Safe
    <3>4. Covered(y.store, S)
      BY <1>2, <1>3, AtLeastIs DEF Covered
    <3> QED
      BY <1>2, <2>6, <3>1, <3>3, <3>4 DEF S
  <2>8. CASE ~y.ok
    <3>1. Note(y, D) = G
      BY <1>2, <1>7, <2>8 DEF Note, Persists, G, S
    <3>2. y.disk["main"] = r.disk["main"]
      BY <1>7, <2>8 DEF Persists
    <3>3. Safe(y.disk, y.store, y.failures, G)
      BY <1>2, <1>7, <2>3, <3>2 DEF Safe, Holds, MainOf
    <3>4. Covered(y.store, G)
      BY <1>2, <1>5, <1>7 DEF Covered
    <3> QED
      BY <1>2, <2>6, <3>1, <3>3, <3>4 DEF S
  <2> QED
    BY <2>7, <2>8
<1> QED
  BY <1>1, <1>6, <1>7 DEF SaveEnds, c, S

-----------------------------------------------------------------------------
(* The operations: what they start from, and where they end.               *)

WithStore(r, s) == [r EXCEPT !.store = s]

LEMMA WithStoreIs ==
  ASSUME NEW r \in Runs, NEW s \in Stores
  PROVE  /\ WithStore(r, s) \in Runs /\ WithStore(r, s).store = s
         /\ WithStore(r, s).disk = r.disk /\ WithStore(r, s).trail = r.trail
         /\ WithStore(r, s).failures = r.failures /\ (WithStore(r, s).saved <=> r.saved)
         /\ (WithStore(r, s).ok <=> r.ok)
<1>1. /\ WithStore(r, s) \in Runs /\ WithStore(r, s).store = s
      /\ WithStore(r, s).disk = r.disk /\ WithStore(r, s).trail = r.trail
      /\ WithStore(r, s).failures = r.failures
  BY DEF WithStore, Runs
<1>2. WithStore(r, s).saved = r.saved /\ WithStore(r, s).ok = r.ok
  BY DEF WithStore, Runs
<1>3. (WithStore(r, s).saved <=> r.saved) /\ (WithStore(r, s).ok <=> r.ok)
  BY <1>2, Zenon
<1> QED
  BY <1>1, <1>3

LEMMA StoreSetsAre ==
  ASSUME NEW s \in Stores, NEW t \in Stats
  PROVE  /\ [s EXCEPT !.dirty = TRUE] \in Stores /\ [s EXCEPT !.dirty = TRUE].stats = s.stats
         /\ [s EXCEPT !.dirty = TRUE].suspended = s.suspended
         /\ [s EXCEPT !.stats = t, !.dirty = TRUE] \in Stores
         /\ [s EXCEPT !.stats = t, !.dirty = TRUE].stats = t
         /\ [s EXCEPT !.stats = t, !.dirty = TRUE].suspended = s.suspended
         /\ [s EXCEPT !.stats = None, !.dirty = FALSE] \in Stores
         /\ [s EXCEPT !.stats = None, !.dirty = FALSE].stats = None
         /\ [s EXCEPT !.stats = None, !.dirty = FALSE].suspended = s.suspended
         /\ Fresh \in Stores
         /\ [Fresh EXCEPT !.prepared = TRUE, !.dirty = TRUE] \in Stores
         /\ [stats |-> t, dirty |-> TRUE, suspended |-> FALSE, prepared |-> TRUE] \in Stores
<1>1. TRUE \in BOOLEAN /\ FALSE \in BOOLEAN /\ None \in Stats
  BY ContentsAre
<1> QED
  BY <1>1 DEF Stores, Fresh

LEMMA NowIs ==
  ASSUME StoreTypeOK
  PROVE  /\ Now \in Runs /\ Now.disk = disk /\ Now.store = store /\ Now.failures = failures
         /\ Now.trail = {disk} /\ ~Now.saved /\ Now.ok
<1>1. TRUE \in BOOLEAN /\ FALSE \in BOOLEAN
  OBVIOUS
<1>2. disk \in Disks /\ store \in Stores /\ failures \in 0 .. MaxFailures
  BY DEF StoreTypeOK, Disks, FileContents, Stores
<1>3. {disk} \in SUBSET Disks
  BY <1>2
<1> QED
  BY <1>1, <1>2, <1>3 DEF Now, Run, Runs

LEMMA EndsTyped ==
  ASSUME NEW y \in Runs, Ends(y), active' \in Books \cup {"none"}, network' \in BOOLEAN,
         durable' \in Stats, forgotten' \in [Books -> {"no", "reset", "removed"}]
  PROVE  StoreTypeOK'
<1>1. y.disk \in Disks /\ y.store \in Stores /\ y.failures \in 0 .. MaxFailures
  BY DEF Runs
<1>2. up' \in BOOLEAN
  <2>1. up' = TRUE
    BY DEF Ends
  <2> QED
    BY <2>1
<1> QED
  BY <1>1, <1>2 DEF Ends, StoreTypeOK, Disks, FileContents, Stores, Stats, None

LEMMA CutTyped ==
  ASSUME NEW y \in Runs, PowerGoes(y), durable' \in Stats,
         forgotten' \in [Books -> {"no", "reset", "removed"}]
  PROVE  StoreTypeOK'
<1>1. y.trail \subseteq Disks /\ y.failures \in 0 .. MaxFailures /\ Fresh \in Stores
  BY ContentsAre DEF Runs, Stores, Fresh
<1>2. up' \in BOOLEAN /\ network' \in BOOLEAN
  <2>1. up' = FALSE /\ network' = FALSE
    BY DEF PowerGoes
  <2> QED
    BY <2>1
<1>3. disk' \in Disks /\ store' \in Stores /\ failures' \in 0 .. MaxFailures
  BY <1>1 DEF PowerGoes
<1>4. active' \in Books \cup {"none"}
  BY DEF PowerGoes
<1> QED
  BY <1>2, <1>3, <1>4 DEF StoreTypeOK, Disks, FileContents, Stores, Stats, None

Starts(r) ==
  /\ r \in Runs /\ r.disk = disk /\ r.trail = {disk} /\ r.failures = failures
  /\ ~r.saved /\ (r.store.suspended <=> store.suspended)

LEMMA NowStarts == ASSUME StoreTypeOK PROVE Starts(Now)
<1>1. /\ Now \in Runs /\ Now.disk = disk /\ Now.store = store /\ Now.failures = failures
      /\ Now.trail = {disk} /\ ~Now.saved
  BY NowIs
<1> QED
  BY <1>1 DEF Starts

LEMMA WithIs ==
  ASSUME StoreTypeOK, NEW s \in Stats
  PROVE  Starts(With(s)) /\ With(s).store.stats = s
<1> DEFINE t == [store EXCEPT !.stats = s, !.dirty = TRUE]
<1>1. store \in Stores
  BY DEF StoreTypeOK, Stores
<1>2. t \in Stores /\ t.stats = s /\ t.suspended = store.suspended
  BY <1>1, StoreSetsAre
<1>3. Now \in Runs /\ Now.disk = disk /\ Now.store = store /\ Now.failures = failures
      /\ Now.trail = {disk} /\ ~Now.saved
  BY NowIs
<1>4. With(s) = WithStore(Now, t)
  BY <1>3 DEF With, WithStore
<1>5. t.suspended <=> store.suspended
  BY <1>2, Zenon
<1> HIDE DEF t
<1>6. /\ WithStore(Now, t) \in Runs /\ WithStore(Now, t).store = t
      /\ WithStore(Now, t).disk = disk /\ WithStore(Now, t).trail = {disk}
      /\ WithStore(Now, t).failures = failures /\ ~WithStore(Now, t).saved
  BY <1>2, <1>3, WithStoreIs
<1> QED
  BY <1>2, <1>4, <1>5, <1>6 DEF Starts

LEMMA CreditedIs ==
  ASSUME StoreTypeOK, NEW b \in Books, store.stats[b] < MaxRead
  PROVE  Starts(Credited(b)) /\ AtLeast(Credited(b).store.stats, store.stats)
<1> DEFINE s == [store.stats EXCEPT ![b] = store.stats[b] + 1]
<1>1. s \in Stats /\ AtLeast(s, store.stats)
  BY DEF StoreTypeOK, Stats, AtLeast
<1>2. Credited(b) = With(s)
  BY DEF Credited
<1> HIDE DEF s
<1> QED
  BY <1>1, <1>2, WithIs

LEMMA SaveTyped ==
  ASSUME NEW r \in Runs, NEW due \in BOOLEAN, NEW y \in saveToFile(r, due)
  PROVE  KeepsStats(r, y) /\ y \in Runs
BY SaveToFileIs DEF SaveEnds, NothingDone, Persists, KeepsStats

LEMMA SessionEndedIs ==
  ASSUME StoreTypeOK, NEW y \in SessionEnded
  PROVE  y \in Runs /\ ( \/ y = Now
                         \/ \E r : /\ Starts(r) /\ AtLeast(r.store.stats, store.stats)
                                   /\ y \in saveToFile(r, TRUE) )
<1>1. CASE active = "none"
  BY <1>1, NowIs DEF SessionEnded
<1>2. CASE active # "none"
  <2>1. active \in Books
    BY <1>2 DEF StoreTypeOK
  <2>2. PICK r : y \in saveToFile(r, TRUE) /\ (r = Now \/ (r = Credited(active) /\ store.stats[active] < MaxRead))
    BY <1>2 DEF SessionEnded
  <2>3. AtLeast(store.stats, store.stats)
    BY AtLeastIs DEF StoreTypeOK
  <2>4. Starts(r) /\ AtLeast(r.store.stats, store.stats)
    <3>1. CASE r = Now
      BY <2>3, <3>1, NowStarts, NowIs
    <3>2. CASE r = Credited(active) /\ store.stats[active] < MaxRead
      BY <2>1, <3>2, CreditedIs
    <3> QED
      BY <2>2, <3>1, <3>2
  <2>5. TRUE \in BOOLEAN /\ r \in Runs
    BY <2>4 DEF Starts
  <2>6. y \in Runs
    BY <2>2, <2>5, SaveTyped
  <2> QED
    BY <2>2, <2>4, <2>6
<1> QED
  BY <1>1, <1>2

(* The steps of an import.                                                 *)
Emptied(r) == [r EXCEPT !.store.stats = None, !.store.dirty = FALSE]
TakenOver(x, src) == [x EXCEPT !.store = [stats |-> src.stats, dirty |-> TRUE,
                                          suspended |-> FALSE, prepared |-> TRUE]]
Taking(x, src) ==
  IF src.stats = None THEN ReloadOriginal(x)
  ELSE UNION {IF z.ok THEN Done(z) ELSE ReloadOriginal(z) : z \in saveToFile(TakenOver(x, src), TRUE)}
Parsing(x, src) == IF src.is = "whole" THEN Done(x) \cup FailedBy(x, "load") ELSE Failed(x)
Reading(x, src) == UNION {IF z.ok THEN Taking(z, src) ELSE Failed(z) : z \in Parsing(x, src)}

LEMMA ImportSteps ==
  ASSUME NEW r, NEW src
  PROVE  /\ Import(r, src)
              = UNION {IF z.ok THEN Reading(z, src) ELSE Failed(z) : z \in refreshInternalBackupFromMain(r)}
         /\ ReloadOriginal(r) = UNION {Failed(z) : z \in loadFromFile(Emptied(r))}
<1>1. Import(r, src)
        = UNION {IF z.ok THEN Reading(z, src) ELSE Failed(z) : z \in refreshInternalBackupFromMain(r)}
  BY DEF Import, Then, IfOk, Reading, Parsing, Taking, TakenOver
<1>2. ReloadOriginal(r) = UNION {Failed(z) : z \in loadFromFile(Emptied(r))}
  BY DEF ReloadOriginal, Then, Emptied
<1> QED
  BY <1>1, <1>2

LEMMA EmptiedIs ==
  ASSUME NEW r \in Runs
  PROVE  /\ Emptied(r) \in Runs /\ Emptied(r).disk = r.disk /\ Emptied(r).trail = r.trail
         /\ Emptied(r).failures = r.failures /\ Emptied(r).store.stats = None
         /\ (Emptied(r).store.suspended <=> r.store.suspended)
         /\ (Emptied(r).saved <=> r.saved) /\ Steady(r, Emptied(r))
<1> DEFINE t == [r.store EXCEPT !.stats = None, !.dirty = FALSE]
<1>1. t \in Stores /\ t.stats = None /\ t.suspended = r.store.suspended
  BY StoreSetsAre, ContentsAre DEF Runs
<1>2. Emptied(r) = WithStore(r, t)
  BY DEF Emptied, WithStore
<1>3. t.suspended <=> r.store.suspended
  BY <1>1, Zenon
<1> HIDE DEF t
<1>4. r.failures \in Nat
  BY DEF Runs
<1> QED
  BY <1>1, <1>2, <1>3, <1>4, WithStoreIs DEF Steady

LEMMA TakenIs ==
  ASSUME NEW r \in Runs, NEW src \in FileContents
  PROVE  /\ TakenOver(r, src) \in Runs /\ TakenOver(r, src).disk = r.disk
         /\ TakenOver(r, src).trail = r.trail /\ TakenOver(r, src).failures = r.failures
         /\ TakenOver(r, src).store.stats = src.stats /\ ~TakenOver(r, src).store.suspended
         /\ TakenOver(r, src).store.dirty /\ (TakenOver(r, src).saved <=> r.saved)
<1> DEFINE t == [stats |-> src.stats, dirty |-> TRUE, suspended |-> FALSE, prepared |-> TRUE]
<1>1. t \in Stores /\ t.stats = src.stats /\ ~t.suspended /\ t.dirty
  <2>1. src.stats \in Stats
    BY DEF FileContents
  <2>2. Fresh \in Stores
    BY StoreSetsAre, ContentsAre DEF Stores, Fresh
  <2> QED
    BY <2>1, <2>2, StoreSetsAre
<1>2. TakenOver(r, src) = WithStore(r, t)
  BY DEF TakenOver, WithStore
<1> HIDE DEF t
<1> QED
  BY <1>1, <1>2, WithStoreIs

LEMMA ReloadIs ==
  ASSUME NEW r \in Runs, NEW y \in ReloadOriginal(r)
  PROVE  /\ y \in Runs /\ ~y.ok
         /\ \E z \in loadFromFile(Emptied(r)) :
              /\ z \in Runs /\ y.disk = z.disk /\ y.trail = z.trail /\ y.store = z.store
              /\ y.failures <= z.failures
<1>1. PICK z \in loadFromFile(Emptied(r)) : y \in Failed(z)
  BY ImportSteps
<1>2. z \in Runs
  BY EmptiedIs, LoadIs DEF Loading, Steady
<1>3. Carries(z, y) /\ ~y.ok /\ y.disk = z.disk /\ y.trail = z.trail
  BY <1>1, <1>2, DoneIs
<1> QED
  BY <1>1, <1>2, <1>3 DEF Carries

LEMMA SafeLater ==
  ASSUME NEW d, NEW s, NEW m \in Nat, NEW n \in Nat, m <= n, NEW D, Safe(d, s, n, D)
  PROVE  Safe(d, s, m, D)
BY DEF Safe

LEMMA ReloadHolds ==
  ASSUME NEW r \in Runs, NEW D \in Stats, FaultKinds \cap {"rename", "load"} = {},
         Holds(r.disk, D), NEW y \in ReloadOriginal(r)
  PROVE  /\ y \in Runs /\ ~y.ok
         /\ Safe(y.disk, y.store, y.failures, D) /\ Covered(y.store, D)
         /\ \A d \in y.trail : d \in r.trail \/ Holds(d, D)
<1>1. PICK z \in loadFromFile(Emptied(r)) :
        /\ z \in Runs /\ y.disk = z.disk /\ y.trail = z.trail /\ y.store = z.store
        /\ y.failures <= z.failures
  BY ReloadIs
<1>2. y \in Runs /\ ~y.ok
  BY ReloadIs
<1>3. Emptied(r) \in Runs /\ Emptied(r).disk = r.disk /\ Emptied(r).trail = r.trail
  BY EmptiedIs
<1>4. /\ Safe(z.disk, z.store, z.failures, D) /\ Covered(z.store, D)
      /\ \A d \in z.trail : d \in r.trail \/ Holds(d, D)
  BY <1>3, LoadHolds
<1>5. y.failures \in Nat /\ z.failures \in Nat
  BY <1>1, <1>2 DEF Runs
<1>6. Safe(y.disk, y.store, y.failures, D)
  BY <1>1, <1>4, <1>5, SafeLater
<1> QED
  BY <1>1, <1>2, <1>4, <1>6

(* What an import that begins at r leaves to count on if the power goes. *)
Left(r, D, src) == IF r.store.suspended THEN None ELSE Lower(D, src.stats)

LEMMA LeftIs ==
  ASSUME NEW r, NEW D \in Stats, NEW src \in FileContents
  PROVE  /\ Left(r, D, src) \in Stats
         /\ \A d \in Disks : Holds(d, D) => Holds(d, Left(r, D, src))
         /\ D = None => Left(r, D, src) = None
         /\ r.store.suspended => Left(r, D, src) = None
         /\ AtLeast(src.stats, Left(r, D, src))
<1>1. src.stats \in Stats /\ None \in Stats
  BY ContentsAre DEF FileContents
<1>2. AtLeast(D, Left(r, D, src)) /\ AtLeast(src.stats, Left(r, D, src)) /\ Left(r, D, src) \in Stats
  BY <1>1, AtLeastIs DEF Left
<1>3. D = None => Left(r, D, src) = None
  <2>1. ASSUME D = None PROVE Left(r, D, src) = None
    BY <1>1, <1>2, <2>1, AtLeastIs
  <2> QED
    BY <2>1
<1>4. \A d \in Disks : Holds(d, D) => Holds(d, Left(r, D, src))
  BY <1>2, HoldsLess
<1> QED
  BY <1>2, <1>3, <1>4 DEF Left

LEMMA TakingIs ==
  ASSUME NEW x \in Runs, NEW src \in FileContents, NEW y \in Taking(x, src)
  PROVE  /\ y \in Runs
         /\ \/ src.stats = None /\ y \in ReloadOriginal(x)
            \/ \E z \in Runs :
                 /\ src.stats # None /\ Persists(TakenOver(x, src), Whole(src.stats), z)
                 /\ \/ ~z.ok /\ y \in ReloadOriginal(z)
                    \/ z.ok /\ Carries(z, y) /\ y.ok /\ y.disk = z.disk /\ y.trail = z.trail
<1>1. CASE src.stats = None
  <2>1. y \in ReloadOriginal(x)
    BY <1>1 DEF Taking
  <2> QED
    BY <1>1, <2>1, ReloadIs
<1>2. CASE src.stats # None
  <2> DEFINE t == TakenOver(x, src)
  <2>1. PICK z \in saveToFile(t, TRUE) : y \in IF z.ok THEN Done(z) ELSE ReloadOriginal(z)
    BY <1>2 DEF Taking
  <2>2. t \in Runs /\ t.store.stats = src.stats /\ ~t.store.suspended /\ t.store.dirty
    BY TakenIs
  <2> HIDE DEF t
  <2>3. TRUE \in BOOLEAN
    OBVIOUS
  <2>4. SaveEnds(t, TRUE, z) /\ z \in Runs
    BY <2>1, <2>2, <2>3, SaveToFileIs, SaveTyped
  <2>5. Persists(t, Whole(src.stats), z)
    BY <2>2, <2>4 DEF SaveEnds
  <2>6. CASE z.ok
    <3>1. y \in Done(z)
      BY <2>1, <2>6
    <3>2. Carries(z, y) /\ y.ok /\ y.disk = z.disk /\ y.trail = z.trail
      BY <2>4, <3>1, DoneIs
    <3> QED
      BY <1>2, <2>4, <2>5, <2>6, <3>2 DEF t, Carries
  <2>7. CASE ~z.ok
    <3>1. y \in ReloadOriginal(z)
      BY <2>1, <2>7
    <3>2. y \in Runs
      BY <2>4, <3>1, ReloadIs
    <3> QED
      BY <1>2, <2>4, <2>5, <2>7, <3>1, <3>2 DEF t
  <2> QED
    BY <2>6, <2>7
<1> QED
  BY <1>1, <1>2

LEMMA TakingHolds ==
  ASSUME NEW x \in Runs, NEW D \in Stats, NEW src \in FileContents,
         FaultKinds \cap {"rename", "load"} = {}, Safe(x.disk, x.store, x.failures, D),
         NEW y \in Taking(x, src)
  PROVE  /\ y.ok => Safe(y.disk, y.store, y.failures, src.stats) /\ Covered(y.store, src.stats)
         /\ ~y.ok => Safe(y.disk, y.store, y.failures, D) /\ Covered(y.store, D)
         /\ \A d \in y.trail : d \in x.trail \/ Holds(d, Left(x, D, src))
<1> DEFINE L == Left(x, D, src)
<1>1. /\ L \in Stats /\ (D = None => L = None) /\ AtLeast(src.stats, L)
      /\ \A d \in Disks : Holds(d, D) => Holds(d, L)
  BY LeftIs
<1>2. x.store.suspended => L = None
  BY LeftIs
<1> HIDE DEF L
<1>3. ASSUME NEW z \in Runs, Holds(z.disk, D), \A d \in z.trail : d \in x.trail \/ Holds(d, L),
             y \in ReloadOriginal(z)
      PROVE  /\ ~y.ok /\ Safe(y.disk, y.store, y.failures, D) /\ Covered(y.store, D)
             /\ \A d \in y.trail : d \in x.trail \/ Holds(d, L)
  <2>1. /\ y \in Runs /\ ~y.ok /\ Safe(y.disk, y.store, y.failures, D) /\ Covered(y.store, D)
        /\ \A d \in y.trail : d \in z.trail \/ Holds(d, D)
    BY <1>3, ReloadHolds
  <2>2. \A d \in y.trail : d \in Disks
    BY <2>1 DEF Runs
  <2> QED
    BY <1>1, <1>3, <2>1, <2>2
<1>4. CASE src.stats = None /\ y \in ReloadOriginal(x)
  <2>1. Holds(x.disk, D)
    BY DEF Safe
  <2> QED
    BY <1>3, <1>4, <2>1 DEF L
<1>5. ASSUME NEW z \in Runs, src.stats # None, Persists(TakenOver(x, src), Whole(src.stats), z),
             \/ ~z.ok /\ y \in ReloadOriginal(z)
             \/ z.ok /\ Carries(z, y) /\ y.ok /\ y.disk = z.disk /\ y.trail = z.trail
      PROVE  /\ y.ok => Safe(y.disk, y.store, y.failures, src.stats) /\ Covered(y.store, src.stats)
             /\ ~y.ok => Safe(y.disk, y.store, y.failures, D) /\ Covered(y.store, D)
             /\ \A d \in y.trail : d \in x.trail \/ Holds(d, L)
  <2> DEFINE t == TakenOver(x, src)
             c == Whole(src.stats)
  <2>1. /\ t \in Runs /\ t.disk = x.disk /\ t.trail = x.trail /\ t.failures = x.failures
        /\ t.store.stats = src.stats /\ ~t.store.suspended
    BY TakenIs
  <2>2. c.is = "whole" /\ c.stats = src.stats /\ c # NoFile
    BY DEF Whole, NoFile
  <2>3. Persists(t, c, z)
    BY <1>5
  <2> HIDE DEF t, c
  <2>4. ASSUME NEW d, PersistPlace(t, c, d)
        PROVE  Holds(d, L)
    <3>1. CASE D = None
      BY <1>1, <3>1 DEF Holds
    <3>2. CASE D # None /\ d["main"] = x.disk["main"] /\ ~x.store.suspended
      <4>1. x.disk["main"] # NoFile /\ x.disk["main"].is = "whole" /\ AtLeast(x.disk["main"].stats, D)
        BY <3>2 DEF Safe, Holds, MainOf
      <4>2. Holds(x.disk, L) /\ MainOf(x.disk) = x.disk["main"] /\ MainOf(d) = x.disk["main"]
        <5>1. Holds(x.disk, D) /\ x.disk \in Disks
          BY DEF Safe, Runs
        <5> QED
          BY <1>1, <3>2, <4>1, <5>1 DEF MainOf
      <4> QED
        BY <4>2 DEF Holds
    <3>3. CASE d["main"] = c \/ (d["main"] = NoFile /\ d["mainTmp"] = c)
      BY <1>1, <2>2, <3>3 DEF Holds, MainOf
    <3>4. CASE x.store.suspended
      BY <1>2, <3>4 DEF Holds
    <3> QED
      BY <2>1, <2>4, <3>1, <3>2, <3>3, <3>4 DEF PersistPlace
  <2>5. \A d \in z.trail : d \in x.trail \/ Holds(d, L)
    BY <2>1, <2>3, <2>4 DEF Persists
  <2>6. CASE z.ok
    <3>1. /\ Carries(z, y) /\ y.ok /\ y.disk = z.disk /\ y.trail = z.trail /\ y.store = z.store
      BY <1>5, <2>6 DEF Carries
    <3>2. z.disk["main"] = c
      BY <2>3, <2>6 DEF Persists
    <3>3. z.store.stats = src.stats /\ ~z.store.suspended
      <4>1. z.store.stats = src.stats /\ z.store.suspended = t.store.suspended
        BY <2>1, <2>3 DEF Persists, KeepsStats
      <4>2. z.store.suspended <=> t.store.suspended
        BY <4>1, Zenon
      <4> QED
        BY <2>1, <4>1, <4>2
    <3>4. AtLeast(src.stats, src.stats)
      BY AtLeastIs DEF FileContents
    <3>5. Safe(y.disk, y.store, y.failures, src.stats)
      BY <2>2, <3>1, <3>2, <3>3, <3>4 DEF Safe, Holds, MainOf
    <3>6. Covered(y.store, src.stats)
      BY <3>1, <3>3, <3>4 DEF Covered
    <3> QED
      BY <2>5, <3>1, <3>5, <3>6
  <2>7. CASE ~z.ok
    <3>1. y \in ReloadOriginal(z)
      BY <1>5, <2>7
    <3>2. \/ z.disk["main"] = x.disk["main"] /\ x.disk["main"] # NoFile
          \/ z.disk["main"] = x.disk["main"] /\ "write" \in FaultKinds /\ x.failures > 0
      BY <2>1, <2>3, <2>7 DEF Persists
    <3>3. Holds(z.disk, D)
      <4>1. CASE D = None
        BY <4>1 DEF Holds
      <4>2. CASE D # None
        <5>1. z.disk["main"] = x.disk["main"] /\ x.disk["main"] # NoFile
          BY <3>2, <4>2 DEF Safe
        <5> QED
          BY <4>2, <5>1 DEF Safe, Holds, MainOf
      <4> QED
        BY <4>1, <4>2
    <3> QED
      BY <1>3, <2>5, <3>1, <3>3
  <2> QED
    BY <2>6, <2>7
<1>6. \/ src.stats = None /\ y \in ReloadOriginal(x)
      \/ \E z \in Runs :
           /\ src.stats # None /\ Persists(TakenOver(x, src), Whole(src.stats), z)
           /\ \/ ~z.ok /\ y \in ReloadOriginal(z)
              \/ z.ok /\ Carries(z, y) /\ y.ok /\ y.disk = z.disk /\ y.trail = z.trail
  BY TakingIs
<1> QED
  BY <1>4, <1>5, <1>6 DEF L

LEMMA ParsingIs ==
  ASSUME NEW x \in Runs, NEW src, NEW y \in Parsing(x, src)
  PROVE  Carries(x, y) /\ y.disk = x.disk /\ y.trail = x.trail
<1>1. y \in Done(x) \/ y \in Failed(x) \/ y \in FailedBy(x, "load")
  BY DEF Parsing
<1> QED
  BY <1>1, DoneIs, FailedByIs

(* The ends of an import: before anything was read, or with the file taken. *)
LEMMA ImportIs ==
  ASSUME NEW r \in Runs, NEW src \in FileContents, NEW y \in Import(r, src)
  PROVE  /\ y \in Runs
         /\ \E x \in Runs :
              /\ BacksUp(r, x)
              /\ \/ Carries(x, y) /\ ~y.ok /\ y.disk = x.disk /\ y.trail = x.trail
                 \/ \E z \in Runs :
                      /\ Carries(x, z) /\ z.disk = x.disk /\ z.trail = x.trail
                      /\ y \in Taking(z, src)
                      /\ \/ HasData(r.disk["main"])
                         \/ x.disk["bak"] = NoFile
                         \/ "remove" \in FaultKinds
<1>1. PICK x \in refreshInternalBackupFromMain(r) :
        y \in IF x.ok THEN Reading(x, src) ELSE Failed(x)
  BY ImportSteps
<1>2. BacksUp(r, x) /\ x \in Runs
  BY <1>1, RefreshIs DEF BacksUp, KeepsStore
<1>3. CASE ~x.ok
  <2>1. y \in Failed(x)
    BY <1>1, <1>3
  <2>2. Carries(x, y) /\ ~y.ok /\ y.disk = x.disk /\ y.trail = x.trail
    BY <1>2, <2>1, DoneIs
  <2> QED
    BY <1>2, <2>2 DEF Carries
<1>4. CASE x.ok
  <2>0. HasData(r.disk["main"]) \/ x.disk["bak"] = NoFile \/ "remove" \in FaultKinds
    BY <1>1, <1>4, RefreshIs
  <2>1. PICK z \in Parsing(x, src) : y \in IF z.ok THEN Taking(z, src) ELSE Failed(z)
    BY <1>1, <1>4 DEF Reading
  <2>2. Carries(x, z) /\ z.disk = x.disk /\ z.trail = x.trail /\ z \in Runs
    BY <1>2, <2>1, ParsingIs DEF Carries
  <2>3. CASE z.ok
    <3>1. y \in Taking(z, src) /\ y \in Runs
      BY <2>1, <2>2, <2>3, TakingIs
    <3> QED
      BY <1>2, <2>0, <2>2, <3>1
  <2>4. CASE ~z.ok
    <3>1. y \in Failed(z)
      BY <2>1, <2>4
    <3>2. Carries(z, y) /\ ~y.ok /\ y.disk = x.disk /\ y.trail = x.trail
      BY <2>2, <3>1, DoneIs
    <3>3. Carries(x, y)
      BY <1>2, <2>2, <3>2, CarriesOn
    <3> QED
      BY <1>2, <3>2, <3>3 DEF Carries
  <2> QED
    BY <2>3, <2>4
<1> QED
  BY <1>3, <1>4

LEMMA ImportHolds ==
  ASSUME NEW r \in Runs, NEW D \in Stats, NEW src \in FileContents,
         FaultKinds \cap {"rename", "load"} = {},
         Safe(r.disk, r.store, r.failures, D), Covered(r.store, D), NEW y \in Import(r, src)
  PROVE  /\ y.ok => Safe(y.disk, y.store, y.failures, src.stats) /\ Covered(y.store, src.stats)
         /\ ~y.ok => Safe(y.disk, y.store, y.failures, D) /\ Covered(y.store, D)
         /\ \A d \in y.trail : d \in r.trail \/ Holds(d, Left(r, D, src))
<1>1. PICK x \in Runs :
        /\ BacksUp(r, x)
        /\ \/ Carries(x, y) /\ ~y.ok /\ y.disk = x.disk /\ y.trail = x.trail
           \/ \E z \in Runs :
                /\ Carries(x, z) /\ z.disk = x.disk /\ z.trail = x.trail
                /\ y \in Taking(z, src)
  BY ImportIs
<1>2. /\ BakPlace(r, x.disk) /\ x.store.stats = r.store.stats
      /\ x.store.suspended = r.store.suspended /\ x.failures <= r.failures
      /\ \A d \in x.trail : d \in r.trail \/ BakPlace(r, d)
  BY <1>1 DEF BacksUp, KeepsStore
<1>3. x.store.suspended <=> r.store.suspended
  BY <1>2, Zenon
<1>4. x.failures \in Nat /\ r.failures \in Nat /\ r.disk \in Disks /\ x.trail \subseteq Disks
  BY DEF Runs
<1>5. \A d : BakPlace(r, d) => MainOf(d) = MainOf(r.disk) /\ d["main"] = r.disk["main"]
  BY DEF BakPlace, MainOf
<1>6. /\ Safe(x.disk, x.store, x.failures, D) /\ Covered(x.store, D)
      /\ \A d \in x.trail : d \in r.trail \/ Holds(d, Left(r, D, src))
  <2>1. Safe(x.disk, x.store, x.failures, D)
    BY <1>2, <1>3, <1>4, <1>5 DEF Safe, Holds
  <2>2. Covered(x.store, D)
    BY <1>2, <1>3 DEF Covered
  <2>3. \A d : BakPlace(r, d) => Holds(d, D)
    BY <1>5 DEF Safe, Holds
  <2>4. \A d \in Disks : Holds(d, D) => Holds(d, Left(r, D, src))
    BY LeftIs
  <2> QED
    BY <1>2, <1>4, <2>1, <2>2, <2>3, <2>4
<1>7. CASE Carries(x, y) /\ ~y.ok /\ y.disk = x.disk /\ y.trail = x.trail
  <2>1. y.store = x.store /\ y.failures \in Nat /\ y.failures <= x.failures
    BY <1>7 DEF Carries, Runs
  <2>2. Safe(y.disk, y.store, y.failures, D)
    BY <1>4, <1>6, <1>7, <2>1, SafeLater
  <2>3. Covered(y.store, D)
    BY <1>6, <2>1
  <2> QED
    BY <1>6, <1>7, <2>2, <2>3
<1>8. ASSUME NEW z \in Runs, Carries(x, z), z.disk = x.disk, z.trail = x.trail,
             y \in Taking(z, src)
      PROVE  /\ y.ok => Safe(y.disk, y.store, y.failures, src.stats) /\ Covered(y.store, src.stats)
             /\ ~y.ok => Safe(y.disk, y.store, y.failures, D) /\ Covered(y.store, D)
             /\ \A d \in y.trail : d \in r.trail \/ Holds(d, Left(r, D, src))
  <2>1. z.store = x.store /\ z.failures \in Nat /\ z.failures <= x.failures
    BY <1>8 DEF Carries, Runs
  <2>2. Safe(z.disk, z.store, z.failures, D)
    BY <1>4, <1>6, <1>8, <2>1, SafeLater
  <2>3. /\ y.ok => Safe(y.disk, y.store, y.failures, src.stats) /\ Covered(y.store, src.stats)
        /\ ~y.ok => Safe(y.disk, y.store, y.failures, D) /\ Covered(y.store, D)
        /\ \A d \in y.trail : d \in z.trail \/ Holds(d, Left(z, D, src))
    BY <1>8, <2>2, TakingHolds
  <2>4. Left(z, D, src) = Left(r, D, src)
    <3>1. z.store.suspended <=> r.store.suspended
      BY <1>3, <2>1
    <3> QED
      BY <3>1 DEF Left
  <2> QED
    BY <1>6, <1>8, <2>3, <2>4
<1> QED
  BY <1>1, <1>7, <1>8

-----------------------------------------------------------------------------
(* Every operation keeps the types.                                        *)
Forgettings == [Books -> {"no", "reset", "removed"}]
Cleared == [Fresh EXCEPT !.prepared = TRUE, !.dirty = TRUE]
Dirtied(r) == [r EXCEPT !.store.dirty = TRUE]
OneFailureLess == [Now EXCEPT !.failures = failures - 1]

LEMMA ForgettingsAre ==
  ASSUME StoreTypeOK
  PROVE  /\ \A y \in Runs : ReadAgain(y) \in Forgettings
         /\ \A b \in Books : Kept(b) \in Forgettings
         /\ \A b \in Books : [forgotten EXCEPT ![b] = "removed"] \in Forgettings
         /\ [b \in Books |-> "reset"] \in Forgettings /\ [b \in Books |-> "no"] \in Forgettings
         /\ forgotten \in Forgettings
BY DEF StoreTypeOK, Forgettings, ReadAgain, Kept

LEMMA ImportsAre == \A src \in Imports : src \in FileContents /\ src.stats \in Stats
<1> DEFINE ones == [b \in Books |-> 1]
<1>1. ones \in Stats /\ None \in Stats
  BY ContentsAre DEF Stats
<1>2. Imports = {CutShort(None), Whole(None), Whole(ones)}
  BY DEF Imports
<1> HIDE DEF ones
<1> QED
  BY <1>1, <1>2, ContentsAre

LEMMA DirtiedIs ==
  ASSUME NEW r \in Runs
  PROVE  /\ Dirtied(r) \in Runs /\ Dirtied(r).disk = r.disk /\ Dirtied(r).trail = r.trail
         /\ Dirtied(r).failures = r.failures /\ Dirtied(r).store.stats = r.store.stats
         /\ (Dirtied(r).store.suspended <=> r.store.suspended)
<1> DEFINE t == [r.store EXCEPT !.dirty = TRUE]
<1>1. t \in Stores /\ t.stats = r.store.stats /\ t.suspended = r.store.suspended
  BY StoreSetsAre, ContentsAre DEF Runs
<1>2. Dirtied(r) = WithStore(r, t)
  BY DEF Dirtied, WithStore
<1>3. t.suspended <=> r.store.suspended
  BY <1>1, Zenon
<1> HIDE DEF t
<1> QED
  BY <1>1, <1>2, <1>3, WithStoreIs

LEMMA ClearedIs ==
  /\ Cleared \in Stores /\ Cleared.stats = None /\ ~Cleared.suspended /\ Cleared.dirty
<1>1. TRUE \in BOOLEAN /\ FALSE \in BOOLEAN /\ None \in Stats
  BY ContentsAre
<1> QED
  BY <1>1 DEF Cleared, Stores, Fresh

LEMMA OneFailureLessIs ==
  ASSUME StoreTypeOK, failures > 0
  PROVE  /\ OneFailureLess \in Runs /\ OneFailureLess.disk = disk
         /\ OneFailureLess.store = store /\ OneFailureLess.failures = failures - 1
<1> DEFINE n == failures - 1
<1>1. n \in 0 .. MaxFailures
  BY DEF StoreTypeOK
<1>2. OneFailureLess = [Now EXCEPT !.failures = n]
  BY DEF OneFailureLess
<1> HIDE DEF n
<1>3. OneFailureLess \in Runs /\ OneFailureLess.disk = disk
      /\ OneFailureLess.store = store /\ OneFailureLess.failures = n
  BY <1>1, <1>2, NowIs DEF Runs
<1> QED
  BY <1>3 DEF n

LEMMA HigherLowerAre ==
  ASSUME StoreTypeOK
  PROVE  /\ \A y \in Runs : Noted(y) \in Stats /\ Noted(y) = Note(y, durable)
         /\ \A b \in Books : [durable EXCEPT ![b] = 0] \in Stats
         /\ \A s \in Stats : Lower(durable, s) \in Stats
         /\ None \in Stats /\ durable \in Stats
<1>1. None \in Stats /\ durable \in Stats
  BY ContentsAre DEF StoreTypeOK
<1>2. \A y \in Runs : Noted(y) \in Stats /\ Noted(y) = Note(y, durable)
  BY <1>1, AtLeastIs DEF Noted, Note, Runs, Stores
<1>3. \A b \in Books : [durable EXCEPT ![b] = 0] \in Stats
  BY <1>1 DEF Stats
<1> QED
  BY <1>1, <1>2, <1>3, AtLeastIs


LEMMA BackupRemovedIs ==
  ASSUME NEW r \in Runs, NEW y \in BackupRemoved(r)
  PROVE  /\ Carries(r, y) /\ Elsewhere(y.disk, r.disk, {"bak", "bakTmp"})
         /\ \A d \in y.trail : d \in r.trail \/ Elsewhere(d, r.disk, {"bak", "bakTmp"})
         /\ \A d \in y.trail : d \in r.trail \/ d["bak"] \in {r.disk["bak"], NoFile}
         /\ "remove" \notin FaultKinds => y.disk["bak"] = NoFile
<1> DEFINE Rest(x) == UNION {Done(z) : z \in Remove(x, "bakTmp")}
<1>1. BackupRemoved(r) = UNION {Rest(x) : x \in Remove(r, "bak")}
  BY DEF BackupRemoved, Then
<1>0. PICK x \in Remove(r, "bak") : y \in Rest(x)
  BY <1>1
<1>2. PICK z \in Remove(x, "bakTmp") : y \in Done(z)
  BY <1>0
<1>3. "bak" \in Files /\ "bakTmp" \in Files /\ "bak" # "bakTmp"
  BY DEF Files
<1>4. /\ Carries(r, x) /\ x.trail \subseteq r.trail \cup {x.disk}
      /\ \/ x.ok /\ x.disk = [r.disk EXCEPT !["bak"] = NoFile]
         \/ ~x.ok /\ x.disk = r.disk /\ "remove" \in FaultKinds
  BY <1>0, <1>3, RemoveIs
<1>5. x \in Runs
  BY <1>4 DEF Carries
<1>6. /\ Carries(x, z) /\ z.trail \subseteq x.trail \cup {z.disk}
      /\ \/ z.ok /\ z.disk = [x.disk EXCEPT !["bakTmp"] = NoFile]
         \/ ~z.ok /\ z.disk = x.disk
  BY <1>2, <1>3, <1>5, RemoveIs
<1>7. z \in Runs
  BY <1>6 DEF Carries
<1>8. Carries(z, y) /\ y.disk = z.disk /\ y.trail = z.trail
  BY <1>2, <1>7, DoneIs
<1>9. Carries(r, y)
  BY <1>4, <1>5, <1>6, <1>8, CarriesOn
<1>10. r.disk \in [Files -> FileContents] /\ x.disk \in [Files -> FileContents]
  BY <1>5 DEF Runs, Disks
<1>11. Elsewhere(x.disk, r.disk, {"bak", "bakTmp"}) /\ Elsewhere(z.disk, r.disk, {"bak", "bakTmp"})
       /\ ("remove" \notin FaultKinds => z.disk["bak"] = NoFile)
       /\ x.disk["bak"] \in {r.disk["bak"], NoFile} /\ z.disk["bak"] = x.disk["bak"]
  BY <1>3, <1>4, <1>6, <1>10 DEF Elsewhere
<1> QED
  BY <1>4, <1>6, <1>8, <1>9, <1>11

LEMMA Unchanged ==
  ASSUME StoreTypeOK
  PROVE  /\ active \in Books \cup {"none"} /\ network \in BOOLEAN /\ durable \in Stats
         /\ forgotten \in Forgettings /\ TRUE \in BOOLEAN /\ FALSE \in BOOLEAN
BY DEF StoreTypeOK, Forgettings

LEMMA LoadTyped ==
  ASSUME NEW r \in Runs, NEW y \in loadFromFile(r)
  PROVE  y \in Runs
BY LoadIs DEF Loading, Steady

LEMMA BootTyped == ASSUME StoreTypeOK, Boot PROVE StoreTypeOK'
<1>1. PICK y \in loadFromFile(Now) : PowerGoes(y) \/ (Ends(y) /\ UNCHANGED <<active, network>>)
  BY DEF Boot
<1>2. y \in Runs
  BY NowIs, LoadTyped
<1>3. durable' \in Stats /\ forgotten' \in Forgettings
  BY Unchanged DEF Boot
<1>4. CASE PowerGoes(y)
  BY <1>2, <1>3, <1>4, CutTyped DEF Forgettings
<1>5. CASE Ends(y) /\ UNCHANGED <<active, network>>
  <2>1. active' \in Books \cup {"none"} /\ network' \in BOOLEAN
    BY <1>5, Unchanged
  <2> QED
    BY <1>2, <1>3, <1>5, <2>1, EndsTyped DEF Forgettings
<1> QED
  BY <1>1, <1>4, <1>5

LEMMA BootInRecoveryTyped == ASSUME StoreTypeOK, BootInRecovery PROVE StoreTypeOK'
<1>1. /\ \E r \in markLoadSkippedForRecovery([Now EXCEPT !.failures = @ - 1]) : Ends(r)
      /\ Now.failures > 0 /\ UNCHANGED <<active, network, durable, forgotten>>
  BY DEF BootInRecovery, CanFail
<1>2. failures > 0 /\ [Now EXCEPT !.failures = @ - 1] = OneFailureLess
  BY <1>1, NowIs DEF OneFailureLess
<1>3. PICK y \in markLoadSkippedForRecovery(OneFailureLess) : Ends(y)
  BY <1>1, <1>2
<1>4. y \in Runs
  BY <1>2, <1>3, OneFailureLessIs, MarkIs DEF Steady
<1>5. active' \in Books \cup {"none"} /\ network' \in BOOLEAN /\ durable' \in Stats
      /\ forgotten' \in Forgettings
  BY <1>1, Unchanged
<1> QED
  BY <1>3, <1>4, <1>5, EndsTyped DEF Forgettings

LEMMA PowerLostTyped == ASSUME StoreTypeOK, PowerLost PROVE StoreTypeOK'
<1>1. durable' \in Stats /\ forgotten' \in Forgettings /\ PowerGoes(Now)
  BY Unchanged DEF PowerLost
<1> QED
  BY <1>1, NowIs, CutTyped DEF Forgettings

LEMMA BeginTyped ==
  ASSUME StoreTypeOK, NEW b \in Books, beginSession(b)
  PROVE  StoreTypeOK'
<1>1. PICK y \in SessionEnded :
        /\ \/ PowerGoes(y) /\ UNCHANGED durable
           \/ Ends(Dirtied(y)) /\ durable' = Noted(y) /\ active' = b /\ UNCHANGED network
        /\ forgotten' = ReadAgain(y)
  BY DEF beginSession, Dirtied
<1>2. y \in Runs /\ forgotten' \in Forgettings
  BY <1>1, SessionEndedIs, ForgettingsAre
<1>3. CASE PowerGoes(y) /\ UNCHANGED durable
  <2>1. durable' \in Stats
    BY <1>3, Unchanged
  <2> QED
    BY <1>2, <1>3, <2>1, CutTyped DEF Forgettings
<1>4. CASE Ends(Dirtied(y)) /\ durable' = Noted(y) /\ active' = b /\ UNCHANGED network
  <2>1. durable' \in Stats /\ active' \in Books \cup {"none"} /\ network' \in BOOLEAN
    BY <1>2, <1>4, HigherLowerAre, Unchanged
  <2>2. Dirtied(y) \in Runs
    BY <1>2, DirtiedIs
  <2> QED
    BY <1>2, <1>4, <2>1, <2>2, EndsTyped DEF Forgettings
<1> QED
  BY <1>1, <1>3, <1>4

LEMMA NoteTyped == ASSUME StoreTypeOK, noteActivity PROVE StoreTypeOK'
<1>1. PICK due \in BOOLEAN : \E y \in saveToFile(Credited(active), due) :
        /\ \/ PowerGoes(y) /\ UNCHANGED durable
           \/ Ends(y) /\ durable' = Noted(y) /\ UNCHANGED <<active, network>>
        /\ forgotten' = ReadAgain(y)
  BY DEF noteActivity
<1>2. PICK y \in saveToFile(Credited(active), due) :
        /\ \/ PowerGoes(y) /\ UNCHANGED durable
           \/ Ends(y) /\ durable' = Noted(y) /\ UNCHANGED <<active, network>>
        /\ forgotten' = ReadAgain(y)
  BY <1>1
<1>3. active \in Books /\ store.stats[active] < MaxRead
  BY Unchanged DEF noteActivity
<1>4. Credited(active) \in Runs
  BY <1>3, CreditedIs DEF Starts
<1>5. y \in Runs /\ forgotten' \in Forgettings
  BY <1>2, <1>4, SaveTyped, ForgettingsAre
<1>6. durable' \in Stats
  BY <1>2, <1>5, HigherLowerAre
<1>7. CASE PowerGoes(y)
  BY <1>5, <1>6, <1>7, CutTyped DEF Forgettings
<1>8. CASE Ends(y) /\ UNCHANGED <<active, network>>
  <2>1. active' \in Books \cup {"none"} /\ network' \in BOOLEAN
    BY <1>8, Unchanged
  <2> QED
    BY <1>5, <1>6, <1>8, <2>1, EndsTyped DEF Forgettings
<1> QED
  BY <1>2, <1>7, <1>8

LEMMA EndTyped == ASSUME StoreTypeOK, endSession PROVE StoreTypeOK'
<1>1. PICK y \in SessionEnded :
        /\ \/ PowerGoes(y) /\ UNCHANGED durable
           \/ Ends(y) /\ durable' = Noted(y) /\ active' = "none" /\ UNCHANGED network
        /\ forgotten' = ReadAgain(y)
  BY DEF endSession
<1>2. y \in Runs /\ forgotten' \in Forgettings
  BY <1>1, SessionEndedIs, ForgettingsAre
<1>3. durable' \in Stats
  BY <1>1, <1>2, HigherLowerAre
<1>4. CASE PowerGoes(y)
  BY <1>2, <1>3, <1>4, CutTyped DEF Forgettings
<1>5. CASE Ends(y) /\ active' = "none" /\ UNCHANGED network
  <2>1. active' \in Books \cup {"none"} /\ network' \in BOOLEAN
    BY <1>5, Unchanged
  <2> QED
    BY <1>2, <1>3, <1>5, <2>1, EndsTyped DEF Forgettings
<1> QED
  BY <1>1, <1>4, <1>5

LEMMA EntryRemovedIs ==
  ASSUME StoreTypeOK, NEW b \in Books
  PROVE  /\ Starts(EntryRemoved(b)) /\ EntryRemoved(b).store.stats \in Stats
         /\ EntryRemoved(b).store.stats = [store.stats EXCEPT ![b] = 0]
<1> DEFINE s == [store.stats EXCEPT ![b] = 0]
<1>1. s \in Stats
  BY DEF StoreTypeOK, Stats
<1>2. EntryRemoved(b) = With(s)
  BY DEF EntryRemoved
<1> HIDE DEF s
<1>3. Starts(EntryRemoved(b)) /\ EntryRemoved(b).store.stats = s
  BY <1>1, <1>2, WithIs
<1> QED
  BY <1>1, <1>3 DEF s

Removing(b, due, y) ==
  /\ y \in saveToFile(EntryRemoved(b), due) /\ due \in BOOLEAN
  /\ durable' = [durable EXCEPT ![b] = 0]
  /\ \/ PowerGoes(y) /\ forgotten' = Kept(b)
     \/ /\ Ends(y) /\ active' = (IF active = b THEN "none" ELSE active) /\ UNCHANGED network
        /\ forgotten' = IF y.saved /\ y.store.stats # None
                        THEN [forgotten EXCEPT ![b] = "removed"] ELSE Kept(b)

LEMMA RemovingIs ==
  ASSUME NEW b \in Books, removeBook(b)
  PROVE  \E due, y : Removing(b, due, y)
<1> DEFINE left == IF active = b THEN "none" ELSE active
<1>1. PICK due \in BOOLEAN : \E y \in saveToFile(EntryRemoved(b), due) :
        /\ durable' = [durable EXCEPT ![b] = 0]
        /\ \/ PowerGoes(y) /\ forgotten' = Kept(b)
           \/ /\ Ends(y) /\ active' = left /\ UNCHANGED network
              /\ forgotten' = IF y.saved /\ y.store.stats # None
                              THEN [forgotten EXCEPT ![b] = "removed"] ELSE Kept(b)
  BY DEF removeBook
<1> QED
  BY <1>1 DEF Removing

LEMMA RemoveTyped ==
  ASSUME StoreTypeOK, NEW b \in Books, removeBook(b)
  PROVE  StoreTypeOK'
<1>1. PICK due, y : Removing(b, due, y)
  BY RemovingIs
<1>2. EntryRemoved(b) \in Runs
  BY EntryRemovedIs DEF Starts
<1>3. y \in Runs
  BY <1>1, <1>2, SaveTyped DEF Removing
<1>4. durable' \in Stats /\ forgotten' \in Forgettings
  BY <1>1, HigherLowerAre, ForgettingsAre DEF Removing
<1>5. CASE PowerGoes(y)
  BY <1>3, <1>4, <1>5, CutTyped DEF Forgettings
<1>6. CASE Ends(y) /\ active' = (IF active = b THEN "none" ELSE active) /\ UNCHANGED network
  <2>1. active' \in Books \cup {"none"} /\ network' \in BOOLEAN
    BY <1>6, Unchanged
  <2> QED
    BY <1>3, <1>4, <1>6, <2>1, EndsTyped DEF Forgettings
<1> QED
  BY <1>1, <1>5, <1>6 DEF Removing

Resetting(x, y) ==
  /\ x \in BackupRemoved(Now) /\ y \in saveToFile(WithStore(x, Cleared), TRUE)
  /\ \/ PowerGoes(y) /\ UNCHANGED forgotten
     \/ /\ Ends(y) /\ active' = "none" /\ UNCHANGED network
        /\ forgotten' = IF y.saved THEN [b \in Books |-> "reset"] ELSE forgotten

LEMMA ResettingIs ==
  ASSUME StoreTypeOK, reset
  PROVE  /\ \E x, y : Resetting(x, y)
         /\ \A x, y : Resetting(x, y) =>
              x \in Runs /\ WithStore(x, Cleared) \in Runs /\ y \in Runs /\ Carries(Now, x)
<1> DEFINE Wiped(x) == [x EXCEPT !.store = [Fresh EXCEPT !.prepared = TRUE, !.dirty = TRUE]]
           Ways == Then(BackupRemoved(Now), LAMBDA x : saveToFile(Wiped(x), TRUE))
<1>1. PICK y \in Ways :
        \/ PowerGoes(y) /\ UNCHANGED forgotten
        \/ /\ Ends(y) /\ active' = "none" /\ UNCHANGED network
           /\ forgotten' = IF y.saved THEN [b \in Books |-> "reset"] ELSE forgotten
  BY DEF reset
<1>2. PICK x \in BackupRemoved(Now) : y \in saveToFile(WithStore(x, Cleared), TRUE)
  BY <1>1 DEF Then, WithStore, Cleared
<1>3. Resetting(x, y)
  BY <1>1, <1>2 DEF Resetting
<1>4. ASSUME NEW u, NEW v, Resetting(u, v)
      PROVE  u \in Runs /\ WithStore(u, Cleared) \in Runs /\ v \in Runs /\ Carries(Now, u)
  <2>1. Carries(Now, u) /\ u \in Runs
    BY <1>4, NowIs, BackupRemovedIs DEF Resetting, Carries
  <2>2. WithStore(u, Cleared) \in Runs /\ TRUE \in BOOLEAN
    BY <2>1, ClearedIs, WithStoreIs
  <2>3. v \in Runs
    BY <1>4, <2>2, SaveTyped DEF Resetting
  <2> QED
    BY <2>1, <2>2, <2>3
<1> QED
  BY <1>3, <1>4

LEMMA ResetTyped == ASSUME StoreTypeOK, reset PROVE StoreTypeOK'
<1>1. PICK x, y : Resetting(x, y)
  BY ResettingIs
<1>2. y \in Runs
  BY <1>1, ResettingIs
<1>3. durable' \in Stats /\ forgotten' \in Forgettings
  BY <1>1, HigherLowerAre, ForgettingsAre DEF Resetting, reset
<1>4. CASE PowerGoes(y)
  BY <1>2, <1>3, <1>4, CutTyped DEF Forgettings
<1>5. CASE Ends(y) /\ active' = "none" /\ UNCHANGED network
  <2>1. active' \in Books \cup {"none"} /\ network' \in BOOLEAN
    BY <1>5, Unchanged
  <2> QED
    BY <1>2, <1>3, <1>5, <2>1, EndsTyped DEF Forgettings
<1> QED
  BY <1>1, <1>4, <1>5 DEF Resetting

LEMMA ImportTyped ==
  ASSUME StoreTypeOK, NEW src \in Imports, importFromFile(src)
  PROVE  StoreTypeOK'
<1>1. PICK y \in Import(Now, src) :
        \/ /\ PowerGoes(y)
           /\ durable' = IF store.suspended THEN None ELSE Lower(durable, src.stats)
           /\ forgotten' = [b \in Books |-> "no"]
        \/ /\ Ends(y) /\ UNCHANGED <<active, network>>
           /\ IF y.ok
              THEN /\ durable' = src.stats
                   /\ forgotten' = [b \in Books |-> "no"]
              ELSE UNCHANGED <<durable, forgotten>>
  BY DEF importFromFile
<1>2. src \in FileContents /\ src.stats \in Stats
  BY ImportsAre
<1>3. y \in Runs
  BY <1>1, <1>2, NowIs, ImportIs
<1>4. durable' \in Stats /\ forgotten' \in Forgettings
  BY <1>1, <1>2, HigherLowerAre, ForgettingsAre
<1>5. CASE PowerGoes(y)
  BY <1>3, <1>4, <1>5, CutTyped DEF Forgettings
<1>6. CASE Ends(y) /\ UNCHANGED <<active, network>>
  <2>1. active' \in Books \cup {"none"} /\ network' \in BOOLEAN
    BY <1>6, Unchanged
  <2> QED
    BY <1>3, <1>4, <1>6, <2>1, EndsTyped DEF Forgettings
<1> QED
  BY <1>1, <1>5, <1>6

Releasing(u, x, y) ==
  /\ u \in SessionEnded
  /\ x \in IF u.store.dirty THEN saveToFile(u, TRUE) ELSE Done(u)
  /\ y = IF x.ok THEN Emptied(x) ELSE x
  /\ \/ PowerGoes(y) /\ UNCHANGED durable
     \/ /\ Ends(y) /\ durable' = Noted(x)
        /\ active' = "none" /\ network' = TRUE
  /\ forgotten' = ReadAgain(x)

LEMMA ReleasingIs ==
  ASSUME StoreTypeOK, releaseMemoryForNetwork
  PROVE  /\ \E u, x, y : Releasing(u, x, y)
         /\ \A u, x, y : Releasing(u, x, y) =>
              /\ u \in Runs /\ x \in Runs /\ y \in Runs
              /\ y.disk = x.disk /\ y.trail = x.trail /\ y.failures = x.failures
              /\ (y.store.suspended <=> x.store.suspended)
<1> DEFINE Released(x) == {[x EXCEPT !.store.stats = None, !.store.dirty = FALSE]}
           SaveFirst(x) == IF x.store.dirty THEN saveToFile(x, TRUE) ELSE Done(x)
<1>1. PICK x \in Then(SessionEnded, SaveFirst) : \E y \in IF x.ok THEN Released(x) ELSE {x} :
        /\ \/ PowerGoes(y) /\ UNCHANGED durable
           \/ /\ Ends(y) /\ durable' = Noted(x)
              /\ active' = "none" /\ network' = TRUE
        /\ forgotten' = ReadAgain(x)
  BY DEF releaseMemoryForNetwork
<1>2. PICK u \in SessionEnded : x \in SaveFirst(u)
  BY <1>1 DEF Then
<1>3. PICK y \in IF x.ok THEN Released(x) ELSE {x} :
        /\ \/ PowerGoes(y) /\ UNCHANGED durable
           \/ /\ Ends(y) /\ durable' = Noted(x)
              /\ active' = "none" /\ network' = TRUE
        /\ forgotten' = ReadAgain(x)
  BY <1>1
<1>4. y = IF x.ok THEN Emptied(x) ELSE x
  BY <1>3 DEF Emptied
<1>5. Releasing(u, x, y)
  BY <1>2, <1>3, <1>4 DEF Releasing
<1>6. ASSUME NEW v, NEW w, NEW z, Releasing(v, w, z)
      PROVE  /\ v \in Runs /\ w \in Runs /\ z \in Runs
             /\ z.disk = w.disk /\ z.trail = w.trail /\ z.failures = w.failures
             /\ (z.store.suspended <=> w.store.suspended)
  <2>1. v \in Runs /\ TRUE \in BOOLEAN
    BY <1>6, SessionEndedIs DEF Releasing
  <2>2. w \in Runs
    <3>1. w \in saveToFile(v, TRUE) \/ w \in Done(v)
      BY <1>6 DEF Releasing
    <3> QED
      BY <2>1, <3>1, SaveTyped, DoneIs DEF Carries
  <2>3. z = Emptied(w) \/ z = w
    BY <1>6 DEF Releasing
  <2> QED
    BY <2>1, <2>2, <2>3, EmptiedIs
<1> QED
  BY <1>5, <1>6

LEMMA ReleaseTyped == ASSUME StoreTypeOK, releaseMemoryForNetwork PROVE StoreTypeOK'
<1>1. PICK u, x, y : Releasing(u, x, y)
  BY ReleasingIs
<1>2. x \in Runs /\ y \in Runs
  BY <1>1, ReleasingIs
<1>3. durable' \in Stats /\ forgotten' \in Forgettings
  BY <1>1, <1>2, HigherLowerAre, ForgettingsAre DEF Releasing
<1>4. CASE PowerGoes(y)
  BY <1>2, <1>3, <1>4, CutTyped DEF Forgettings
<1>5. CASE Ends(y) /\ active' = "none" /\ network' = TRUE
  <2>1. active' \in Books \cup {"none"} /\ network' \in BOOLEAN
    BY <1>5, Unchanged
  <2> QED
    BY <1>2, <1>3, <1>5, <2>1, EndsTyped DEF Forgettings
<1> QED
  BY <1>1, <1>4, <1>5 DEF Releasing

LEMMA ReloadTyped == ASSUME StoreTypeOK, reloadAfterNetwork PROVE StoreTypeOK'
<1>1. PICK y \in IF disk["main"] = NoFile THEN {Now} ELSE loadFromFile(Now) :
        PowerGoes(y) \/ (Ends(y) /\ network' = FALSE /\ UNCHANGED active)
  BY DEF reloadAfterNetwork
<1>2. y \in Runs
  BY <1>1, NowIs, LoadTyped
<1>3. durable' \in Stats /\ forgotten' \in Forgettings
  BY Unchanged DEF reloadAfterNetwork
<1>4. CASE PowerGoes(y)
  BY <1>2, <1>3, <1>4, CutTyped DEF Forgettings
<1>5. CASE Ends(y) /\ network' = FALSE /\ UNCHANGED active
  <2>1. active' \in Books \cup {"none"} /\ network' \in BOOLEAN
    BY <1>5, Unchanged
  <2> QED
    BY <1>2, <1>3, <1>5, <2>1, EndsTyped DEF Forgettings
<1> QED
  BY <1>1, <1>4, <1>5

LEMMA RestartTyped == ASSUME StoreTypeOK, silentRestart PROVE StoreTypeOK'
<1>1. UNCHANGED <<durable, forgotten>>
  BY DEF silentRestart
<1>2. CASE network' = FALSE /\ UNCHANGED <<up, disk, store, failures, active>>
  <2>1. network' \in BOOLEAN
    BY <1>2
  <2> QED
    BY <1>1, <1>2, <2>1 DEF StoreTypeOK, Stats, None
<1>3. CASE PowerGoes(Now)
  <2>1. durable' \in Stats /\ forgotten' \in Forgettings
    BY <1>1, Unchanged
  <2> QED
    BY <1>3, <2>1, NowIs, CutTyped DEF Forgettings
<1> QED
  BY <1>2, <1>3 DEF silentRestart

LEMMA StoreStarts == StoreInit => StoreTypeOK
<1> SUFFICES ASSUME StoreInit PROVE StoreTypeOK
  OBVIOUS
<1>1. Fresh \in Stores /\ NoFile \in FileContents /\ None \in Stats
  <2>1. TRUE \in BOOLEAN /\ FALSE \in BOOLEAN
    OBVIOUS
  <2> QED
    BY <2>1, ContentsAre DEF Stores, Fresh
<1>2. disk \in Disks /\ store \in Stores /\ durable \in Stats /\ forgotten \in Forgettings
  BY <1>1 DEF StoreInit, Disks, Forgettings
<1>3. up \in BOOLEAN /\ network \in BOOLEAN
  <2>1. up = FALSE /\ network = FALSE
    BY DEF StoreInit
  <2> QED
    BY <2>1
<1>4. failures \in 0 .. MaxFailures /\ active \in Books \cup {"none"}
  BY DEF StoreInit
<1> QED
  BY <1>2, <1>3, <1>4 DEF StoreTypeOK, Disks, FileContents, Stores, Forgettings

LEMMA StoreStepsTyped == StoreTypeOK /\ [StoreNext]_storeVars => StoreTypeOK'
<1> SUFFICES ASSUME StoreTypeOK, [StoreNext]_storeVars PROVE StoreTypeOK'
  OBVIOUS
<1>1. CASE UNCHANGED storeVars
  BY <1>1 DEF storeVars, StoreTypeOK, Stats, None
<1>2. CASE Boot \/ BootInRecovery \/ PowerLost
  BY <1>2, BootTyped, BootInRecoveryTyped, PowerLostTyped
<1>3. CASE \E b \in Books : beginSession(b) \/ removeBook(b)
  BY <1>3, BeginTyped, RemoveTyped
<1>4. CASE noteActivity \/ endSession \/ reset
  BY <1>4, NoteTyped, EndTyped, ResetTyped
<1>5. CASE \E src \in Imports : importFromFile(src)
  BY <1>5, ImportTyped
<1>6. CASE releaseMemoryForNetwork \/ reloadAfterNetwork \/ silentRestart
  BY <1>6, ReleaseTyped, ReloadTyped, RestartTyped
<1> QED
  BY <1>1, <1>2, <1>3, <1>4, <1>5, <1>6 DEF StoreNext

(* Whatever fails and whenever the power goes, every file of the card is   *)
(* absent, cut short or whole, and so are the statistics in memory and     *)
(* what the history says of them of their kinds.                           *)
THEOREM StoreTypeCorrect == StoreSpec => []StoreTypeOK
<1> QED
  BY StoreStarts, StoreStepsTyped, PTL DEF StoreSpec

-----------------------------------------------------------------------------
(* What was saved survives, and every operation keeps it so.               *)

(* No rename or load fails, no boot follows a failed write without loading *)
(* the statistics, and a network session ends in a restart.                *)
SavesAreSound ==
  /\ ~Touch
  /\ FaultKinds \cap {"rename", "load"} = {}
  /\ {"write", "skip"} \subseteq FaultKinds => MaxFailures <= 1

(* What was saved is on the card, as the main file while the store may     *)
(* write; a suspended store that may yet be replaced by an import does so  *)
(* without a failed write; and the memory has it too, outside a session.   *)
Saved ==
  /\ Holds(disk, durable)
  /\ up => Safe(disk, store, failures, durable)
  /\ up /\ ~network => Covered(store, durable)

SavedInv == StoreTypeOK /\ Saved

LEMMA EndsSaved ==
  ASSUME NEW y, Ends(y), Safe(y.disk, y.store, y.failures, durable'),
         network' \/ Covered(y.store, durable')
  PROVE  Saved'
<1>1. Holds(y.disk, durable')
  BY DEF Safe
<1> QED
  BY <1>1 DEF Ends, Saved

LEMMA CutSaved ==
  ASSUME NEW y, PowerGoes(y), \A d \in y.trail : Holds(d, durable')
  PROVE  Saved'
BY DEF PowerGoes, Saved

LEMMA StartsSaves ==
  ASSUME SavedInv, SavesAreSound, up, ~network, NEW r, Starts(r), NEW D \in Stats,
         D = durable \/ AtLeast(durable, D), AtLeast(r.store.stats, D) \/ store.suspended,
         NEW due \in BOOLEAN, NEW y \in saveToFile(r, due)
  PROVE  /\ y \in Runs /\ y.store.stats = r.store.stats
         /\ (y.store.suspended <=> store.suspended)
         /\ Safe(y.disk, y.store, y.failures, Note(y, D)) /\ Covered(y.store, Note(y, D))
         /\ \A d \in y.trail : Holds(d, D)
<1>1. /\ r \in Runs /\ r.disk = disk /\ r.trail = {disk} /\ r.failures = failures /\ ~r.saved
      /\ (r.store.suspended <=> store.suspended)
  BY DEF Starts
<1>2. Note(r, D) = D
  BY <1>1 DEF Note
<1>3. disk \in Disks /\ durable \in Stats
  BY <1>1 DEF Runs, SavedInv, StoreTypeOK
<1>4. Holds(disk, D)
  BY <1>3, HoldsLess DEF SavedInv, Saved
<1>5. Safe(r.disk, r.store, r.failures, Note(r, D))
  <2>1. D # None => durable # None
    BY <1>3, AtLeastIs
  <2> QED
    BY <1>1, <1>2, <1>4, <2>1 DEF Safe, SavedInv, Saved
<1>6. Covered(r.store, D)
  BY <1>1 DEF Covered
<1>7. "rename" \notin FaultKinds
  BY DEF SavesAreSound
<1>8. /\ y \in Runs /\ y.store.stats = r.store.stats /\ (y.store.suspended <=> r.store.suspended)
      /\ Safe(y.disk, y.store, y.failures, Note(y, D)) /\ Covered(y.store, Note(y, D))
      /\ \A d \in y.trail : d \in r.trail \/ Holds(d, D)
  BY <1>1, <1>5, <1>6, <1>7, SaveHolds
<1> QED
  BY <1>1, <1>4, <1>8

LEMMA SessionEndedSaves ==
  ASSUME SavedInv, SavesAreSound, up, ~network, NEW y \in SessionEnded
  PROVE  /\ y \in Runs /\ (y.store.suspended <=> store.suspended)
         /\ Safe(y.disk, y.store, y.failures, Note(y, durable))
         /\ Covered(y.store, Note(y, durable))
         /\ \A d \in y.trail : Holds(d, durable)
<1>0. StoreTypeOK
  BY DEF SavedInv
<1>1. CASE y = Now
  <2>1. /\ Now \in Runs /\ Now.disk = disk /\ Now.store = store /\ Now.failures = failures
        /\ Now.trail = {disk} /\ ~Now.saved
    BY <1>0, NowIs
  <2>2. Note(y, durable) = durable
    BY <1>1, <2>1 DEF Note
  <2> QED
    BY <1>1, <2>1, <2>2 DEF SavedInv, Saved
<1>2. CASE \E r : /\ Starts(r) /\ AtLeast(r.store.stats, store.stats)
                  /\ y \in saveToFile(r, TRUE)
  <2>1. PICK r : Starts(r) /\ AtLeast(r.store.stats, store.stats) /\ y \in saveToFile(r, TRUE)
    BY <1>2
  <2>2. durable \in Stats /\ store.stats \in Stats /\ r.store.stats \in Stats /\ TRUE \in BOOLEAN
    BY <1>0, <2>1 DEF StoreTypeOK, Starts, Runs, Stores
  <2>3. AtLeast(r.store.stats, durable) \/ store.suspended
    BY <2>1, <2>2, AtLeastIs DEF SavedInv, Saved, Covered
  <2> QED
    BY <2>1, <2>2, <2>3, StartsSaves
<1> QED
  BY <1>0, <1>1, <1>2, SessionEndedIs

LEMMA LoadSaves ==
  ASSUME SavedInv, SavesAreSound, NEW y \in loadFromFile(Now)
  PROVE  /\ Safe(y.disk, y.store, y.failures, durable) /\ Covered(y.store, durable)
         /\ \A d \in y.trail : Holds(d, durable)
<1>1. Now \in Runs /\ Now.disk = disk /\ Now.trail = {disk} /\ durable \in Stats
  BY NowIs DEF SavedInv, StoreTypeOK
<1>2. Holds(disk, durable) /\ FaultKinds \cap {"rename", "load"} = {}
  BY DEF SavedInv, Saved, SavesAreSound
<1>3. /\ Safe(y.disk, y.store, y.failures, durable) /\ Covered(y.store, durable)
      /\ \A d \in y.trail : d \in Now.trail \/ Holds(d, durable)
  BY <1>1, <1>2, LoadHolds
<1> QED
  BY <1>1, <1>2, <1>3

LEMMA BootSaves == ASSUME SavedInv, SavesAreSound, Boot PROVE Saved'
<1>1. PICK y \in loadFromFile(Now) : PowerGoes(y) \/ (Ends(y) /\ UNCHANGED <<active, network>>)
  BY DEF Boot
<1>2. durable' = durable
  BY DEF Boot
<1>3. CASE PowerGoes(y)
  BY <1>2, <1>3, LoadSaves, CutSaved
<1>4. CASE Ends(y)
  BY <1>2, <1>4, LoadSaves, EndsSaved
<1> QED
  BY <1>1, <1>3, <1>4

LEMMA BootInRecoverySaves == ASSUME SavedInv, SavesAreSound, BootInRecovery PROVE Saved'
<1>1. /\ \E r \in markLoadSkippedForRecovery([Now EXCEPT !.failures = @ - 1]) : Ends(r)
      /\ Now.failures > 0 /\ UNCHANGED <<active, network, durable, forgotten>>
      /\ "skip" \in FaultKinds
  BY DEF BootInRecovery, CanFail
<1>2. StoreTypeOK /\ failures > 0 /\ [Now EXCEPT !.failures = @ - 1] = OneFailureLess
  BY <1>1, NowIs DEF OneFailureLess, SavedInv
<1>3. PICK y \in markLoadSkippedForRecovery(OneFailureLess) : Ends(y)
  BY <1>1, <1>2
<1>4. /\ OneFailureLess \in Runs /\ OneFailureLess.disk = disk
      /\ OneFailureLess.failures = failures - 1
  BY <1>2, OneFailureLessIs
<1>5. y.disk = disk /\ y.store.suspended /\ y.failures <= failures - 1 /\ y \in Runs
  BY <1>3, <1>4, MarkIs DEF Steady
<1>6. y.failures \in Nat /\ failures \in 0 .. MaxFailures
  BY <1>2, <1>5 DEF Runs, StoreTypeOK
<1>7. "write" \in FaultKinds => y.failures = 0
  BY <1>1, <1>5, <1>6 DEF SavesAreSound
<1>8. Safe(y.disk, y.store, y.failures, durable')
  BY <1>1, <1>5, <1>7 DEF Safe, SavedInv, Saved
<1> QED
  BY <1>3, <1>5, <1>8, EndsSaved DEF Covered

LEMMA PowerLostSaves == ASSUME SavedInv, PowerLost PROVE Saved'
<1>1. PowerGoes(Now) /\ durable' = durable /\ Now.trail = {disk}
  BY NowIs DEF PowerLost, SavedInv
<1> QED
  BY <1>1, CutSaved DEF SavedInv, Saved

LEMMA BeginSaves ==
  ASSUME SavedInv, SavesAreSound, NEW b \in Books, beginSession(b)
  PROVE  Saved'
<1>1. PICK y \in SessionEnded :
        \/ PowerGoes(y) /\ UNCHANGED durable
        \/ Ends(Dirtied(y)) /\ durable' = Noted(y)
  BY DEF beginSession, Dirtied
<1>2. StoreTypeOK /\ up /\ ~network
  BY DEF SavedInv, beginSession, Idle
<1>3. /\ y \in Runs /\ Safe(y.disk, y.store, y.failures, Note(y, durable))
      /\ Covered(y.store, Note(y, durable)) /\ \A d \in y.trail : Holds(d, durable)
  BY <1>2, SessionEndedSaves
<1>4. CASE PowerGoes(y) /\ UNCHANGED durable
  BY <1>3, <1>4, CutSaved
<1>5. CASE Ends(Dirtied(y)) /\ durable' = Noted(y)
  <2>1. durable' = Note(y, durable)
    BY <1>2, <1>3, <1>5, HigherLowerAre
  <2>2. /\ Dirtied(y).disk = y.disk /\ Dirtied(y).failures = y.failures
        /\ Dirtied(y).store.stats = y.store.stats
        /\ (Dirtied(y).store.suspended <=> y.store.suspended)
    BY <1>3, DirtiedIs
  <2>3. Safe(Dirtied(y).disk, Dirtied(y).store, Dirtied(y).failures, durable')
    BY <1>3, <2>1, <2>2 DEF Safe
  <2>4. Covered(Dirtied(y).store, durable')
    BY <1>3, <2>1, <2>2 DEF Covered
  <2> QED
    BY <1>5, <2>3, <2>4, EndsSaved
<1> QED
  BY <1>1, <1>4, <1>5

LEMMA NoteSaves == ASSUME SavedInv, SavesAreSound, noteActivity PROVE Saved'
<1>1. PICK due \in BOOLEAN : \E y \in saveToFile(Credited(active), due) :
        \/ PowerGoes(y) /\ UNCHANGED durable
        \/ Ends(y) /\ durable' = Noted(y)
  BY DEF noteActivity
<1>2. PICK y \in saveToFile(Credited(active), due) :
        \/ PowerGoes(y) /\ UNCHANGED durable
        \/ Ends(y) /\ durable' = Noted(y)
  BY <1>1
<1>3. StoreTypeOK /\ up /\ ~network
  BY DEF SavedInv, noteActivity, Idle
<1>4. active \in Books /\ store.stats[active] < MaxRead
  BY <1>3, Unchanged DEF noteActivity
<1>5. Starts(Credited(active)) /\ AtLeast(Credited(active).store.stats, store.stats)
  BY <1>3, <1>4, CreditedIs
<1>6. durable \in Stats /\ store.stats \in Stats /\ Credited(active).store.stats \in Stats
  BY <1>3, <1>5 DEF StoreTypeOK, Starts, Runs, Stores
<1>7. AtLeast(Credited(active).store.stats, durable) \/ store.suspended
  BY <1>3, <1>5, <1>6, AtLeastIs DEF SavedInv, Saved, Covered
<1>8. /\ y \in Runs /\ Safe(y.disk, y.store, y.failures, Note(y, durable))
      /\ Covered(y.store, Note(y, durable)) /\ \A d \in y.trail : Holds(d, durable)
  BY <1>2, <1>3, <1>5, <1>6, <1>7, StartsSaves
<1>9. CASE PowerGoes(y) /\ UNCHANGED durable
  BY <1>8, <1>9, CutSaved
<1>10. CASE Ends(y) /\ durable' = Noted(y)
  <2>1. durable' = Note(y, durable)
    BY <1>3, <1>8, <1>10, HigherLowerAre
  <2> QED
    BY <1>8, <1>10, <2>1, EndsSaved
<1> QED
  BY <1>2, <1>9, <1>10

LEMMA EndSaves == ASSUME SavedInv, SavesAreSound, endSession PROVE Saved'
<1>1. PICK y \in SessionEnded :
        \/ PowerGoes(y) /\ UNCHANGED durable
        \/ Ends(y) /\ durable' = Noted(y)
  BY DEF endSession
<1>2. StoreTypeOK /\ up /\ ~network
  BY DEF SavedInv, endSession, Idle
<1>3. /\ y \in Runs /\ Safe(y.disk, y.store, y.failures, Note(y, durable))
      /\ Covered(y.store, Note(y, durable)) /\ \A d \in y.trail : Holds(d, durable)
  BY <1>2, SessionEndedSaves
<1>4. CASE PowerGoes(y) /\ UNCHANGED durable
  BY <1>3, <1>4, CutSaved
<1>5. CASE Ends(y) /\ durable' = Noted(y)
  <2>1. durable' = Note(y, durable)
    BY <1>2, <1>3, <1>5, HigherLowerAre
  <2> QED
    BY <1>3, <1>5, <2>1, EndsSaved
<1> QED
  BY <1>1, <1>4, <1>5

LEMMA SafeLess ==
  ASSUME NEW y \in Runs, NEW D \in Stats, NEW E \in Stats, AtLeast(D, E),
         Safe(y.disk, y.store, y.failures, D)
  PROVE  /\ Safe(y.disk, y.store, y.failures, E)
         /\ Covered(y.store, D) => Covered(y.store, E)
<1>1. y.disk \in Disks /\ y.store.stats \in Stats
  BY DEF Runs, Stores
<1>2. Holds(y.disk, E)
  BY <1>1, HoldsLess DEF Safe
<1>3. E # None => D # None
  BY AtLeastIs
<1>4. Covered(y.store, D) => Covered(y.store, E)
  BY <1>1, AtLeastIs DEF Covered
<1> QED
  BY <1>2, <1>3, <1>4 DEF Safe

LEMMA NoteIsMore ==
  ASSUME NEW y \in Runs, NEW D \in Stats
  PROVE  Note(y, D) \in Stats /\ AtLeast(Note(y, D), D)
BY AtLeastIs DEF Note, Runs, Stores

LEMMA RemoveSaves ==
  ASSUME SavedInv, SavesAreSound, NEW b \in Books, removeBook(b)
  PROVE  Saved'
<1> DEFINE D == [durable EXCEPT ![b] = 0]
           s == [store.stats EXCEPT ![b] = 0]
<1>1. PICK due, y : Removing(b, due, y)
  BY RemovingIs
<1>2. StoreTypeOK /\ up /\ ~network
  BY DEF SavedInv, removeBook, Idle
<1>3. D \in Stats /\ s \in Stats /\ AtLeast(durable, D)
      /\ (AtLeast(store.stats, durable) => AtLeast(s, D))
  BY <1>2 DEF StoreTypeOK, Stats, AtLeast
<1>4. Starts(EntryRemoved(b)) /\ EntryRemoved(b).store.stats = s
  BY <1>2, EntryRemovedIs
<1>5. durable' = D
  BY <1>1 DEF Removing
<1> HIDE DEF D, s
<1>6. AtLeast(EntryRemoved(b).store.stats, D) \/ store.suspended
  BY <1>2, <1>3, <1>4 DEF SavedInv, Saved, Covered
<1>7. /\ y \in Runs /\ Safe(y.disk, y.store, y.failures, Note(y, D))
      /\ Covered(y.store, Note(y, D)) /\ \A d \in y.trail : Holds(d, D)
  BY <1>1, <1>2, <1>3, <1>4, <1>6, StartsSaves DEF Removing
<1>8. Note(y, D) \in Stats /\ AtLeast(Note(y, D), D)
  BY <1>3, <1>7, NoteIsMore
<1>9. Safe(y.disk, y.store, y.failures, D) /\ Covered(y.store, D)
  BY <1>3, <1>7, <1>8, SafeLess
<1>10. CASE PowerGoes(y)
  BY <1>5, <1>7, <1>10, CutSaved
<1>11. CASE Ends(y)
  BY <1>5, <1>9, <1>11, EndsSaved
<1> QED
  BY <1>1, <1>10, <1>11 DEF Removing

LEMMA ResetSaves == ASSUME SavedInv, reset PROVE Saved'
<1>1. PICK x, y : Resetting(x, y)
  BY ResettingIs DEF SavedInv
<1>2. y \in Runs
  BY <1>1, ResettingIs DEF SavedInv
<1>3. durable' = None
  BY DEF reset
<1>4. \A d : Holds(d, None)
  BY DEF Holds
<1>5. Safe(y.disk, y.store, y.failures, None) /\ Covered(y.store, None)
  BY <1>2, <1>4, AtLeastIs DEF Safe, Covered, Runs, Stores
<1>6. CASE PowerGoes(y)
  BY <1>3, <1>4, <1>6, CutSaved
<1>7. CASE Ends(y)
  BY <1>3, <1>5, <1>7, EndsSaved
<1> QED
  BY <1>1, <1>6, <1>7 DEF Resetting

LEMMA ImportSaves ==
  ASSUME SavedInv, SavesAreSound, NEW src \in Imports, importFromFile(src)
  PROVE  Saved'
<1>1. PICK y \in Import(Now, src) :
        \/ /\ PowerGoes(y)
           /\ durable' = IF store.suspended THEN None ELSE Lower(durable, src.stats)
        \/ Ends(y) /\ durable' = (IF y.ok THEN src.stats ELSE durable)
  BY DEF importFromFile
<1>2. StoreTypeOK /\ up /\ ~network /\ src \in FileContents /\ durable \in Stats
  BY ImportsAre DEF SavedInv, importFromFile, Idle, StoreTypeOK
<1>3. /\ Now \in Runs /\ Now.disk = disk /\ Now.store = store /\ Now.failures = failures
      /\ Now.trail = {disk}
  BY <1>2, NowIs
<1>4. /\ y.ok => Safe(y.disk, y.store, y.failures, src.stats) /\ Covered(y.store, src.stats)
      /\ ~y.ok => Safe(y.disk, y.store, y.failures, durable) /\ Covered(y.store, durable)
      /\ \A d \in y.trail : d \in Now.trail \/ Holds(d, Left(Now, durable, src))
  <2>1. Safe(Now.disk, Now.store, Now.failures, durable) /\ Covered(Now.store, durable)
    BY <1>2, <1>3 DEF SavedInv, Saved
  <2>2. FaultKinds \cap {"rename", "load"} = {}
    BY DEF SavesAreSound
  <2> QED
    BY <1>2, <1>3, <2>1, <2>2, ImportHolds
<1>5. CASE PowerGoes(y) /\ durable' = (IF store.suspended THEN None ELSE Lower(durable, src.stats))
  <2>1. durable' = Left(Now, durable, src)
    BY <1>3, <1>5 DEF Left
  <2>2. disk \in Disks /\ Holds(disk, durable)
    BY <1>3 DEF Runs, SavedInv, Saved
  <2>3. Holds(disk, durable')
    BY <1>2, <2>1, <2>2, LeftIs
  <2>4. \A d \in y.trail : Holds(d, durable')
    BY <1>3, <1>4, <2>1, <2>3
  <2> QED
    BY <1>5, <2>4, CutSaved
<1>6. CASE Ends(y) /\ durable' = (IF y.ok THEN src.stats ELSE durable)
  BY <1>4, <1>6, EndsSaved
<1> QED
  BY <1>1, <1>5, <1>6

LEMMA ReleaseSaves == ASSUME SavedInv, SavesAreSound, releaseMemoryForNetwork PROVE Saved'
<1>1. PICK u, x, y : Releasing(u, x, y)
  BY ReleasingIs DEF SavedInv
<1>2. StoreTypeOK /\ up /\ ~network /\ durable \in Stats
  BY DEF SavedInv, releaseMemoryForNetwork, Idle, StoreTypeOK
<1>3. /\ u \in Runs /\ x \in Runs /\ y \in Runs
      /\ y.disk = x.disk /\ y.trail = x.trail /\ y.failures = x.failures
      /\ (y.store.suspended <=> x.store.suspended)
  BY <1>1, <1>2, ReleasingIs
<1>4. /\ Safe(u.disk, u.store, u.failures, Note(u, durable)) /\ Covered(u.store, Note(u, durable))
      /\ \A d \in u.trail : Holds(d, durable)
  BY <1>1, <1>2, SessionEndedSaves DEF Releasing
<1>5. Covered(u.store, durable)
  BY <1>2, <1>3, <1>4, NoteIsMore, SafeLess
<1>6. /\ Safe(x.disk, x.store, x.failures, Note(x, durable))
      /\ \A d \in x.trail : Holds(d, durable)
  <2>1. CASE x \in saveToFile(u, TRUE)
    <3>1. TRUE \in BOOLEAN /\ "rename" \notin FaultKinds
      BY DEF SavesAreSound
    <3>2. /\ Safe(x.disk, x.store, x.failures, Note(x, durable))
          /\ \A d \in x.trail : d \in u.trail \/ Holds(d, durable)
      BY <1>2, <1>3, <1>4, <1>5, <2>1, <3>1, SaveHolds
    <3> QED
      BY <1>4, <3>2
  <2>2. CASE x \in Done(u)
    <3>1. /\ x.store = u.store /\ x.saved = u.saved /\ x.failures <= u.failures
          /\ x.disk = u.disk /\ x.trail = u.trail
      BY <1>3, <2>2, DoneIs DEF Carries
    <3>2. x.saved <=> u.saved
      BY <3>1, Zenon
    <3>3. Note(x, durable) = Note(u, durable)
      BY <3>1, <3>2 DEF Note
    <3>4. x.failures \in Nat /\ u.failures \in Nat
      BY <1>3 DEF Runs
    <3> QED
      BY <1>4, <3>1, <3>3, <3>4, SafeLater
  <2> QED
    BY <1>1, <2>1, <2>2 DEF Releasing
<1>7. CASE PowerGoes(y) /\ UNCHANGED durable
  BY <1>3, <1>6, <1>7, CutSaved
<1>8. CASE Ends(y) /\ durable' = Noted(x) /\ network' = TRUE
  <2>1. durable' = Note(x, durable)
    BY <1>2, <1>3, <1>8, HigherLowerAre
  <2>2. Safe(y.disk, y.store, y.failures, durable')
    BY <1>3, <1>6, <2>1 DEF Safe
  <2> QED
    BY <1>8, <2>2, EndsSaved
<1> QED
  BY <1>1, <1>7, <1>8 DEF Releasing

LEMMA ReloadSaves == ASSUME SavedInv, SavesAreSound, reloadAfterNetwork PROVE Saved'
<1>1. PICK y \in IF disk["main"] = NoFile THEN {Now} ELSE loadFromFile(Now) :
        PowerGoes(y) \/ Ends(y)
  BY DEF reloadAfterNetwork
<1>2. durable' = durable /\ up
  BY DEF reloadAfterNetwork
<1>3. /\ Safe(y.disk, y.store, y.failures, durable) /\ Covered(y.store, durable)
      /\ \A d \in y.trail : Holds(d, durable)
  <2>1. CASE y = Now /\ disk["main"] = NoFile
    <3>1. /\ Now.disk = disk /\ Now.store = store /\ Now.failures = failures
          /\ Now.trail = {disk} /\ store.stats \in Stats
      BY NowIs DEF SavedInv, StoreTypeOK
    <3>2. Safe(disk, store, failures, durable)
      BY <1>2 DEF SavedInv, Saved
    <3>3. Covered(store, durable)
      BY <2>1, <3>1, <3>2, AtLeastIs DEF Safe, Covered
    <3>4. Holds(disk, durable)
      BY <3>2 DEF Safe
    <3> QED
      BY <2>1, <3>1, <3>2, <3>3, <3>4
  <2>2. CASE y \in loadFromFile(Now)
    BY <2>2, LoadSaves
  <2> QED
    BY <1>1, <2>1, <2>2
<1>4. CASE PowerGoes(y)
  BY <1>2, <1>3, <1>4, CutSaved
<1>5. CASE Ends(y)
  BY <1>2, <1>3, <1>5, EndsSaved
<1> QED
  BY <1>1, <1>4, <1>5

LEMMA RestartSaves == ASSUME SavedInv, SavesAreSound, silentRestart PROVE Saved'
<1>1. PowerGoes(Now) /\ durable' = durable /\ Now.trail = {disk}
  BY NowIs DEF silentRestart, SavesAreSound, SavedInv
<1> QED
  BY <1>1, CutSaved DEF SavedInv, Saved

LEMMA SavedStarts == StoreInit => SavedInv
<1> SUFFICES ASSUME StoreInit PROVE SavedInv
  OBVIOUS
<1>1. Holds(disk, durable) /\ ~up
  BY DEF StoreInit, Holds
<1> QED
  BY <1>1, StoreStarts DEF SavedInv, Saved

LEMMA SavedSteps == SavesAreSound /\ SavedInv /\ [StoreNext]_storeVars => SavedInv'
<1> SUFFICES ASSUME SavesAreSound, SavedInv, [StoreNext]_storeVars PROVE SavedInv'
  OBVIOUS
<1>1. StoreTypeOK'
  BY StoreStepsTyped DEF SavedInv
<1>2. CASE UNCHANGED storeVars
  <2>1. Saved'
    BY <1>2 DEF storeVars, SavedInv, Saved
  <2> QED
    BY <1>1, <2>1 DEF SavedInv
<1>3. CASE Boot \/ BootInRecovery \/ PowerLost
  BY <1>1, <1>3, BootSaves, BootInRecoverySaves, PowerLostSaves DEF SavedInv
<1>4. CASE \E b \in Books : beginSession(b) \/ removeBook(b)
  BY <1>1, <1>4, BeginSaves, RemoveSaves DEF SavedInv
<1>5. CASE noteActivity \/ endSession \/ reset
  BY <1>1, <1>5, NoteSaves, EndSaves, ResetSaves DEF SavedInv
<1>6. CASE \E src \in Imports : importFromFile(src)
  BY <1>1, <1>6, ImportSaves DEF SavedInv
<1>7. CASE releaseMemoryForNetwork \/ reloadAfterNetwork \/ silentRestart
  BY <1>1, <1>7, ReleaseSaves, ReloadSaves, RestartSaves DEF SavedInv
<1> QED
  BY <1>2, <1>3, <1>4, <1>5, <1>6, <1>7 DEF StoreNext

LEMMA AtNextBoot ==
  ASSUME StoreTypeOK
  PROVE  /\ Run(disk, Fresh, 0) \in Runs
         /\ \E y \in loadFromFile(Run(disk, Fresh, 0)) : NextBoot = y.store.stats
<1>1. TRUE \in BOOLEAN /\ FALSE \in BOOLEAN /\ Fresh \in Stores /\ disk \in Disks
      /\ 0 \in 0 .. MaxFailures
  <2>1. TRUE \in BOOLEAN /\ FALSE \in BOOLEAN /\ None \in Stats
    BY ContentsAre
  <2> QED
    BY <2>1 DEF Stores, Fresh, StoreTypeOK, Disks, FileContents
<1>2. {disk} \in SUBSET Disks
  BY <1>1
<1>3. Run(disk, Fresh, 0) \in Runs
  BY <1>1, <1>2 DEF Run, Runs
<1>4. loadFromFile(Run(disk, Fresh, 0)) # {}
  BY <1>3, LoadIs
<1> DEFINE L == loadFromFile(Run(disk, Fresh, 0))
<1>5. NextBoot = (CHOOSE r \in L : TRUE).store.stats /\ L # {}
  BY <1>4 DEF NextBoot
<1> HIDE DEF L
<1>6. (CHOOSE r \in L : TRUE) \in L
  BY <1>5
<1> QED
  BY <1>3, <1>5, <1>6 DEF L

LEMMA SavedIsShown == SavesAreSound /\ SavedInv => SavedTimeSurvives /\ MemoryCoversTheCard
<1> SUFFICES ASSUME SavesAreSound, SavedInv PROVE SavedTimeSurvives /\ MemoryCoversTheCard
  OBVIOUS
<1>1. MemoryCoversTheCard
  BY DEF SavedInv, Saved, Covered, MemoryCoversTheCard, Idle
<1> DEFINE R == Run(disk, Fresh, 0)
<1>2. R \in Runs /\ \E y \in loadFromFile(R) : NextBoot = y.store.stats
  BY AtNextBoot DEF SavedInv
<1>3. R.disk = disk
  BY DEF Run
<1> HIDE DEF R
<1>4. PICK y \in loadFromFile(R) : NextBoot = y.store.stats
  BY <1>2
<1>5. NextBoot \in Stats /\ durable \in Stats
  BY <1>2, <1>4, LoadTyped DEF Runs, Stores, SavedInv, StoreTypeOK
<1>6. CASE durable = None
  <2>1. AtLeast(NextBoot, None)
    BY <1>5, AtLeastIs
  <2>2. AtLeast(NextBoot, durable)
    BY <1>6, <2>1
  <2> QED
    BY <1>1, <2>2 DEF SavedTimeSurvives
<1>7. CASE durable # None
  <2> DEFINE m == MainOf(disk)
  <2>1. m.is = "whole" /\ AtLeast(m.stats, durable)
    BY <1>7 DEF SavedInv, Saved, Holds
  <2>2. m.stats \in Stats /\ HasData(m)
    BY <1>2, <1>3, <1>5, <1>7, <2>1, AtLeastIs, MainOfIs DEF Runs, HasData
  <2>3. y.store.stats = m.stats
    BY <1>2, <1>3, <1>4, <2>1, <2>2, LoadGood DEF SavesAreSound
  <2>4. AtLeast(NextBoot, durable)
    BY <1>4, <2>1, <2>3
  <2> QED
    BY <1>1, <2>4 DEF SavedTimeSurvives
<1> QED
  BY <1>1, <1>6, <1>7

(* Reading time a save has written is there at the next boot, wherever the *)
(* power went since, and the memory does not fall behind the card.         *)
THEOREM SavedTimeIsKept ==
  ASSUME SavesAreSound
  PROVE  StoreSpec => [](SavedTimeSurvives /\ MemoryCoversTheCard)
<1>1. SavedInv /\ [StoreNext]_storeVars => SavedInv'
  BY SavedSteps
<1>2. SavedInv => SavedTimeSurvives /\ MemoryCoversTheCard
  BY SavedIsShown
<1> QED
  BY <1>1, <1>2, SavedStarts, PTL DEF StoreSpec

-----------------------------------------------------------------------------
(* What was reset or removed stays away.                                   *)

(* A boot shows nothing of book b: there is nothing of it on the card, or, *)
(* unless everything was reset, the file a boot loads has other books only. *)
GoneOn(f, b, d) ==
  \/ ZeroOn(b, d)
  \/ /\ f # "reset" /\ MainOf(d).is = "whole" /\ HasData(MainOf(d))
     /\ MainOf(d).stats[b] = 0

(* Nothing of it is in memory either, and while the store may write it has *)
(* a main file and other books to write, or there is nothing to come back. *)
GoneFrom(f, b, r) ==
  /\ r.store.stats[b] = 0 /\ GoneOn(f, b, r.disk)
  /\ ~r.store.suspended => ZeroOn(b, r.disk) \/ r.disk["main"] # NoFile
OthersToWrite(b, r) == ~r.store.suspended => ZeroOn(b, r.disk) \/ r.store.stats # None

LEMMA WholeHasData ==
  /\ NoFile.is # "whole" /\ ~HasData(NoFile) /\ \A b \in Books : NoFile.stats[b] = 0
  /\ \A s : Whole(s).is = "whole" /\ Whole(s).stats = s /\ (HasData(Whole(s)) <=> s # None)
  /\ \A s : Whole(s) # NoFile
BY DEF NoFile, Whole, HasData, None

LEMMA LoadGone ==
  ASSUME NEW r \in Runs, NEW b \in Books, NEW f, FaultKinds \cap {"rename", "load"} = {},
         r.store.stats[b] = 0, GoneOn(f, b, r.disk), NEW y \in loadFromFile(r)
  PROVE  /\ y \in Runs /\ GoneFrom(f, b, y) /\ OthersToWrite(b, y)
         /\ \A d \in y.trail : d \in r.trail \/ GoneOn(f, b, d)
<1>1. Loading(r, y)
  BY LoadIs
<1>2. y \in Runs
  BY <1>1 DEF Loading, Steady
<1>3. CASE ZeroOn(b, r.disk)
  <2>1. Blank(b, y) /\ \A d \in y.trail : d \in r.trail \/ ZeroOn(b, d)
    BY <1>1, <1>3 DEF Loading, Blank
  <2> QED
    BY <1>2, <2>1 DEF GoneFrom, GoneOn, Blank, OthersToWrite
<1>4. CASE /\ f # "reset" /\ MainOf(r.disk).is = "whole" /\ HasData(MainOf(r.disk))
           /\ MainOf(r.disk).stats[b] = 0
  <2> DEFINE m == MainOf(r.disk)
  <2>1. /\ y.disk["main"] = m /\ y.store.stats = m.stats
        /\ \A d \in y.trail : d \in r.trail \/ MainOf(d) = m
    BY <1>4, LoadGood
  <2>2. m # NoFile /\ m.stats # None
    BY <1>4, WholeHasData DEF HasData
  <2>3. MainOf(y.disk) = m
    BY <2>1, <2>2 DEF MainOf
  <2> HIDE DEF m
  <2>4. m.is = "whole" /\ HasData(m) /\ m.stats[b] = 0
    BY <1>4 DEF m
  <2>5. \A d : MainOf(d) = m => GoneOn(f, b, d)
    BY <1>4, <2>4 DEF GoneOn
  <2>6. GoneFrom(f, b, y)
    BY <2>1, <2>2, <2>3, <2>4, <2>5 DEF GoneFrom
  <2>7. OthersToWrite(b, y)
    BY <2>1, <2>2 DEF OthersToWrite
  <2> QED
    BY <1>2, <2>1, <2>5, <2>6, <2>7
<1> QED
  BY <1>3, <1>4 DEF GoneOn

LEMMA SaveGone ==
  ASSUME NEW r \in Runs, NEW b \in Books, NEW f, "rename" \notin FaultKinds,
         GoneFrom(f, b, r), OthersToWrite(b, r), NEW due \in BOOLEAN, NEW y \in saveToFile(r, due)
  PROVE  /\ y \in Runs /\ y.store.stats = r.store.stats
         /\ (y.store.suspended <=> r.store.suspended)
         /\ GoneFrom(f, b, y) /\ OthersToWrite(b, y)
         /\ \A d \in y.trail : d \in r.trail \/ GoneOn(f, b, d)
<1> DEFINE S == r.store.stats
           c == Whole(S)
<1>1. SaveEnds(r, due, y)
  BY SaveToFileIs
<1>2. y \in Runs /\ y.store.stats = S /\ (y.store.suspended <=> r.store.suspended)
  <2>1. KeepsStats(r, y)
    BY <1>1 DEF SaveEnds, NothingDone, Persists
  <2>2. y.store.suspended = r.store.suspended
    BY <2>1 DEF KeepsStats
  <2>3. y.store.suspended <=> r.store.suspended
    BY <2>2, Zenon
  <2> QED
    BY <2>1, <2>3 DEF KeepsStats
<1>3. S[b] = 0 /\ c.is = "whole" /\ c.stats = S /\ (HasData(c) <=> S # None) /\ c # NoFile
  BY WholeHasData DEF GoneFrom
<1> HIDE DEF c, S
<1>4. CASE NothingDone(r, y)
  <2>1. y.disk = r.disk /\ y.trail = r.trail
    BY <1>4 DEF NothingDone
  <2> QED
    BY <1>2, <1>3, <2>1 DEF GoneFrom, OthersToWrite, S
<1>5. CASE ~r.store.suspended /\ Persists(r, c, y)
  <2>1. ASSUME NEW d, PersistPlace(r, c, d), ZeroOn(b, r.disk)
        PROVE  ZeroOn(b, d)
    <3>1. d["mainTmp"].stats[b] = 0
      <4>1. \A x \in Cut(c) : x.stats[b] = 0
        BY <1>3 DEF Cut, CutShort, None
      <4> QED
        BY <1>3, <2>1, <4>1, WholeHasData DEF PersistPlace, ZeroOn
    <3>2. d["main"].stats[b] = 0
      BY <1>3, <2>1, WholeHasData DEF PersistPlace, ZeroOn
    <3>3. d["bak"].stats[b] = 0
      BY <1>3, <2>1, WholeHasData DEF PersistPlace, ZeroOn
    <3> QED
      BY <3>1, <3>2, <3>3 DEF ZeroOn
  <2>2. ~ZeroOn(b, r.disk) =>
          /\ f # "reset" /\ r.disk["main"] # NoFile /\ r.disk["main"].is = "whole"
          /\ HasData(r.disk["main"]) /\ r.disk["main"].stats[b] = 0 /\ S # None
    BY <1>5 DEF GoneFrom, GoneOn, OthersToWrite, MainOf, S
  <2>3. ASSUME NEW d, PersistPlace(r, c, d)
        PROVE  GoneOn(f, b, d)
    <3>1. CASE ZeroOn(b, r.disk)
      BY <2>1, <2>3, <3>1 DEF GoneOn
    <3>2. CASE ~ZeroOn(b, r.disk)
      BY <1>3, <2>2, <2>3, <3>2 DEF GoneOn, PersistPlace, MainOf
    <3> QED
      BY <3>1, <3>2
  <2>4. PersistPlace(r, c, y.disk) /\ \A d \in y.trail : d \in r.trail \/ PersistPlace(r, c, d)
    BY <1>5 DEF Persists
  <2>5. ZeroOn(b, y.disk) \/ y.disk["main"] # NoFile
    <3>1. CASE y.ok
      BY <1>3, <1>5, <3>1 DEF Persists
    <3>2. CASE ~y.ok
      <4>1. y.disk["main"] = r.disk["main"]
        BY <1>5, <3>2 DEF Persists
      <4> QED
        BY <2>1, <2>2, <2>4, <4>1
    <3> QED
      BY <3>1, <3>2
  <2>6. OthersToWrite(b, y)
    BY <1>2, <2>1, <2>2, <2>4 DEF OthersToWrite
  <2>7. GoneFrom(f, b, y)
    BY <1>2, <1>3, <2>3, <2>4, <2>5 DEF GoneFrom
  <2> QED
    BY <1>2, <2>3, <2>4, <2>6, <2>7 DEF S
<1> QED
  BY <1>1, <1>4, <1>5 DEF SaveEnds, c, S

(* A reset saves nothing, and its backup is gone by then. *)
LEMMA PersistNothing ==
  ASSUME NEW r \in Runs, r.store = Cleared, NEW y \in persistToFile(r)
  PROVE  \E z : /\ Saves(r, Whole(None), z) /\ y.disk = z.disk /\ y.trail = z.trail
<1> DEFINE Backup(x) == IF x.disk["bak"] = NoFile /\ x.store.stats # None
                        THEN UNION {Done(z) : z \in refreshInternalBackupFromMain(x)}
                        ELSE Done(x)
           SaveFirst(x) == UNION {IF z.ok THEN UNION {Backup(w) : w \in SavedNow(z)} ELSE Failed(z) :
                               z \in saveReadingStats(x)}
<1>1. ~r.store.suspended /\ r.store.prepared /\ r.store.stats = None
  <2>1. ~Cleared.suspended /\ Cleared.stats = None /\ Cleared.prepared = TRUE
    BY ClearedIs DEF Cleared, Fresh
  <2> QED
    BY <2>1
<1>2. persistToFile(r) = UNION {SaveFirst(x) : x \in Done(r)}
  <2>1. persistToFile(r) = UNION {SaveFirst(x) : x \in prepareInternalBackup(r)}
    BY <1>1 DEF persistToFile, SavingAllowed, Then, IfOk, SavedNow
  <2>2. prepareInternalBackup(r) = Done(r)
    BY <1>1 DEF prepareInternalBackup
  <2> QED
    BY <2>1, <2>2
<1>3. PICK x \in Done(r) : y \in SaveFirst(x)
  BY <1>2
<1>4. Carries(r, x) /\ x \in Runs /\ x.disk = r.disk /\ x.trail = r.trail /\ x.store.stats = None
  BY <1>1, <1>3, DoneIs DEF Carries
<1>5. PICK z \in saveReadingStats(x) :
        y \in (IF z.ok THEN UNION {Backup(w) : w \in SavedNow(z)} ELSE Failed(z))
  BY <1>3
<1>6. Saves(x, Whole(None), z)
  BY <1>4, <1>5, SaveIs
<1>7. z \in Runs /\ z.store.stats = None /\ Carries(r, z)
  BY <1>4, <1>6, CarriesOn DEF Saves, Carries
<1>8. Saves(r, Whole(None), z)
  <2>1. x.failures \in Nat /\ r.failures \in Nat /\ x.failures <= r.failures
    BY <1>4 DEF Runs, Carries
  <2>2. \A d : SavePlace(x, Whole(None), d) <=> SavePlace(r, Whole(None), d)
    BY <1>4 DEF SavePlace
  <2> QED
    BY <1>4, <1>6, <1>7, <2>1, <2>2 DEF Saves
<1>9. CASE ~z.ok
  <2>1. y \in Failed(z)
    BY <1>5, <1>9
  <2> QED
    BY <1>7, <1>8, <2>1, DoneIs
<1>10. CASE z.ok
  <2>1. PICK w \in SavedNow(z) : y \in Backup(w)
    BY <1>5, <1>10
  <2>2. w \in Runs /\ w.store.stats = None /\ w.disk = z.disk /\ w.trail = z.trail
    BY <1>7, <2>1, SavedNowIs DEF KeepsStats
  <2>3. y \in Done(w)
    BY <2>1, <2>2
  <2> QED
    BY <1>8, <2>2, <2>3, DoneIs
<1> QED
  BY <1>9, <1>10

LEMMA ClearedSaveIs ==
  ASSUME NEW r \in Runs, r.store = Cleared, ~r.saved, FaultKinds \cap {"remove", "rename"} = {},
         NEW y \in saveToFile(r, TRUE)
  PROVE  /\ y \in Runs /\ y.store.stats = None /\ ~y.store.suspended
         /\ \A d \in y.trail : d \in r.trail \/ SavePlace(r, Whole(None), d)
         /\ y.disk["bak"] = r.disk["bak"] /\ y.disk["mainTmp"] = NoFile
         /\ y.disk["main"] \in {r.disk["main"], Whole(None)}
         /\ y.saved => y.disk["main"] = Whole(None)
<1>1. Cleared.dirty /\ ~Cleared.suspended /\ Cleared.stats = None /\ TRUE \in BOOLEAN
  BY ClearedIs
<1>2. r.store.dirty /\ ~r.store.suspended /\ r.store.stats = None
  BY <1>1
<1>3. y \in persistToFile(r)
  BY <1>2 DEF saveToFile
<1>4. PICK z : Saves(r, Whole(None), z) /\ y.disk = z.disk /\ y.trail = z.trail
  BY <1>3, PersistNothing
<1>5. Persists(r, Whole(None), y)
  BY <1>2, <1>3, PersistIs
<1>6. y \in Runs /\ y.store.stats = None /\ ~y.store.suspended
  <2>1. KeepsStats(r, y)
    BY <1>5 DEF Persists
  <2>2. y.store.suspended = r.store.suspended
    BY <2>1 DEF KeepsStats
  <2>3. y.store.suspended <=> r.store.suspended
    BY <2>2, Zenon
  <2> QED
    BY <1>2, <2>1, <2>3 DEF KeepsStats
<1>7. y.disk["bak"] = r.disk["bak"] /\ y.disk["mainTmp"] = NoFile
      /\ \A d \in y.trail : d \in r.trail \/ SavePlace(r, Whole(None), d)
  BY <1>4 DEF Saves, SavePlace
<1>8. /\ y.disk["main"] \in {r.disk["main"], Whole(None)}
      /\ y.saved => y.disk["main"] = Whole(None)
  <2>1. y.ok => y.disk["main"] = Whole(None)
    BY <1>5 DEF Persists
  <2>2. ~y.ok => ~y.saved /\ y.disk["main"] = r.disk["main"]
    BY <1>5 DEF Persists
  <2> QED
    BY <2>1, <2>2
<1> QED
  BY <1>6, <1>7, <1>8

(* Renames, removals and loads do not fail; writes may.                    *)
OnlyWritesFail == FaultKinds \subseteq {"write", "skip"}

(* And a network session ends in a restart.                                *)
RemovalsAreSound == ~Touch /\ OnlyWritesFail

Gone ==
  \A b \in Books : forgotten[b] # "no" =>
    /\ store.stats[b] = 0 /\ GoneOn(forgotten[b], b, disk)
    /\ up /\ ~store.suspended => ZeroOn(b, disk) \/ disk["main"] # NoFile
    /\ up /\ ~store.suspended /\ ~network => ZeroOn(b, disk) \/ store.stats # None

GoneInv == StoreTypeOK /\ Gone

LEMMA EndsGone ==
  ASSUME NEW y, Ends(y),
         \A b \in Books : forgotten'[b] # "no" =>
           GoneFrom(forgotten'[b], b, y) /\ (network' \/ OthersToWrite(b, y))
  PROVE  Gone'
<1>1. disk' = y.disk /\ store' = y.store
  BY DEF Ends
<1> SUFFICES ASSUME NEW b \in Books, forgotten'[b] # "no"
             PROVE  /\ store'.stats[b] = 0 /\ GoneOn(forgotten'[b], b, disk')
                    /\ up' /\ ~store'.suspended => ZeroOn(b, disk') \/ disk'["main"] # NoFile
                    /\ up' /\ ~store'.suspended /\ ~network' => ZeroOn(b, disk') \/ store'.stats # None
  BY DEF Gone, GoneOn, ZeroOn, MainOf, NoFile, None, HasData
<1> QED
  BY <1>1 DEF GoneFrom, OthersToWrite

LEMMA CutGone ==
  ASSUME NEW y, PowerGoes(y),
         \A b \in Books : forgotten'[b] # "no" => \A d \in y.trail : GoneOn(forgotten'[b], b, d)
  PROVE  Gone'
<1>1. disk' \in y.trail /\ store' = Fresh /\ ~up'
  BY DEF PowerGoes
<1>2. \A b \in Books : Fresh.stats[b] = 0
  BY DEF Fresh, None
<1> SUFFICES ASSUME NEW b \in Books, forgotten'[b] # "no"
             PROVE  store'.stats[b] = 0 /\ GoneOn(forgotten'[b], b, disk')
  BY <1>1 DEF Gone, GoneOn, ZeroOn, MainOf, NoFile, None, HasData
<1> QED
  BY <1>1, <1>2

(* Nothing of b is written by a call that finds nothing of it. *)
LEMMA StartsGone ==
  ASSUME GoneInv, RemovalsAreSound, up, ~network, NEW b \in Books, forgotten[b] # "no",
         NEW r, Starts(r), r.store.stats[b] = 0,
         ZeroOn(b, disk) \/ r.store.stats # None \/ store.suspended,
         NEW due \in BOOLEAN, NEW y \in saveToFile(r, due)
  PROVE  /\ y \in Runs /\ y.store.stats = r.store.stats
         /\ GoneFrom(forgotten[b], b, y) /\ OthersToWrite(b, y)
         /\ \A d \in y.trail : GoneOn(forgotten[b], b, d)
<1>1. /\ r \in Runs /\ r.disk = disk /\ r.trail = {disk}
      /\ (r.store.suspended <=> store.suspended)
  BY DEF Starts
<1>2. GoneOn(forgotten[b], b, disk)
  BY DEF GoneInv, Gone
<1>3. GoneFrom(forgotten[b], b, r)
  BY <1>1, <1>2 DEF GoneFrom, GoneInv, Gone
<1>4. OthersToWrite(b, r)
  BY <1>1 DEF OthersToWrite
<1>5. "rename" \notin FaultKinds
  BY DEF RemovalsAreSound, OnlyWritesFail
<1>6. /\ y \in Runs /\ y.store.stats = r.store.stats
      /\ GoneFrom(forgotten[b], b, y) /\ OthersToWrite(b, y)
      /\ \A d \in y.trail : d \in r.trail \/ GoneOn(forgotten[b], b, d)
  BY <1>1, <1>3, <1>4, <1>5, SaveGone
<1> QED
  BY <1>1, <1>2, <1>6

LEMMA SessionEndedGone ==
  ASSUME GoneInv, RemovalsAreSound, up, ~network, NEW b \in Books, forgotten[b] # "no",
         NEW y \in SessionEnded, y.store.stats[b] = 0
  PROVE  /\ y \in Runs /\ GoneFrom(forgotten[b], b, y) /\ OthersToWrite(b, y)
         /\ \A d \in y.trail : GoneOn(forgotten[b], b, d)
<1>0. StoreTypeOK
  BY DEF GoneInv
<1>1. CASE y = Now
  <2>1. Now \in Runs /\ Now.disk = disk /\ Now.store = store /\ Now.trail = {disk}
    BY <1>0, NowIs
  <2> QED
    BY <1>1, <2>1 DEF GoneInv, Gone, GoneFrom, OthersToWrite
<1>2. CASE \E r : /\ Starts(r) /\ AtLeast(r.store.stats, store.stats)
                  /\ y \in saveToFile(r, TRUE)
  <2>1. PICK r : Starts(r) /\ AtLeast(r.store.stats, store.stats) /\ y \in saveToFile(r, TRUE)
    BY <1>2
  <2>2. store.stats \in Stats /\ r \in Runs /\ r.store.stats \in Stats /\ TRUE \in BOOLEAN
    BY <1>0, <2>1 DEF StoreTypeOK, Starts, Runs, Stores
  <2>3. y.store.stats = r.store.stats
    BY <2>1, <2>2, SaveTyped DEF KeepsStats
  <2>4. store.stats # None => r.store.stats # None
    BY <2>1, <2>2, AtLeastIs
  <2>5. ZeroOn(b, disk) \/ r.store.stats # None \/ store.suspended
    BY <2>4 DEF GoneInv, Gone
  <2> QED
    BY <2>1, <2>2, <2>3, <2>5, StartsGone
<1> QED
  BY <1>0, <1>1, <1>2, SessionEndedIs

LEMMA ReadAgainIs ==
  ASSUME GoneInv, NEW y \in Runs, NEW b \in Books, ReadAgain(y)[b] # "no"
  PROVE  forgotten[b] = ReadAgain(y)[b] /\ y.store.stats[b] = 0
<1>1. y.store.stats \in Stats /\ store.stats \in Stats
  BY DEF Runs, Stores, GoneInv, StoreTypeOK
<1>2. y.store.stats[b] \in Nat /\ store.stats[b] \in Nat
  BY <1>1 DEF Stats
<1>3. ~(y.store.stats[b] > store.stats[b]) /\ forgotten[b] = ReadAgain(y)[b]
  BY DEF ReadAgain
<1>4. store.stats[b] = 0
  BY <1>3 DEF GoneInv, Gone
<1> QED
  BY <1>2, <1>3, <1>4

LEMMA LoadGoneNow ==
  ASSUME GoneInv, RemovalsAreSound, NEW b \in Books, forgotten[b] # "no",
         NEW y \in loadFromFile(Now)
  PROVE  /\ GoneFrom(forgotten[b], b, y) /\ OthersToWrite(b, y)
         /\ \A d \in y.trail : GoneOn(forgotten[b], b, d)
<1>1. Now \in Runs /\ Now.disk = disk /\ Now.store = store /\ Now.trail = {disk}
  BY NowIs DEF GoneInv
<1>2. store.stats[b] = 0 /\ GoneOn(forgotten[b], b, disk)
  BY DEF GoneInv, Gone
<1>3. FaultKinds \cap {"rename", "load"} = {}
  BY DEF RemovalsAreSound, OnlyWritesFail
<1>4. /\ GoneFrom(forgotten[b], b, y) /\ OthersToWrite(b, y)
      /\ \A d \in y.trail : d \in Now.trail \/ GoneOn(forgotten[b], b, d)
  BY <1>1, <1>2, <1>3, LoadGone
<1> QED
  BY <1>1, <1>2, <1>4

LEMMA BootGone == ASSUME GoneInv, RemovalsAreSound, Boot PROVE Gone'
<1>1. PICK y \in loadFromFile(Now) : PowerGoes(y) \/ (Ends(y) /\ UNCHANGED <<active, network>>)
  BY DEF Boot
<1>2. forgotten' = forgotten
  BY DEF Boot
<1>3. CASE PowerGoes(y)
  BY <1>2, <1>3, LoadGoneNow, CutGone
<1>4. CASE Ends(y)
  BY <1>2, <1>4, LoadGoneNow, EndsGone
<1> QED
  BY <1>1, <1>3, <1>4

LEMMA BootInRecoveryGone == ASSUME GoneInv, BootInRecovery PROVE Gone'
<1>1. /\ \E r \in markLoadSkippedForRecovery([Now EXCEPT !.failures = @ - 1]) : Ends(r)
      /\ Now.failures > 0 /\ UNCHANGED <<active, network, durable, forgotten>>
  BY DEF BootInRecovery, CanFail
<1>2. StoreTypeOK /\ failures > 0 /\ [Now EXCEPT !.failures = @ - 1] = OneFailureLess
  BY <1>1, NowIs DEF OneFailureLess, GoneInv
<1>3. PICK y \in markLoadSkippedForRecovery(OneFailureLess) : Ends(y)
  BY <1>1, <1>2
<1>4. /\ OneFailureLess \in Runs /\ OneFailureLess.disk = disk /\ OneFailureLess.store = store
  BY <1>2, OneFailureLessIs
<1>5. y.disk = disk /\ y.store.suspended /\ y.store.stats = store.stats
  BY <1>3, <1>4, MarkIs
<1>6. \A b \in Books : forgotten'[b] # "no" =>
        GoneFrom(forgotten'[b], b, y) /\ OthersToWrite(b, y)
  BY <1>1, <1>5 DEF GoneFrom, OthersToWrite, GoneInv, Gone
<1> QED
  BY <1>3, <1>6, EndsGone

LEMMA PowerLostGone ==
  ASSUME GoneInv, PowerGoes(Now), forgotten' = forgotten
  PROVE  Gone'
<1>1. Now.trail = {disk}
  BY NowIs DEF GoneInv
<1>2. \A b \in Books : forgotten'[b] # "no" => \A d \in Now.trail : GoneOn(forgotten'[b], b, d)
  BY <1>1 DEF GoneInv, Gone
<1> QED
  BY <1>2, CutGone

(* A call that ends the session, whatever it does to the flags. *)
LEMMA ReadingGone ==
  ASSUME GoneInv, RemovalsAreSound, up, ~network, NEW y \in SessionEnded,
         forgotten' = ReadAgain(y), NEW b \in Books, forgotten'[b] # "no"
  PROVE  /\ GoneFrom(forgotten'[b], b, y) /\ OthersToWrite(b, y)
         /\ \A d \in y.trail : GoneOn(forgotten'[b], b, d)
<1>1. y \in Runs
  BY SessionEndedIs DEF GoneInv
<1>2. forgotten[b] = forgotten'[b] /\ y.store.stats[b] = 0
  BY <1>1, ReadAgainIs
<1> QED
  BY <1>2, SessionEndedGone

LEMMA BeginGone ==
  ASSUME GoneInv, RemovalsAreSound, NEW b \in Books, beginSession(b)
  PROVE  Gone'
<1>1. PICK y \in SessionEnded :
        /\ PowerGoes(y) \/ Ends(Dirtied(y))
        /\ forgotten' = ReadAgain(y)
  BY DEF beginSession, Dirtied
<1>2. up /\ ~network
  BY DEF beginSession, Idle
<1>3. \A x \in Books : forgotten'[x] # "no" =>
        /\ GoneFrom(forgotten'[x], x, y) /\ OthersToWrite(x, y)
        /\ \A d \in y.trail : GoneOn(forgotten'[x], x, d)
  BY <1>1, <1>2, ReadingGone
<1>4. CASE PowerGoes(y)
  BY <1>3, <1>4, CutGone
<1>5. CASE Ends(Dirtied(y))
  <2>1. y \in Runs
    BY SessionEndedIs DEF GoneInv
  <2>2. /\ Dirtied(y).disk = y.disk /\ Dirtied(y).store.stats = y.store.stats
        /\ (Dirtied(y).store.suspended <=> y.store.suspended)
    BY <2>1, DirtiedIs
  <2>3. \A x \in Books : forgotten'[x] # "no" =>
          GoneFrom(forgotten'[x], x, Dirtied(y)) /\ OthersToWrite(x, Dirtied(y))
    BY <1>3, <2>2 DEF GoneFrom, OthersToWrite
  <2> QED
    BY <1>5, <2>3, EndsGone
<1> QED
  BY <1>1, <1>4, <1>5

LEMMA NoteGone == ASSUME GoneInv, RemovalsAreSound, noteActivity PROVE Gone'
<1>1. PICK due \in BOOLEAN : \E y \in saveToFile(Credited(active), due) :
        /\ PowerGoes(y) \/ Ends(y)
        /\ forgotten' = ReadAgain(y)
  BY DEF noteActivity
<1>2. PICK y \in saveToFile(Credited(active), due) :
        /\ PowerGoes(y) \/ Ends(y)
        /\ forgotten' = ReadAgain(y)
  BY <1>1
<1>3. StoreTypeOK /\ up /\ ~network
  BY DEF GoneInv, noteActivity, Idle
<1>4. active \in Books /\ store.stats[active] < MaxRead
  BY <1>3, Unchanged DEF noteActivity
<1>5. Starts(Credited(active)) /\ AtLeast(Credited(active).store.stats, store.stats)
  BY <1>3, <1>4, CreditedIs
<1>6. Credited(active) \in Runs /\ store.stats \in Stats /\ Credited(active).store.stats \in Stats
  BY <1>3, <1>5 DEF StoreTypeOK, Starts, Runs, Stores
<1>7. y \in Runs /\ y.store.stats = Credited(active).store.stats
  BY <1>2, <1>6, SaveTyped DEF KeepsStats
<1>8. store.stats # None => Credited(active).store.stats # None
  BY <1>5, <1>6, AtLeastIs
<1>9. ASSUME NEW b \in Books, forgotten'[b] # "no"
      PROVE  /\ GoneFrom(forgotten'[b], b, y) /\ OthersToWrite(b, y)
             /\ \A d \in y.trail : GoneOn(forgotten'[b], b, d)
  <2>1. forgotten[b] = forgotten'[b] /\ Credited(active).store.stats[b] = 0
    BY <1>2, <1>7, <1>9, ReadAgainIs
  <2>2. ZeroOn(b, disk) \/ Credited(active).store.stats # None \/ store.suspended
    BY <1>3, <1>8, <1>9, <2>1 DEF GoneInv, Gone
  <2> QED
    BY <1>2, <1>3, <1>5, <1>9, <2>1, <2>2, StartsGone
<1>10. CASE PowerGoes(y)
  BY <1>9, <1>10, CutGone
<1>11. CASE Ends(y)
  BY <1>9, <1>11, EndsGone
<1> QED
  BY <1>2, <1>10, <1>11

LEMMA EndGone == ASSUME GoneInv, RemovalsAreSound, endSession PROVE Gone'
<1>1. PICK y \in SessionEnded :
        /\ PowerGoes(y) \/ Ends(y)
        /\ forgotten' = ReadAgain(y)
  BY DEF endSession
<1>2. up /\ ~network
  BY DEF endSession, Idle
<1>3. \A x \in Books : forgotten'[x] # "no" =>
        /\ GoneFrom(forgotten'[x], x, y) /\ OthersToWrite(x, y)
        /\ \A d \in y.trail : GoneOn(forgotten'[x], x, d)
  BY <1>1, <1>2, ReadingGone
<1>4. CASE PowerGoes(y)
  BY <1>3, <1>4, CutGone
<1>5. CASE Ends(y)
  BY <1>3, <1>5, EndsGone
<1> QED
  BY <1>1, <1>4, <1>5

LEMMA KeptIs ==
  ASSUME GoneInv, NEW b \in Books, NEW x \in Books, Kept(b)[x] # "no"
  PROVE  /\ forgotten[x] = Kept(b)[x]
         /\ ZeroOn(x, disk) \/ [store.stats EXCEPT ![b] = 0] # None
<1>1. CASE store.stats # [None EXCEPT ![b] = store.stats[b]]
  <2>1. forgotten[x] = Kept(b)[x]
    BY <1>1 DEF Kept
  <2>2. store.stats \in Stats
    BY DEF GoneInv, StoreTypeOK
  <2>3. [store.stats EXCEPT ![b] = 0] # None
    BY <1>1, <2>2 DEF Stats, None
  <2> QED
    BY <2>1, <2>3
<1>2. CASE store.stats = [None EXCEPT ![b] = store.stats[b]]
  <2>1. Kept(b)[x] = IF forgotten[x] = "removed" THEN "no" ELSE forgotten[x]
    BY <1>2 DEF Kept
  <2>2. forgotten[x] = Kept(b)[x] /\ forgotten[x] # "removed" /\ forgotten[x] # "no"
    BY <2>1
  <2>3. forgotten[x] = "reset"
    BY <2>2 DEF GoneInv, StoreTypeOK
  <2>4. ZeroOn(x, disk)
    BY <2>3 DEF GoneInv, Gone, GoneOn
  <2> QED
    BY <2>2, <2>4
<1> QED
  BY <1>1, <1>2

(* The save of a removal that went through. *)
LEMMA RemovedIs ==
  ASSUME StoreTypeOK, NEW b \in Books, NEW due \in BOOLEAN,
         NEW y \in saveToFile(EntryRemoved(b), due), y.saved, y.store.stats # None
  PROVE  GoneFrom("removed", b, y) /\ OthersToWrite(b, y)
<1> DEFINE r == EntryRemoved(b)
           c == Whole(r.store.stats)
<1>1. Starts(r) /\ r.store.stats = [store.stats EXCEPT ![b] = 0] /\ r.store.stats \in Stats
  BY EntryRemovedIs
<1>2. r \in Runs /\ ~r.saved /\ r.store.stats[b] = 0
  BY <1>1 DEF Starts, StoreTypeOK, Stats
<1>3. c.is = "whole" /\ c.stats = r.store.stats /\ c # NoFile /\ (HasData(c) <=> r.store.stats # None)
  BY WholeHasData
<1>4. SaveEnds(r, due, y)
  BY <1>2, SaveToFileIs
<1> HIDE DEF r, c
<1>5. Persists(r, c, y)
  BY <1>2, <1>4 DEF SaveEnds, NothingDone, c
<1>6. y.store.stats = r.store.stats /\ y.disk["main"] = c
  BY <1>2, <1>5 DEF Persists, KeepsStats
<1>7. MainOf(y.disk) = c
  BY <1>3, <1>6 DEF MainOf
<1> QED
  BY <1>2, <1>3, <1>6, <1>7 DEF GoneFrom, GoneOn, OthersToWrite

LEMMA RemoveGone ==
  ASSUME GoneInv, RemovalsAreSound, NEW b \in Books, removeBook(b)
  PROVE  Gone'
<1>1. PICK due, y : Removing(b, due, y)
  BY RemovingIs
<1>2. StoreTypeOK /\ up /\ ~network
  BY DEF GoneInv, removeBook, Idle
<1>3. Starts(EntryRemoved(b)) /\ EntryRemoved(b).store.stats = [store.stats EXCEPT ![b] = 0]
  BY <1>2, EntryRemovedIs
<1>4. EntryRemoved(b) \in Runs /\ due \in BOOLEAN /\ y \in saveToFile(EntryRemoved(b), due)
  BY <1>1, <1>3 DEF Starts, Removing
<1>5. y.store.stats = [store.stats EXCEPT ![b] = 0]
  BY <1>3, <1>4, SaveTyped DEF KeepsStats
<1>6. ASSUME NEW x \in Books, forgotten[x] # "no",
             ZeroOn(x, disk) \/ [store.stats EXCEPT ![b] = 0] # None
      PROVE  /\ GoneFrom(forgotten[x], x, y) /\ OthersToWrite(x, y)
             /\ \A d \in y.trail : GoneOn(forgotten[x], x, d)
  <2>1. store.stats[x] = 0 /\ store.stats \in Stats
    BY <1>2, <1>6 DEF GoneInv, Gone, StoreTypeOK
  <2>2. EntryRemoved(b).store.stats[x] = 0
    BY <1>3, <2>1 DEF Stats
  <2>3. ZeroOn(x, disk) \/ EntryRemoved(b).store.stats # None \/ store.suspended
    BY <1>3, <1>6
  <2> QED
    BY <1>2, <1>3, <1>4, <1>6, <2>2, <2>3, StartsGone
<1>7. ASSUME forgotten' = Kept(b), NEW x \in Books, forgotten'[x] # "no"
      PROVE  /\ GoneFrom(forgotten'[x], x, y) /\ OthersToWrite(x, y)
             /\ \A d \in y.trail : GoneOn(forgotten'[x], x, d)
  <2>1. forgotten[x] = forgotten'[x] /\ (ZeroOn(x, disk) \/ [store.stats EXCEPT ![b] = 0] # None)
    BY <1>7, KeptIs
  <2> QED
    BY <1>6, <1>7, <2>1
<1>8. CASE PowerGoes(y) /\ forgotten' = Kept(b)
  BY <1>7, <1>8, CutGone
<1>9. CASE Ends(y) /\ forgotten' = Kept(b)
  BY <1>7, <1>9, EndsGone
<1>10. CASE /\ Ends(y) /\ y.saved /\ y.store.stats # None
            /\ forgotten' = [forgotten EXCEPT ![b] = "removed"]
  <2>1. ASSUME NEW x \in Books, forgotten'[x] # "no"
        PROVE  GoneFrom(forgotten'[x], x, y) /\ OthersToWrite(x, y)
    <3>1. forgotten'[x] = IF x = b THEN "removed" ELSE forgotten[x]
      BY <1>2, <1>10 DEF StoreTypeOK
    <3>2. CASE x = b
      BY <1>2, <1>4, <1>10, <3>1, <3>2, RemovedIs
    <3>3. CASE x # b
      BY <1>5, <1>6, <1>10, <2>1, <3>1, <3>3
    <3> QED
      BY <3>2, <3>3
  <2> QED
    BY <1>10, <2>1, EndsGone
<1> QED
  BY <1>1, <1>8, <1>9, <1>10 DEF Removing

(* Where a reset passes nothing is left to come back. *)
LEMMA ResettingGone ==
  ASSUME GoneInv, RemovalsAreSound, reset, NEW x, NEW y, Resetting(x, y)
  PROVE  /\ y.store.stats = None
         /\ y.saved => \A b \in Books : GoneFrom("reset", b, y) /\ OthersToWrite(b, y)
         /\ \A b \in Books : forgotten[b] # "no" =>
              /\ GoneFrom(forgotten[b], b, y) /\ OthersToWrite(b, y)
              /\ \A d \in y.trail : GoneOn(forgotten[b], b, d)
<1> DEFINE r == WithStore(x, Cleared)
           c == Whole(None)
<1>1. StoreTypeOK
  BY DEF GoneInv
<1>2. Now \in Runs /\ Now.disk = disk /\ Now.trail = {disk} /\ ~Now.saved
  BY <1>1, NowIs
<1>3. /\ Carries(Now, x) /\ Elsewhere(x.disk, disk, {"bak", "bakTmp"}) /\ x.disk["bak"] = NoFile
      /\ \A d \in x.trail : d = disk \/ ( /\ Elsewhere(d, disk, {"bak", "bakTmp"})
                                          /\ d["bak"] \in {disk["bak"], NoFile} )
  <2>1. x \in BackupRemoved(Now) /\ "remove" \notin FaultKinds
    BY DEF Resetting, RemovalsAreSound, OnlyWritesFail
  <2> QED
    BY <1>2, <2>1, BackupRemovedIs
<1>4. x \in Runs /\ ~x.saved /\ y \in saveToFile(r, TRUE)
  BY <1>2, <1>3 DEF Carries, Resetting
<1>5. /\ r \in Runs /\ r.store = Cleared /\ r.disk = x.disk /\ r.trail = x.trail /\ ~r.saved
  BY <1>4, ClearedIs, WithStoreIs
<1>6. FaultKinds \cap {"remove", "rename"} = {}
  BY DEF RemovalsAreSound, OnlyWritesFail
<1> HIDE DEF r
<1>7. /\ y \in Runs /\ y.store.stats = None /\ ~y.store.suspended
      /\ \A d \in y.trail : d \in x.trail \/ SavePlace(r, c, d)
      /\ y.disk["bak"] = NoFile /\ y.disk["mainTmp"] = NoFile
      /\ y.disk["main"] \in {x.disk["main"], c}
      /\ y.saved => y.disk["main"] = c
  <2>1. /\ y \in Runs /\ y.store.stats = None /\ ~y.store.suspended
        /\ \A d \in y.trail : d \in r.trail \/ SavePlace(r, Whole(None), d)
        /\ y.disk["bak"] = r.disk["bak"] /\ y.disk["mainTmp"] = NoFile
        /\ y.disk["main"] \in {r.disk["main"], Whole(None)}
        /\ y.saved => y.disk["main"] = Whole(None)
    BY <1>4, <1>5, <1>6, ClearedSaveIs
  <2> QED
    BY <1>3, <1>5, <2>1
<1>8. /\ x.disk["main"] = disk["main"] /\ x.disk["mainTmp"] = disk["mainTmp"]
      /\ r.disk["bak"] = NoFile
  BY <1>3, <1>5 DEF Elsewhere, Files
<1>9. c.stats = None /\ c # NoFile /\ \A b \in Books : c.stats[b] = 0 /\ None[b] = 0
  BY WholeHasData DEF None
<1> HIDE DEF c
<1>10. y.saved => \A b \in Books : GoneFrom("reset", b, y) /\ OthersToWrite(b, y)
  BY <1>7, <1>9, WholeHasData DEF GoneFrom, GoneOn, ZeroOn, OthersToWrite
<1>11. ASSUME NEW b \in Books, forgotten[b] # "no"
       PROVE  /\ GoneFrom(forgotten[b], b, y) /\ OthersToWrite(b, y)
              /\ \A d \in y.trail : GoneOn(forgotten[b], b, d)
  <2>1. GoneOn(forgotten[b], b, disk)
    BY <1>11 DEF GoneInv, Gone
  <2>2. disk["main"].stats[b] = 0
    BY <2>1, WholeHasData DEF GoneOn, ZeroOn, MainOf
  <2>3. ZeroOn(b, y.disk)
    BY <1>7, <1>8, <1>9, <2>2, WholeHasData DEF ZeroOn
  <2>4. GoneFrom(forgotten[b], b, y) /\ OthersToWrite(b, y)
    BY <1>7, <1>9, <2>3 DEF GoneFrom, GoneOn, OthersToWrite
  <2>5. ASSUME NEW d, Elsewhere(d, disk, {"bak", "bakTmp"}), d["bak"] \in {disk["bak"], NoFile}
        PROVE  GoneOn(forgotten[b], b, d)
    <3>1. d["main"] = disk["main"] /\ d["mainTmp"] = disk["mainTmp"]
      BY <2>5 DEF Elsewhere, Files
    <3> QED
      BY <2>1, <2>5, <3>1, WholeHasData DEF GoneOn, ZeroOn, MainOf
  <2>6. ASSUME NEW d, SavePlace(r, c, d)
        PROVE  GoneOn(forgotten[b], b, d)
    <3>1. d["bak"] = NoFile
      BY <1>8, <2>6 DEF SavePlace
    <3>2. \/ d["main"] = disk["main"]
          \/ d["main"] = NoFile /\ d["mainTmp"] = c
          \/ d["main"] = c /\ d["mainTmp"] = NoFile
      BY <1>5, <1>6, <1>8, <2>6 DEF SavePlace
    <3>3. d["mainTmp"] = disk["mainTmp"] \/ d["mainTmp"].stats[b] = 0
      <4>1. \A z \in Cut(c) : z.stats[b] = 0
        BY <1>9 DEF Cut, CutShort
      <4> QED
        BY <1>5, <1>8, <1>9, <2>6, <4>1, WholeHasData DEF SavePlace
    <3>4. d["main"].stats[b] = 0 /\ d["bak"].stats[b] = 0
      BY <1>9, <2>2, <3>1, <3>2, WholeHasData
    <3>5. CASE d["mainTmp"].stats[b] = 0
      BY <3>4, <3>5 DEF GoneOn, ZeroOn
    <3>6. CASE d["mainTmp"] = disk["mainTmp"] /\ d["main"] = disk["main"]
      BY <2>1, <3>1, <3>4, <3>6 DEF GoneOn, ZeroOn, MainOf
    <3> QED
      BY <1>9, <3>2, <3>3, <3>5, <3>6, WholeHasData
  <2>7. \A d \in y.trail : GoneOn(forgotten[b], b, d)
    BY <1>3, <1>7, <2>1, <2>5, <2>6
  <2> QED
    BY <2>4, <2>7
<1> QED
  BY <1>7, <1>10, <1>11

LEMMA ResetGone == ASSUME GoneInv, RemovalsAreSound, reset PROVE Gone'
<1>1. PICK x, y : Resetting(x, y)
  BY ResettingIs DEF GoneInv
<1>2. /\ y.saved => \A b \in Books : GoneFrom("reset", b, y) /\ OthersToWrite(b, y)
      /\ \A b \in Books : forgotten[b] # "no" =>
           /\ GoneFrom(forgotten[b], b, y) /\ OthersToWrite(b, y)
           /\ \A d \in y.trail : GoneOn(forgotten[b], b, d)
  BY <1>1, ResettingGone
<1>3. CASE PowerGoes(y) /\ UNCHANGED forgotten
  BY <1>2, <1>3, CutGone
<1>4. CASE Ends(y) /\ forgotten' = IF y.saved THEN [b \in Books |-> "reset"] ELSE forgotten
  <2>1. \A b \in Books : forgotten'[b] # "no" =>
          GoneFrom(forgotten'[b], b, y) /\ OthersToWrite(b, y)
    BY <1>2, <1>4
  <2> QED
    BY <1>4, <2>1, EndsGone
<1> QED
  BY <1>1, <1>3, <1>4 DEF Resetting

(* An import that failed brings nothing of b back. *)
LEMMA ReloadGone ==
  ASSUME NEW r \in Runs, NEW b \in Books, NEW f, FaultKinds \cap {"rename", "load"} = {},
         GoneOn(f, b, r.disk), NEW y \in ReloadOriginal(r)
  PROVE  GoneFrom(f, b, y) /\ OthersToWrite(b, y) /\ ~y.ok
<1>1. /\ ~y.ok
      /\ \E z \in loadFromFile(Emptied(r)) :
           /\ z \in Runs /\ y.disk = z.disk /\ y.trail = z.trail /\ y.store = z.store
           /\ y.failures <= z.failures
  BY ReloadIs
<1>2. PICK z \in loadFromFile(Emptied(r)) : y.disk = z.disk /\ y.store = z.store
  BY <1>1
<1>3. /\ Emptied(r) \in Runs /\ Emptied(r).disk = r.disk /\ Emptied(r).store.stats[b] = 0
  BY EmptiedIs DEF None
<1>4. GoneFrom(f, b, z) /\ OthersToWrite(b, z)
  BY <1>2, <1>3, LoadGone
<1> QED
  BY <1>1, <1>2, <1>4 DEF GoneFrom, OthersToWrite

LEMMA TakingGone ==
  ASSUME NEW x \in Runs, NEW b \in Books, NEW f, NEW src \in FileContents,
         FaultKinds \cap {"remove", "rename", "load"} = {}, GoneOn(f, b, x.disk),
         HasData(x.disk["main"]) \/ x.disk["bak"] = NoFile,
         NEW y \in Taking(x, src), ~y.ok
  PROVE  GoneFrom(f, b, y) /\ OthersToWrite(b, y)
<1>1. CASE src.stats = None /\ y \in ReloadOriginal(x)
  BY <1>1, ReloadGone
<1>2. CASE \E z \in Runs :
             /\ src.stats # None /\ Persists(TakenOver(x, src), Whole(src.stats), z)
             /\ \/ ~z.ok /\ y \in ReloadOriginal(z)
                \/ z.ok /\ Carries(z, y) /\ y.ok /\ y.disk = z.disk /\ y.trail = z.trail
  <2> DEFINE t == TakenOver(x, src)
             c == Whole(src.stats)
  <2>1. PICK z \in Runs : Persists(t, c, z) /\ ~z.ok /\ y \in ReloadOriginal(z)
    BY <1>2
  <2>2. t.disk = x.disk
    BY TakenIs
  <2> HIDE DEF t, c
  <2>3. z.disk["main"] = x.disk["main"] /\ z.disk["mainTmp"] = NoFile
    BY <2>1, <2>2 DEF Persists
  <2>4. z.disk["bak"] \in {x.disk["bak"], NoFile} \/ z.disk["bak"] = x.disk["main"]
    BY <2>1, <2>2, <2>3 DEF Persists, PersistPlace
  <2>5. GoneOn(f, b, z.disk)
    <3>1. CASE ZeroOn(b, x.disk)
      BY <2>3, <2>4, <3>1, WholeHasData DEF GoneOn, ZeroOn
    <3>2. CASE x.disk["main"] # NoFile /\ ~ZeroOn(b, x.disk)
      BY <2>3, <3>2 DEF GoneOn, MainOf
    <3>3. CASE x.disk["main"] = NoFile
      <4>1. z.disk["bak"] = NoFile
        BY <2>4, <3>3, WholeHasData
      <4> QED
        BY <2>3, <3>3, <4>1, WholeHasData DEF GoneOn, ZeroOn
    <3> QED
      BY <3>1, <3>2, <3>3
  <2> QED
    BY <2>1, <2>5, ReloadGone
<1> QED
  BY <1>1, <1>2, TakingIs

LEMMA BakPlaceGone ==
  ASSUME NEW r, NEW d, NEW b \in Books, NEW f, BakPlace(r, d), GoneOn(f, b, r.disk)
  PROVE  GoneOn(f, b, d) /\ (ZeroOn(b, r.disk) => ZeroOn(b, d))
<1>1. MainOf(d) = MainOf(r.disk) /\ (ZeroOn(b, r.disk) => ZeroOn(b, d))
  BY WholeHasData DEF BakPlace, MainOf, ZeroOn
<1> QED
  BY <1>1 DEF GoneOn

LEMMA ImportGone ==
  ASSUME GoneInv, RemovalsAreSound, NEW src \in Imports, importFromFile(src)
  PROVE  Gone'
<1>1. PICK y \in Import(Now, src) :
        \/ PowerGoes(y) /\ forgotten' = [b \in Books |-> "no"]
        \/ Ends(y) /\ forgotten' = (IF y.ok THEN [b \in Books |-> "no"] ELSE forgotten)
  BY DEF importFromFile
<1>2. StoreTypeOK /\ up /\ ~network /\ src \in FileContents
  BY ImportsAre DEF GoneInv, importFromFile, Idle
<1>3. Now \in Runs /\ Now.disk = disk /\ Now.store = store
  BY <1>2, NowIs
<1>4. CASE forgotten' = [b \in Books |-> "no"]
  <2>1. \A b \in Books : forgotten'[b] = "no"
    BY <1>4
  <2> QED
    BY <1>1, <2>1, EndsGone, CutGone
<1>5. CASE Ends(y) /\ ~y.ok /\ forgotten' = forgotten
  <2>1. PICK x \in Runs :
          /\ BacksUp(Now, x)
          /\ \/ Carries(x, y) /\ ~y.ok /\ y.disk = x.disk /\ y.trail = x.trail
             \/ \E z \in Runs :
                  /\ Carries(x, z) /\ z.disk = x.disk /\ z.trail = x.trail
                  /\ y \in Taking(z, src)
                  /\ \/ HasData(Now.disk["main"])
                     \/ x.disk["bak"] = NoFile
                     \/ "remove" \in FaultKinds
    BY <1>2, <1>3, ImportIs
  <2>2. BakPlace(Now, x.disk) /\ x.store.stats = store.stats
        /\ x.store.suspended = store.suspended
    BY <1>3, <2>1 DEF BacksUp, KeepsStore
  <2>3. x.store.suspended <=> store.suspended
    BY <2>2, Zenon
  <2>4. x.disk["main"] = disk["main"]
    BY <1>3, <2>2 DEF BakPlace
  <2>5. ASSUME NEW b \in Books, forgotten[b] # "no"
        PROVE  GoneFrom(forgotten[b], b, y) /\ OthersToWrite(b, y)
    <3>1. GoneOn(forgotten[b], b, disk) /\ store.stats[b] = 0
      BY <2>5 DEF GoneInv, Gone
    <3>2. GoneOn(forgotten[b], b, x.disk) /\ (ZeroOn(b, disk) => ZeroOn(b, x.disk))
      BY <1>3, <2>2, <3>1, BakPlaceGone
    <3>3. CASE Carries(x, y) /\ ~y.ok /\ y.disk = x.disk
      <4>1. y.store = x.store
        BY <3>3 DEF Carries
      <4> QED
        BY <1>2, <2>2, <2>3, <2>4, <2>5, <3>1, <3>2, <3>3, <4>1
           DEF GoneFrom, OthersToWrite, GoneInv, Gone
    <3>4. ASSUME NEW z \in Runs, z.disk = x.disk, y \in Taking(z, src),
                 \/ HasData(Now.disk["main"])
                 \/ x.disk["bak"] = NoFile
                 \/ "remove" \in FaultKinds
          PROVE  GoneFrom(forgotten[b], b, y) /\ OthersToWrite(b, y)
      <4>1. FaultKinds \cap {"remove", "rename", "load"} = {} /\ "remove" \notin FaultKinds
        BY DEF RemovalsAreSound, OnlyWritesFail
      <4>2. HasData(z.disk["main"]) \/ z.disk["bak"] = NoFile
        BY <1>3, <2>4, <3>4, <4>1
      <4>3. GoneOn(forgotten[b], b, z.disk)
        BY <3>2, <3>4
      <4> QED
        BY <1>2, <1>5, <3>4, <4>1, <4>2, <4>3, TakingGone
    <3> QED
      BY <2>1, <3>3, <3>4
  <2> QED
    BY <1>5, <2>5, EndsGone
<1> QED
  BY <1>1, <1>4, <1>5

LEMMA ReleaseGone ==
  ASSUME GoneInv, RemovalsAreSound, releaseMemoryForNetwork
  PROVE  Gone'
<1>0. StoreTypeOK /\ up /\ ~network /\ TRUE \in BOOLEAN
  BY DEF GoneInv, releaseMemoryForNetwork, Idle
<1>1. PICK u, x, y : Releasing(u, x, y)
  BY <1>0, ReleasingIs
<1>2. /\ u \in SessionEnded /\ u \in Runs /\ x \in Runs /\ y \in Runs
      /\ y.disk = x.disk /\ y.trail = x.trail
      /\ (y.store.suspended <=> x.store.suspended)
      /\ x \in saveToFile(u, TRUE) \/ x \in Done(u)
      /\ forgotten' = ReadAgain(x)
  <2>1. /\ u \in SessionEnded /\ forgotten' = ReadAgain(x)
        /\ x \in saveToFile(u, TRUE) \/ x \in Done(u)
    BY <1>1 DEF Releasing
  <2>2. /\ u \in Runs /\ x \in Runs /\ y \in Runs
        /\ y.disk = x.disk /\ y.trail = x.trail
        /\ (y.store.suspended <=> x.store.suspended)
    BY <1>0, <1>1, ReleasingIs
  <2> QED
    BY <2>1, <2>2
<1>3. x.store.stats = u.store.stats
  BY <1>0, <1>2, SaveTyped, DoneIs DEF KeepsStats, Carries
<1>4. ASSUME NEW b \in Books, forgotten'[b] # "no"
      PROVE  GoneFrom(forgotten'[b], b, y) /\ \A d \in y.trail : GoneOn(forgotten'[b], b, d)
  <2>1. forgotten[b] = forgotten'[b] /\ u.store.stats[b] = 0 /\ x.store.stats[b] = 0
    BY <1>2, <1>3, <1>4, ReadAgainIs
  <2>2. /\ GoneFrom(forgotten[b], b, u) /\ OthersToWrite(b, u)
        /\ \A d \in u.trail : GoneOn(forgotten[b], b, d)
    BY <1>0, <1>2, <1>4, <2>1, SessionEndedGone
  <2>3. GoneFrom(forgotten[b], b, x) /\ \A d \in x.trail : GoneOn(forgotten[b], b, d)
    <3>1. CASE x \in saveToFile(u, TRUE)
      <4>1. "rename" \notin FaultKinds
        BY DEF RemovalsAreSound, OnlyWritesFail
      <4>2. GoneFrom(forgotten[b], b, x)
            /\ \A d \in x.trail : d \in u.trail \/ GoneOn(forgotten[b], b, d)
        BY <1>0, <1>2, <2>2, <3>1, <4>1, SaveGone
      <4> QED
        BY <2>2, <4>2
    <3>2. CASE x \in Done(u)
      <4>1. x.disk = u.disk /\ x.trail = u.trail /\ x.store = u.store
        BY <1>2, <3>2, DoneIs DEF Carries
      <4> QED
        BY <2>2, <4>1 DEF GoneFrom
    <3> QED
      BY <1>2, <3>1, <3>2
  <2>4. y.store.stats[b] = 0
    <3>1. y = Emptied(x) \/ y = x
      BY <1>1 DEF Releasing
    <3> QED
      BY <1>2, <2>1, <3>1, EmptiedIs DEF None
  <2> QED
    BY <1>2, <2>1, <2>3, <2>4 DEF GoneFrom
<1>5. CASE PowerGoes(y)
  BY <1>4, <1>5, CutGone
<1>6. CASE Ends(y) /\ network' = TRUE
  BY <1>4, <1>6, EndsGone
<1> QED
  BY <1>1, <1>5, <1>6 DEF Releasing

(* Without a main file the memory stays empty, and then the card is empty. *)
LEMMA ReloadAfterGone ==
  ASSUME GoneInv, RemovalsAreSound, reloadAfterNetwork
  PROVE  Gone'
<1>1. PICK y \in IF disk["main"] = NoFile THEN {Now} ELSE loadFromFile(Now) :
        PowerGoes(y) \/ Ends(y)
  BY DEF reloadAfterNetwork
<1>2. forgotten' = forgotten /\ up
  BY DEF reloadAfterNetwork
<1>3. ASSUME NEW b \in Books, forgotten'[b] # "no"
      PROVE  /\ GoneFrom(forgotten'[b], b, y) /\ OthersToWrite(b, y)
             /\ \A d \in y.trail : GoneOn(forgotten'[b], b, d)
  <2>1. CASE y = Now /\ disk["main"] = NoFile
    <3>1. Now.disk = disk /\ Now.store = store /\ Now.trail = {disk}
      BY NowIs DEF GoneInv
    <3> QED
      BY <1>2, <1>3, <2>1, <3>1 DEF GoneInv, Gone, GoneFrom, OthersToWrite
  <2>2. CASE y \in loadFromFile(Now)
    BY <1>2, <1>3, <2>2, LoadGoneNow
  <2> QED
    BY <1>1, <2>1, <2>2
<1>4. CASE PowerGoes(y)
  BY <1>3, <1>4, CutGone
<1>5. CASE Ends(y)
  BY <1>3, <1>5, EndsGone
<1> QED
  BY <1>1, <1>4, <1>5

LEMMA RestartGone == ASSUME GoneInv, RemovalsAreSound, silentRestart PROVE Gone'
<1>1. PowerGoes(Now) /\ forgotten' = forgotten
  BY DEF silentRestart, RemovalsAreSound, OnlyWritesFail
<1> QED
  BY <1>1, PowerLostGone

LEMMA GoneStarts == StoreInit => GoneInv
<1> SUFFICES ASSUME StoreInit PROVE GoneInv
  OBVIOUS
<1>1. \A b \in Books : forgotten[b] = "no"
  BY DEF StoreInit
<1> QED
  BY <1>1, StoreStarts DEF GoneInv, Gone

LEMMA GoneSteps == RemovalsAreSound /\ GoneInv /\ [StoreNext]_storeVars => GoneInv'
<1> SUFFICES ASSUME RemovalsAreSound, GoneInv, [StoreNext]_storeVars PROVE GoneInv'
  OBVIOUS
<1>1. StoreTypeOK'
  BY StoreStepsTyped DEF GoneInv
<1>2. CASE UNCHANGED storeVars
  <2>1. Gone'
    BY <1>2 DEF storeVars, GoneInv, Gone, GoneOn, ZeroOn, MainOf, NoFile, None, HasData
  <2> QED
    BY <1>1, <2>1 DEF GoneInv
<1>3. CASE Boot \/ BootInRecovery \/ PowerLost
  <2>1. PowerLost => PowerGoes(Now) /\ forgotten' = forgotten
    BY DEF PowerLost
  <2> QED
    BY <1>1, <1>3, <2>1, BootGone, BootInRecoveryGone, PowerLostGone DEF GoneInv
<1>4. CASE \E b \in Books : beginSession(b) \/ removeBook(b)
  BY <1>1, <1>4, BeginGone, RemoveGone DEF GoneInv
<1>5. CASE noteActivity \/ endSession \/ reset
  BY <1>1, <1>5, NoteGone, EndGone, ResetGone DEF GoneInv
<1>6. CASE \E src \in Imports : importFromFile(src)
  BY <1>1, <1>6, ImportGone DEF GoneInv
<1>7. CASE releaseMemoryForNetwork \/ reloadAfterNetwork \/ silentRestart
  BY <1>1, <1>7, ReleaseGone, ReloadAfterGone, RestartGone DEF GoneInv
<1> QED
  BY <1>2, <1>3, <1>4, <1>5, <1>6, <1>7 DEF StoreNext

LEMMA GoneIsShown == RemovalsAreSound /\ GoneInv => ResetIsFinal
<1> SUFFICES ASSUME RemovalsAreSound, GoneInv, NEW b \in Books, forgotten[b] \in {"reset", "removed"}
             PROVE  NextBoot[b] = 0
  BY DEF ResetIsFinal
<1> DEFINE R == Run(disk, Fresh, 0)
<1>1. R \in Runs /\ \E y \in loadFromFile(R) : NextBoot = y.store.stats
  BY AtNextBoot DEF GoneInv
<1>2. R.disk = disk /\ R.store.stats[b] = 0
  BY DEF Run, Fresh, None
<1> HIDE DEF R
<1>3. GoneOn(forgotten[b], b, R.disk) /\ FaultKinds \cap {"rename", "load"} = {}
  BY <1>2 DEF GoneInv, Gone, RemovalsAreSound, OnlyWritesFail
<1>4. PICK y \in loadFromFile(R) : NextBoot = y.store.stats
  BY <1>1
<1>5. GoneFrom(forgotten[b], b, y)
  BY <1>1, <1>2, <1>3, <1>4, LoadGone
<1> QED
  BY <1>4, <1>5 DEF GoneFrom

(* What was reset, or removed from among other books, is not shown by a    *)
(* later boot: neither the backup nor a temporary file brings it back.     *)
THEOREM ForgottenStaysAway ==
  ASSUME RemovalsAreSound
  PROVE  StoreSpec => []ResetIsFinal
<1>1. GoneInv /\ [StoreNext]_storeVars => GoneInv'
  BY GoneSteps
<1>2. GoneInv => ResetIsFinal
  BY GoneIsShown
<1> QED
  BY <1>1, <1>2, GoneStarts, PTL DEF StoreSpec

-----------------------------------------------------------------------------
(* What a suspended store leaves alone.                                    *)

(* The backup may be put in place of what a boot loads only where that is  *)
(* whole, or the backup itself; and a store that may write has a main file *)
(* if it has a backup.                                                     *)
Backed(d) == HasData(d["bak"]) => MainOf(d).is = "whole" \/ MainOf(d) = d["bak"]
Mained(r) == ~r.store.suspended /\ r.disk["main"] = NoFile => ~HasData(r.disk["bak"])

Firm(r) == r \in Runs /\ Backed(r.disk) /\ r.disk["main"] # NoFile
Backing(r, y) == Firm(y) /\ \A d \in y.trail : d \in r.trail \/ Backed(d)

LEMMA BackingOn ==
  ASSUME NEW r, NEW y, NEW z, Backing(r, y), Backing(y, z)
  PROVE  Backing(r, z)
BY DEF Backing

LEMMA BakPlaceBacked ==
  ASSUME NEW r, NEW d, BakPlace(r, d), Backed(r.disk)
  PROVE  Backed(d)
BY WholeHasData DEF BakPlace, Backed, MainOf

LEMMA RestoreBacking ==
  ASSUME NEW r, Firm(r), OnlyWritesFail, NEW y \in restoreInternalBackupToMain(r)
  PROVE  /\ Backing(r, y)
         /\ y.disk["main"] = r.disk["main"]
              \/ (HasData(r.disk["bak"]) /\ y.disk["main"] = r.disk["bak"])
<1>0. r \in Runs /\ "rename" \notin FaultKinds
  BY DEF Firm, OnlyWritesFail
<1>1. Restores(r, y)
  BY <1>0, RestoreIs
<1>2. y \in Runs
  BY <1>1 DEF Restores, KeepsStore
<1>3. CASE ~HasData(r.disk["bak"])
  BY <1>1, <1>2, <1>3 DEF Restores, Backing, Firm
<1>4. CASE HasData(r.disk["bak"])
  <2> DEFINE b == r.disk["bak"]
  <2>1. b # NoFile
    BY <1>4, WholeHasData
  <2>2. ASSUME NEW d, CopyPlace(r, "bak", "main", d)
        PROVE  Backed(d)
    <3>1. /\ d["bak"] = b
          /\ \/ d["main"] = r.disk["main"]
             \/ d["main"] = NoFile /\ d["mainTmp"] = b
             \/ d["main"] = b
      BY <1>0, <2>2 DEF CopyPlace, Elsewhere, Temp, Files
    <3> QED
      BY <2>1, <3>1 DEF Backed, MainOf, Firm
  <2>3. y.disk["main"] = r.disk["main"] \/ y.disk["main"] = b
    BY <1>0, <1>1, <1>4 DEF Restores
  <2>4. Backed(y.disk) /\ \A d \in y.trail : d \in r.trail \/ Backed(d)
    BY <1>1, <1>4, <2>2 DEF Restores
  <2> QED
    BY <1>2, <1>4, <2>1, <2>3, <2>4 DEF Backing, Firm
<1> QED
  BY <1>3, <1>4

LEMMA LoadMainBacking ==
  ASSUME NEW r, Firm(r), NEW y \in loadMainFile(r)
  PROVE  Backing(r, y) /\ y.disk["main"] = r.disk["main"]
<1>1. r \in Runs /\ LoadsMain(r, y)
  BY LoadMainIs DEF Firm
<1>2. y \in Runs /\ BakPlace(r, y.disk) /\ \A d \in y.trail : d \in r.trail \/ BakPlace(r, d)
  BY <1>1 DEF LoadsMain, Steady
<1>3. y.disk["main"] = r.disk["main"]
  BY <1>2 DEF BakPlace
<1> QED
  BY <1>2, <1>3, BakPlaceBacked DEF Backing, Firm

LEMMA StayBacking ==
  ASSUME NEW r, Firm(r), NEW y \in Done(r) \cup Failed(r) \cup markLoadSkippedForRecovery(r)
  PROVE  Backing(r, y) /\ y.disk["main"] = r.disk["main"]
<1>1. r \in Runs
  BY DEF Firm
<1>2. y \in Runs /\ y.disk = r.disk /\ y.trail = r.trail
  BY <1>1, DoneIs, MarkIs DEF Carries, Steady
<1> QED
  BY <1>2 DEF Backing, Firm

LEMMA AgainBacking ==
  ASSUME NEW r, Firm(r), NEW y \in Again(r)
  PROVE  Backing(r, y) /\ y.disk["main"] = r.disk["main"]
<1>1. PICK z \in loadMainFile(r) : y \in Done(z) \cup Failed(z) \cup markLoadSkippedForRecovery(z)
  BY DEF Again
<1>2. Backing(r, z) /\ z.disk["main"] = r.disk["main"]
  BY LoadMainBacking
<1>3. Backing(z, y) /\ y.disk["main"] = z.disk["main"]
  BY <1>1, <1>2, StayBacking DEF Backing
<1> QED
  BY <1>2, <1>3, BackingOn

LEMMA AfterBacking ==
  ASSUME NEW r, Firm(r), OnlyWritesFail, NEW y \in AfterGood(r) \cup AfterBad(r)
  PROVE  /\ Backing(r, y)
         /\ y.disk["main"] = r.disk["main"]
              \/ (HasData(r.disk["bak"]) /\ y.disk["main"] = r.disk["bak"])
<1>1. CASE y \in Done(r)
  BY <1>1, StayBacking
<1>2. ASSUME NEW z \in restoreInternalBackupToMain(r),
             y \in Again(z) \/ y \in Done(z) \cup Failed(z) \cup markLoadSkippedForRecovery(z)
      PROVE  /\ Backing(r, y)
             /\ y.disk["main"] = r.disk["main"]
                  \/ (HasData(r.disk["bak"]) /\ y.disk["main"] = r.disk["bak"])
  <2>1. /\ Backing(r, z)
        /\ z.disk["main"] = r.disk["main"]
             \/ (HasData(r.disk["bak"]) /\ z.disk["main"] = r.disk["bak"])
    BY RestoreBacking
  <2>2. Firm(z)
    BY <2>1 DEF Backing
  <2>3. Backing(z, y) /\ y.disk["main"] = z.disk["main"]
    BY <1>2, <2>2, AgainBacking, StayBacking
  <2>4. Backing(r, y)
    BY <2>1, <2>3, BackingOn
  <2> QED
    BY <2>1, <2>3, <2>4
<1>3. y \in Done(r) \/ \E z \in restoreInternalBackupToMain(r) :
        y \in Again(z) \/ y \in Done(z) \cup Failed(z) \cup markLoadSkippedForRecovery(z)
  BY DEF AfterGood, AfterBad
<1> QED
  BY <1>1, <1>2, <1>3

(* A load looks for a main file in both places before it gives up, so that *)
(* it ends without one only where no backup has data.                      *)
LEMMA LoadBacked ==
  ASSUME NEW r \in Runs, Backed(r.disk), OnlyWritesFail, NEW y \in loadFromFile(r)
  PROVE  /\ y \in Runs /\ Backed(y.disk) /\ Mained(y)
         /\ \A d \in y.trail : d \in r.trail \/ Backed(d)
<1>1. PICK w \in RecoverTemp(r) : \E x \in RecoverBackup(w) : y \in LoadRecovered(x)
  BY LoadSteps
<1>2. PICK x \in RecoverBackup(w) : y \in LoadRecovered(x)
  BY <1>1
<1>3. /\ w \in Runs /\ Backed(w.disk) /\ \A d \in w.trail : d \in r.trail \/ Backed(d)
      /\ w.disk["main"] = NoFile => ~HasData(w.disk["bak"])
  <2>1. CASE r.disk["main"] = NoFile /\ r.disk["mainTmp"] # NoFile
    <3>1. w \in Rename(r, "mainTmp", "main")
      BY <1>1, <2>1 DEF RecoverTemp
    <3>2. Renamed(r, "mainTmp", "main", w)
      BY <3>1, FilesAre, RenameIs
    <3>3. /\ w.disk = [r.disk EXCEPT !["main"] = r.disk["mainTmp"], !["mainTmp"] = NoFile]
          /\ w.trail \subseteq r.trail \cup {w.disk} /\ w \in Runs
      BY <2>1, <3>2 DEF Renamed, Carries, OnlyWritesFail
    <3>4. w.disk["main"] = r.disk["mainTmp"] /\ w.disk["bak"] = r.disk["bak"]
      BY <3>3, FilesAre
    <3>5. MainOf(w.disk) = MainOf(r.disk)
      BY <2>1, <3>4 DEF MainOf
    <3>6. Backed(w.disk)
      BY <3>4, <3>5 DEF Backed
    <3> QED
      BY <2>1, <3>3, <3>4, <3>6
  <2>2. CASE ~(r.disk["main"] = NoFile /\ r.disk["mainTmp"] # NoFile)
    <3>1. w = r
      BY <1>1, <2>2 DEF RecoverTemp
    <3>2. r.disk["main"] = NoFile => MainOf(r.disk) = NoFile
      BY <2>2 DEF MainOf
    <3>3. r.disk["main"] = NoFile => ~HasData(r.disk["bak"])
      BY <3>2, WholeHasData DEF Backed
    <3> QED
      BY <3>1, <3>3
  <2> QED
    BY <2>1, <2>2
<1>4. CASE w.disk["main"] = NoFile
  <2>1. x \in restoreInternalBackupToMain(w)
    BY <1>2, <1>4 DEF RecoverBackup
  <2>2. Restores(w, x)
    BY <1>3, <2>1, RestoreIs
  <2>3. x \in Runs /\ x.disk = w.disk /\ x.trail = w.trail
    BY <1>3, <1>4, <2>2 DEF Restores, KeepsStore
  <2>4. y \in Failed(x)
    BY <1>2, <1>4, <2>3 DEF LoadRecovered
  <2>5. y \in Runs /\ y.disk = x.disk /\ y.trail = x.trail
    BY <2>3, <2>4, DoneIs DEF Carries
  <2> QED
    BY <1>3, <1>4, <2>3, <2>5 DEF Mained
<1>5. CASE w.disk["main"] # NoFile
  <2>1. x = w /\ Firm(w)
    BY <1>2, <1>3, <1>5 DEF RecoverBackup, Firm
  <2>2. PICK z \in loadMainFile(w) : y \in AfterGood(z) \cup AfterBad(z)
    BY <1>2, <1>5, <2>1 DEF LoadRecovered
  <2>3. Backing(w, z)
    BY <2>1, <2>2, LoadMainBacking
  <2>4. Backing(z, y)
    BY <2>2, <2>3, AfterBacking DEF Backing
  <2>5. Backing(w, y)
    BY <2>3, <2>4, BackingOn
  <2> QED
    BY <1>3, <2>5 DEF Backing, Firm, Mained
<1> QED
  BY <1>4, <1>5

(* A main file that shows data is replaced by nothing but itself. *)
LEMMA LoadKeepsMain ==
  ASSUME NEW r \in Runs, Backed(r.disk), OnlyWritesFail, HasData(r.disk["main"]),
         NEW y \in loadFromFile(r)
  PROVE  y.disk["main"] = r.disk["main"]
<1>0. r.disk["main"] # NoFile /\ FaultKinds \cap {"rename", "load"} = {}
  BY WholeHasData DEF OnlyWritesFail
<1>1. MainOf(r.disk) = r.disk["main"] /\ Firm(r)
  BY <1>0 DEF MainOf, Firm
<1>2. CASE r.disk["main"].is = "whole"
  BY <1>0, <1>1, <1>2, LoadGood
<1>3. CASE r.disk["main"].is # "whole"
  <2>1. y \in LoadRecovered(r)
    BY <1>0, LoadSteps DEF RecoverTemp, RecoverBackup
  <2>2. PICK z \in loadMainFile(r) : y \in AfterGood(z) \cup AfterBad(z)
    BY <1>0, <2>1 DEF LoadRecovered
  <2>3. z.disk = r.disk
    BY <1>3, <2>2, LoadMainIs DEF LoadsMain
  <2>4. Firm(z)
    BY <1>1, <2>2, LoadMainBacking DEF Backing
  <2>5. y.disk["main"] = z.disk["main"]
          \/ (HasData(z.disk["bak"]) /\ y.disk["main"] = z.disk["bak"])
    BY <2>2, <2>4, AfterBacking
  <2> QED
    BY <1>1, <1>3, <2>3, <2>5 DEF Backed
<1> QED
  BY <1>2, <1>3

LEMMA PersistBacked ==
  ASSUME NEW r \in Runs, Backed(r.disk), ~r.store.suspended, Mained(r), OnlyWritesFail,
         NEW c, c.is = "whole", NEW y, Persists(r, c, y)
  PROVE  /\ y \in Runs /\ ~y.store.suspended /\ Backed(y.disk) /\ Mained(y)
         /\ \A d \in y.trail : d \in r.trail \/ Backed(d)
         /\ ~y.ok => y.disk["main"] = r.disk["main"]
<1>1. c # NoFile /\ "rename" \notin FaultKinds
  BY WholeHasData DEF OnlyWritesFail
<1>2. r.disk["main"] = NoFile => ~HasData(r.disk["bak"])
  BY DEF Mained
<1>3. ASSUME NEW d, PersistPlace(r, c, d)
      PROVE  Backed(d)
  <2>1. CASE d["main"] = c \/ (d["main"] = NoFile /\ d["mainTmp"] = c)
    BY <1>1, <2>1 DEF Backed, MainOf
  <2>2. CASE d["main"] = r.disk["main"] /\ d["main"] # c
    <3>1. d["bak"] \in {r.disk["bak"], NoFile}
            \/ (d["bak"] = r.disk["main"] /\ HasData(r.disk["main"]))
      BY <1>3, <2>2 DEF PersistPlace
    <3>2. CASE r.disk["main"] = NoFile
      <4>1. ~HasData(d["bak"])
        BY <1>2, <3>1, <3>2, WholeHasData
      <4> QED
        BY <4>1 DEF Backed
    <3>3. CASE r.disk["main"] # NoFile
      BY <2>2, <3>1, <3>3, WholeHasData DEF Backed, MainOf
    <3> QED
      BY <3>2, <3>3
  <2> QED
    BY <1>1, <1>3, <2>1, <2>2 DEF PersistPlace
<1>4. /\ y \in Runs /\ PersistPlace(r, c, y.disk)
      /\ \A d \in y.trail : d \in r.trail \/ PersistPlace(r, c, d)
      /\ y.ok => y.disk["main"] = c
      /\ ~y.ok => y.disk["main"] = r.disk["main"]
  BY <1>1 DEF Persists, KeepsStats
<1>5. ~y.store.suspended
  <2>1. y.store.suspended = r.store.suspended
    BY DEF Persists, KeepsStats
  <2>2. y.store.suspended <=> r.store.suspended
    BY <2>1, Zenon
  <2> QED
    BY <2>2
<1>6. y.disk["main"] = NoFile => ~HasData(y.disk["bak"])
  <2>1. ASSUME y.disk["main"] = NoFile
        PROVE  ~HasData(y.disk["bak"])
    <3>1. r.disk["main"] = NoFile /\ y.disk["main"] # c
      BY <1>1, <1>4, <2>1
    <3>2. y.disk["bak"] \in {r.disk["bak"], NoFile}
            \/ (y.disk["bak"] = r.disk["main"] /\ HasData(r.disk["main"]))
      BY <1>4, <3>1 DEF PersistPlace
    <3> QED
      BY <1>2, <3>1, <3>2, WholeHasData
  <2> QED
    BY <2>1
<1> QED
  BY <1>3, <1>4, <1>5, <1>6 DEF Mained

Backup == up => Mained(Now)
BackupInv == StoreTypeOK /\ Backed(disk) /\ Backup

(* How every call leaves the card, wherever it is cut. *)
Stays(y) ==
  /\ y \in Runs /\ Backed(y.disk) /\ Mained(y)
  /\ \A d \in y.trail : Backed(d)
  /\ store.suspended /\ y.store.suspended /\ HasData(disk["main"])
       => y.disk["main"] = disk["main"]

MainStays ==
  up /\ store.suspended /\ up' /\ store'.suspended /\ HasData(disk["main"])
    => disk'["main"] = disk["main"]

LEMMA CallStays ==
  ASSUME BackupInv, NEW y, Stays(y), PowerGoes(y) \/ Ends(y)
  PROVE  (Backed(disk) /\ Backup)' /\ MainStays
<1>1. CASE PowerGoes(y)
  <2>1. disk' \in y.trail /\ ~up'
    BY <1>1 DEF PowerGoes
  <2>2. \A d \in y.trail : Backed(d)
    BY DEF Stays
  <2>3. Backed(disk')
    BY <2>1, <2>2
  <2>4. (Backed(disk) /\ Backup)'
    BY <2>1, <2>3 DEF Backed, Backup, HasData, MainOf, NoFile, None
  <2> QED
    BY <2>1, <2>4 DEF MainStays
<1>2. CASE Ends(y)
  <2>1. disk' = y.disk /\ store' = y.store
    BY <1>2 DEF Ends
  <2>2. Backed(disk') /\ (~store'.suspended /\ disk'["main"] = NoFile => ~HasData(disk'["bak"]))
    BY <2>1 DEF Stays, Mained
  <2>3. MainStays
    BY <2>1 DEF MainStays, Stays
  <2>4. Now'.disk = disk' /\ Now'.store = store'
    BY DEF Now, Run
  <2>5. Mained(Now)'
    BY <2>2, <2>4 DEF Mained, HasData, NoFile, None
  <2>6. Backed(disk)'
    BY <2>2 DEF Backed, HasData, MainOf, NoFile, None
  <2> QED
    BY <2>3, <2>5, <2>6 DEF Backup
<1> QED
  BY <1>1, <1>2

LEMMA NowStays == ASSUME BackupInv, up PROVE Stays(Now)
<1>1. Now \in Runs /\ Now.disk = disk /\ Now.store = store /\ Now.trail = {disk}
  BY NowIs DEF BackupInv
<1> QED
  BY <1>1 DEF Stays, BackupInv, Backup

LEMMA SaveStays ==
  ASSUME BackupInv, up, OnlyWritesFail, NEW r, Starts(r), NEW due \in BOOLEAN,
         NEW y \in saveToFile(r, due)
  PROVE  Stays(y)
<1>1. /\ r \in Runs /\ r.disk = disk /\ r.trail = {disk}
      /\ (r.store.suspended <=> store.suspended)
  BY DEF Starts
<1>2. Now.disk = disk /\ Now.store = store
  BY NowIs DEF BackupInv
<1>3. Backed(r.disk) /\ Mained(r)
  BY <1>1, <1>2 DEF BackupInv, Backup, Mained
<1>4. SaveEnds(r, due, y)
  BY <1>1, SaveToFileIs
<1>5. CASE NothingDone(r, y)
  <2>1. y \in Runs /\ y.disk = r.disk /\ y.trail = r.trail /\ y.store.suspended = r.store.suspended
    BY <1>5 DEF NothingDone, KeepsStats
  <2>2. y.store.suspended <=> r.store.suspended
    BY <2>1, Zenon
  <2> QED
    BY <1>1, <1>3, <2>1, <2>2 DEF Stays, Mained
<1>6. CASE ~r.store.suspended /\ Persists(r, Whole(r.store.stats), y)
  <2>1. Whole(r.store.stats).is = "whole"
    BY WholeHasData
  <2>2. /\ y \in Runs /\ ~y.store.suspended /\ Backed(y.disk) /\ Mained(y)
        /\ \A d \in y.trail : d \in r.trail \/ Backed(d)
    BY <1>1, <1>3, <1>6, <2>1, PersistBacked
  <2> QED
    BY <1>1, <1>3, <2>2 DEF Stays
<1> QED
  BY <1>4, <1>5, <1>6 DEF SaveEnds

LEMMA SessionEndedStays ==
  ASSUME BackupInv, up, OnlyWritesFail, NEW y \in SessionEnded
  PROVE  Stays(y)
<1>1. CASE y = Now
  BY <1>1, NowStays
<1>2. CASE \E r : Starts(r) /\ y \in saveToFile(r, TRUE)
  <2>1. TRUE \in BOOLEAN
    OBVIOUS
  <2> QED
    BY <1>2, <2>1, SaveStays
<1> QED
  BY <1>1, <1>2, SessionEndedIs DEF BackupInv

LEMMA LoadStays ==
  ASSUME BackupInv, OnlyWritesFail, NEW y \in loadFromFile(Now)
  PROVE  Stays(y)
<1>1. Now \in Runs /\ Now.disk = disk /\ Now.trail = {disk}
  BY NowIs DEF BackupInv
<1>2. Backed(Now.disk)
  BY <1>1 DEF BackupInv
<1>3. /\ y \in Runs /\ Backed(y.disk) /\ Mained(y)
      /\ \A d \in y.trail : d \in Now.trail \/ Backed(d)
  BY <1>1, <1>2, LoadBacked
<1>4. HasData(disk["main"]) => y.disk["main"] = disk["main"]
  BY <1>1, <1>2, LoadKeepsMain
<1> QED
  BY <1>1, <1>2, <1>3, <1>4 DEF Stays

(* Loading again after an import that failed. *)
LEMMA ReloadStays ==
  ASSUME OnlyWritesFail, NEW r \in Runs, Backed(r.disk), \A d \in r.trail : Backed(d),
         HasData(disk["main"]) => r.disk["main"] = disk["main"], NEW y \in ReloadOriginal(r)
  PROVE  Stays(y)
<1>1. /\ y \in Runs
      /\ \E z \in loadFromFile(Emptied(r)) :
           /\ z \in Runs /\ y.disk = z.disk /\ y.trail = z.trail /\ y.store = z.store
           /\ y.failures <= z.failures
  BY ReloadIs
<1>2. PICK z \in loadFromFile(Emptied(r)) :
        y.disk = z.disk /\ y.trail = z.trail /\ y.store = z.store
  BY <1>1
<1>3. Emptied(r) \in Runs /\ Emptied(r).disk = r.disk /\ Emptied(r).trail = r.trail
  BY EmptiedIs
<1>4. /\ Backed(z.disk) /\ Mained(z)
      /\ \A d \in z.trail : d \in r.trail \/ Backed(d)
  BY <1>2, <1>3, LoadBacked
<1>5. HasData(disk["main"]) => z.disk["main"] = disk["main"]
  BY <1>2, <1>3, LoadKeepsMain
<1> QED
  BY <1>1, <1>2, <1>4, <1>5 DEF Stays, Mained

LEMMA TakingStays ==
  ASSUME OnlyWritesFail, NEW x \in Runs, Backed(x.disk), \A d \in x.trail : Backed(d),
         x.disk["main"] = disk["main"], HasData(disk["main"]) \/ x.disk["bak"] = NoFile,
         NEW src \in FileContents, NEW y \in Taking(x, src)
  PROVE  Stays(y)
<1>1. CASE src.stats = None /\ y \in ReloadOriginal(x)
  BY <1>1, ReloadStays
<1>2. CASE \E z \in Runs :
             /\ src.stats # None /\ Persists(TakenOver(x, src), Whole(src.stats), z)
             /\ \/ ~z.ok /\ y \in ReloadOriginal(z)
                \/ z.ok /\ Carries(z, y) /\ y.ok /\ y.disk = z.disk /\ y.trail = z.trail
  <2> DEFINE t == TakenOver(x, src)
             c == Whole(src.stats)
  <2>1. PICK z \in Runs :
          /\ Persists(t, c, z)
          /\ \/ ~z.ok /\ y \in ReloadOriginal(z)
             \/ Carries(z, y) /\ y.disk = z.disk /\ y.trail = z.trail
    BY <1>2
  <2>2. t \in Runs /\ t.disk = x.disk /\ t.trail = x.trail /\ ~t.store.suspended /\ c.is = "whole"
    BY TakenIs, WholeHasData
  <2> HIDE DEF t, c
  <2>3. Backed(t.disk) /\ Mained(t)
    BY <2>2, WholeHasData DEF Mained
  <2>4. /\ ~z.store.suspended /\ Backed(z.disk) /\ Mained(z)
        /\ \A d \in z.trail : d \in x.trail \/ Backed(d)
        /\ ~z.ok => z.disk["main"] = x.disk["main"]
    BY <2>1, <2>2, <2>3, PersistBacked
  <2>5. CASE ~z.ok /\ y \in ReloadOriginal(z)
    BY <2>4, <2>5, ReloadStays
  <2>6. CASE Carries(z, y) /\ y.disk = z.disk /\ y.trail = z.trail
    <3>1. y \in Runs /\ y.store = z.store
      BY <2>6 DEF Carries
    <3> QED
      BY <2>4, <2>6, <3>1 DEF Stays, Mained
  <2> QED
    BY <2>1, <2>5, <2>6
<1> QED
  BY <1>1, <1>2, TakingIs

LEMMA ImportStays ==
  ASSUME BackupInv, up, OnlyWritesFail, NEW src \in Imports, NEW y \in Import(Now, src)
  PROVE  Stays(y)
<1>1. StoreTypeOK /\ src \in FileContents
  BY ImportsAre DEF BackupInv
<1>2. Now \in Runs /\ Now.disk = disk /\ Now.store = store /\ Now.trail = {disk}
  BY <1>1, NowIs
<1>3. PICK x \in Runs :
        /\ BacksUp(Now, x)
        /\ \/ Carries(x, y) /\ ~y.ok /\ y.disk = x.disk /\ y.trail = x.trail
           \/ \E z \in Runs :
                /\ Carries(x, z) /\ z.disk = x.disk /\ z.trail = x.trail
                /\ y \in Taking(z, src)
                /\ \/ HasData(Now.disk["main"])
                   \/ x.disk["bak"] = NoFile
                   \/ "remove" \in FaultKinds
  BY <1>1, <1>2, ImportIs
<1>4. /\ BakPlace(Now, x.disk) /\ \A d \in x.trail : d \in Now.trail \/ BakPlace(Now, d)
      /\ x.store.suspended = store.suspended
  BY <1>2, <1>3 DEF BacksUp, KeepsStore
<1>5. Backed(Now.disk) /\ Mained(Now)
  BY <1>2 DEF BackupInv, Backup
<1>6. /\ Backed(x.disk) /\ \A d \in x.trail : Backed(d)
      /\ x.disk["main"] = disk["main"]
  BY <1>2, <1>4, <1>5, BakPlaceBacked DEF BakPlace
<1>7. CASE Carries(x, y) /\ y.disk = x.disk /\ y.trail = x.trail
  <2>1. y \in Runs /\ y.store = x.store /\ (x.store.suspended <=> store.suspended)
    <3>1. x.store.suspended <=> store.suspended
      BY <1>4, Zenon
    <3> QED
      BY <1>7, <3>1 DEF Carries
  <2>2. Mained(y)
    BY <1>2, <1>4, <1>5, <1>7, <2>1, WholeHasData DEF Mained, BakPlace
  <2> QED
    BY <1>6, <1>7, <2>1, <2>2 DEF Stays
<1>8. CASE \E z \in Runs :
             /\ Carries(x, z) /\ z.disk = x.disk /\ z.trail = x.trail
             /\ y \in Taking(z, src)
             /\ \/ HasData(Now.disk["main"])
                \/ x.disk["bak"] = NoFile
                \/ "remove" \in FaultKinds
  <2>1. PICK z \in Runs : /\ z.disk = x.disk /\ z.trail = x.trail /\ y \in Taking(z, src)
                          /\ HasData(disk["main"]) \/ x.disk["bak"] = NoFile
    BY <1>2, <1>8 DEF OnlyWritesFail
  <2> QED
    BY <1>1, <1>6, <2>1, TakingStays
<1> QED
  BY <1>3, <1>7, <1>8

LEMMA ResetStays ==
  ASSUME BackupInv, OnlyWritesFail, reset
  PROVE  \E y : Stays(y) /\ (PowerGoes(y) \/ Ends(y))
<1>1. StoreTypeOK /\ "remove" \notin FaultKinds /\ TRUE \in BOOLEAN
  BY DEF BackupInv, OnlyWritesFail
<1>2. PICK x, y : Resetting(x, y)
  BY <1>1, ResettingIs
<1> DEFINE r == WithStore(x, Cleared)
<1>3. Now \in Runs /\ Now.disk = disk /\ Now.trail = {disk}
  BY <1>1, NowIs
<1>4. /\ Carries(Now, x) /\ x \in Runs /\ x.disk["bak"] = NoFile
      /\ \A d \in x.trail : d = disk \/ ( /\ Elsewhere(d, disk, {"bak", "bakTmp"})
                                          /\ d["bak"] \in {disk["bak"], NoFile} )
  <2>1. x \in BackupRemoved(Now)
    BY <1>2 DEF Resetting
  <2> QED
    BY <1>1, <1>3, <2>1, BackupRemovedIs DEF Carries
<1>5. \A d \in x.trail : Backed(d)
  <2>1. Backed(disk)
    BY DEF BackupInv
  <2>2. ASSUME NEW d, Elsewhere(d, disk, {"bak", "bakTmp"}), d["bak"] \in {disk["bak"], NoFile}
        PROVE  Backed(d)
    BY <2>1, <2>2, WholeHasData DEF Elsewhere, Files, Backed, MainOf
  <2> QED
    BY <1>4, <2>1, <2>2
<1>6. r \in Runs /\ r.disk = x.disk /\ r.trail = x.trail /\ r.store = Cleared
  BY <1>4, ClearedIs, WithStoreIs
<1>7. ~r.store.suspended /\ Mained(r) /\ Backed(r.disk)
  <2>1. ~Cleared.suspended
    BY ClearedIs
  <2> QED
    BY <1>4, <1>6, <2>1, WholeHasData DEF Mained, Backed
<1>8. y \in saveToFile(r, TRUE) /\ (PowerGoes(y) \/ Ends(y))
  BY <1>2 DEF Resetting
<1> HIDE DEF r
<1>9. Persists(r, Whole(r.store.stats), y)
  <2>1. r.store.dirty
    <3>1. Cleared.dirty
      BY ClearedIs
    <3> QED
      BY <1>6, <3>1
  <2>2. y \in persistToFile(r)
    BY <1>8, <2>1 DEF saveToFile
  <2> QED
    BY <1>6, <1>7, <2>2, PersistIs
<1>10. Whole(r.store.stats).is = "whole"
  BY WholeHasData
<1>11. /\ y \in Runs /\ ~y.store.suspended /\ Backed(y.disk) /\ Mained(y)
       /\ \A d \in y.trail : d \in r.trail \/ Backed(d)
  BY <1>6, <1>7, <1>9, <1>10, PersistBacked
<1> QED
  BY <1>5, <1>6, <1>8, <1>11 DEF Stays

LEMMA ReleaseStays ==
  ASSUME BackupInv, OnlyWritesFail, releaseMemoryForNetwork
  PROVE  \E y : Stays(y) /\ (PowerGoes(y) \/ Ends(y))
<1>0. StoreTypeOK /\ up /\ TRUE \in BOOLEAN
  BY DEF BackupInv, releaseMemoryForNetwork, Idle
<1>1. PICK u, x, y : Releasing(u, x, y)
  BY <1>0, ReleasingIs
<1>2. /\ u \in Runs /\ x \in Runs /\ y \in Runs
      /\ y.disk = x.disk /\ y.trail = x.trail
      /\ (y.store.suspended <=> x.store.suspended)
  BY <1>0, <1>1, ReleasingIs
<1>3. /\ u \in SessionEnded /\ (PowerGoes(y) \/ Ends(y))
      /\ x \in saveToFile(u, TRUE) \/ x \in Done(u)
  BY <1>1 DEF Releasing
<1>4. Stays(u)
  BY <1>0, <1>3, SessionEndedStays
<1>5. Stays(x)
  <2>1. CASE NothingDone(u, x) \/ x \in Done(u)
    <3>1. x.disk = u.disk /\ x.trail = u.trail /\ x.store.suspended = u.store.suspended
      BY <1>2, <2>1, DoneIs DEF NothingDone, KeepsStats, Carries
    <3>2. x.store.suspended <=> u.store.suspended
      BY <3>1, Zenon
    <3> QED
      BY <1>2, <1>4, <3>1, <3>2 DEF Stays, Mained
  <2>2. CASE ~u.store.suspended /\ Persists(u, Whole(u.store.stats), x)
    <3>1. Whole(u.store.stats).is = "whole"
      BY WholeHasData
    <3>2. /\ ~x.store.suspended /\ Backed(x.disk) /\ Mained(x)
          /\ \A d \in x.trail : d \in u.trail \/ Backed(d)
      BY <1>2, <1>4, <2>2, <3>1, PersistBacked DEF Stays
    <3> QED
      BY <1>2, <1>4, <3>2 DEF Stays
  <2> QED
    BY <1>0, <1>2, <1>3, <2>1, <2>2, SaveToFileIs DEF SaveEnds
<1>6. Stays(y)
  BY <1>2, <1>5 DEF Stays, Mained
<1> QED
  BY <1>3, <1>6

LEMMA CallsStay ==
  ASSUME BackupInv, OnlyWritesFail,
         \/ Boot \/ reset \/ noteActivity \/ endSession
         \/ (\E b \in Books : beginSession(b) \/ removeBook(b))
         \/ (\E src \in Imports : importFromFile(src))
         \/ releaseMemoryForNetwork \/ reloadAfterNetwork
  PROVE  \E y : Stays(y) /\ (PowerGoes(y) \/ Ends(y))
<1>0. StoreTypeOK
  BY DEF BackupInv
<1>1. CASE Boot
  BY <1>1, LoadStays DEF Boot
<1>2. CASE reset
  BY <1>2, ResetStays
<1>3. CASE noteActivity
  <2>1. up /\ active \in Books /\ store.stats[active] < MaxRead
    BY <1>0, <1>3, Unchanged DEF noteActivity, Idle
  <2>2. PICK due \in BOOLEAN : \E y \in saveToFile(Credited(active), due) : PowerGoes(y) \/ Ends(y)
    BY <1>3 DEF noteActivity
  <2>3. Starts(Credited(active))
    BY <1>0, <2>1, CreditedIs
  <2> QED
    BY <2>1, <2>2, <2>3, SaveStays
<1>4. CASE endSession
  BY <1>4, SessionEndedStays DEF endSession, Idle
<1>5. ASSUME NEW b \in Books, beginSession(b)
      PROVE  \E y : Stays(y) /\ (PowerGoes(y) \/ Ends(y))
  <2>1. PICK y \in SessionEnded : PowerGoes(y) \/ Ends(Dirtied(y))
    BY <1>5 DEF beginSession, Dirtied
  <2>2. Stays(y) /\ y \in Runs
    BY <1>5, SessionEndedStays DEF beginSession, Idle, Stays
  <2>3. /\ Dirtied(y) \in Runs /\ Dirtied(y).disk = y.disk /\ Dirtied(y).trail = y.trail
        /\ (Dirtied(y).store.suspended <=> y.store.suspended)
    BY <2>2, DirtiedIs
  <2>4. Stays(Dirtied(y))
    BY <2>2, <2>3 DEF Stays, Mained
  <2> QED
    BY <2>1, <2>2, <2>4
<1>6. ASSUME NEW b \in Books, removeBook(b)
      PROVE  \E y : Stays(y) /\ (PowerGoes(y) \/ Ends(y))
  <2>1. PICK due, y : Removing(b, due, y)
    BY <1>6, RemovingIs
  <2>2. /\ y \in saveToFile(EntryRemoved(b), due) /\ due \in BOOLEAN
        /\ PowerGoes(y) \/ Ends(y)
    BY <2>1 DEF Removing
  <2>3. Starts(EntryRemoved(b)) /\ up
    BY <1>0, <1>6, EntryRemovedIs DEF removeBook, Idle
  <2> QED
    BY <2>2, <2>3, SaveStays
<1>7. ASSUME NEW src \in Imports, importFromFile(src)
      PROVE  \E y : Stays(y) /\ (PowerGoes(y) \/ Ends(y))
  <2>1. PICK y \in Import(Now, src) : PowerGoes(y) \/ Ends(y)
    BY <1>7 DEF importFromFile
  <2> QED
    BY <1>7, <2>1, ImportStays DEF importFromFile, Idle
<1>8. CASE releaseMemoryForNetwork
  BY <1>8, ReleaseStays
<1>9. CASE reloadAfterNetwork
  <2>1. PICK y \in IF disk["main"] = NoFile THEN {Now} ELSE loadFromFile(Now) :
          PowerGoes(y) \/ Ends(y)
    BY <1>9 DEF reloadAfterNetwork
  <2>2. y = Now \/ y \in loadFromFile(Now)
    BY <2>1
  <2> QED
    BY <1>9, <2>1, <2>2, NowStays, LoadStays DEF reloadAfterNetwork
<1> QED
  BY <1>1, <1>2, <1>3, <1>4, <1>5, <1>6, <1>7, <1>8, <1>9

LEMMA PowerStays ==
  ASSUME BackupInv, PowerGoes(Now)
  PROVE  (Backed(disk) /\ Backup)' /\ MainStays
<1>1. disk' = disk /\ ~up'
  BY NowIs DEF BackupInv, PowerGoes
<1> QED
  BY <1>1 DEF BackupInv, Backup, MainStays, Backed, HasData, MainOf, NoFile, None

LEMMA BackupSteps ==
  OnlyWritesFail /\ BackupInv /\ [StoreNext]_storeVars => BackupInv' /\ [MainStays]_storeVars
<1> SUFFICES ASSUME OnlyWritesFail, BackupInv, [StoreNext]_storeVars
             PROVE  (Backed(disk) /\ Backup)' /\ [MainStays]_storeVars
  BY StoreStepsTyped DEF BackupInv
<1>1. CASE UNCHANGED storeVars
  <2>1. disk' = disk /\ store' = store /\ (up' <=> up)
    BY <1>1 DEF storeVars
  <2>2. (Backed(disk) /\ Backup)'
    BY <1>1 DEF storeVars, BackupInv, Backup, Backed, Mained, HasData, MainOf, NoFile, None, Now, Run
  <2> QED
    BY <1>1, <2>2
<1>2. CASE \/ Boot \/ reset \/ noteActivity \/ endSession
           \/ (\E b \in Books : beginSession(b) \/ removeBook(b))
           \/ (\E src \in Imports : importFromFile(src))
           \/ releaseMemoryForNetwork \/ reloadAfterNetwork
  <2>1. PICK y : Stays(y) /\ (PowerGoes(y) \/ Ends(y))
    BY <1>2, CallsStay
  <2> QED
    BY <2>1, CallStays
<1>3. CASE BootInRecovery
  <2>1. /\ \E r \in markLoadSkippedForRecovery([Now EXCEPT !.failures = @ - 1]) : Ends(r)
        /\ Now.failures > 0 /\ ~up
    BY <1>3 DEF BootInRecovery, CanFail
  <2>2. StoreTypeOK /\ failures > 0 /\ [Now EXCEPT !.failures = @ - 1] = OneFailureLess
    BY <2>1, NowIs DEF OneFailureLess, BackupInv
  <2>3. PICK y \in markLoadSkippedForRecovery(OneFailureLess) : Ends(y)
    BY <2>1, <2>2
  <2>4. y.disk = disk /\ y.store.suspended
    BY <2>2, <2>3, OneFailureLessIs, MarkIs
  <2>5. disk' = disk /\ store'.suspended
    BY <2>3, <2>4 DEF Ends
  <2>6. (Backed(disk) /\ Backup)' /\ MainStays
    BY <2>1, <2>5 DEF BackupInv, Backup, MainStays, Mained, Backed, HasData, MainOf, NoFile, None, Now, Run
  <2> QED
    BY <2>6
<1>4. CASE PowerLost
  <2>1. PowerGoes(Now)
    BY <1>4 DEF PowerLost
  <2> QED
    BY <2>1, PowerStays
<1>5. CASE silentRestart
  <2>1. CASE PowerGoes(Now)
    BY <2>1, PowerStays
  <2>2. CASE UNCHANGED <<up, disk, store>>
    BY <2>2 DEF BackupInv, Backup, MainStays, Backed, Mained, HasData, MainOf, NoFile, None, Now, Run
  <2> QED
    BY <1>5, <2>1, <2>2 DEF silentRestart
<1> QED
  BY <1>1, <1>2, <1>3, <1>4, <1>5 DEF StoreNext

LEMMA BackupStarts == StoreInit => BackupInv
<1> SUFFICES ASSUME StoreInit PROVE BackupInv
  OBVIOUS
<1>1. ~up /\ disk["bak"] = NoFile
  BY FilesAre DEF StoreInit
<1> QED
  BY <1>1, StoreStarts, WholeHasData DEF BackupInv, Backup, Backed

(* While the persistence is suspended, no call changes a main file that    *)
(* shows data: neither reading, nor a load, nor an import that fails.      *)
THEOREM SuspendedIsLeftAlone ==
  ASSUME OnlyWritesFail
  PROVE  StoreSpec => SuspendedStoreIsNotWritten
<1>1. BackupInv /\ [StoreNext]_storeVars => BackupInv' /\ [MainStays]_storeVars
  BY BackupSteps
<1>2. [MainStays]_storeVars
        => [ (up /\ store.suspended /\ up' /\ store'.suspended /\ HasData(disk["main"]))
               => disk'["main"] = disk["main"] ]_storeVars
  BY DEF MainStays
<1> QED
  BY <1>1, <1>2, BackupStarts, PTL DEF StoreSpec, SuspendedStoreIsNotWritten

-----------------------------------------------------------------------------
(* FileReplacement: the inductive invariant.                               *)

HIDE StoreAssumption


Starting == {"Idle", "Off", "Load"}

(* A save in progress has a value, and nothing is reported until it ends.  *)
SaveHasValue == pc \notin Starting => job \in Values /\ reported = "Nothing"

(* From the write on, the temp file holds the value, or is torn because    *)
(* nobody noticed that the close failed.                                   *)
Written == {"RemoveTarget", "RemoveBak", "Park", "Install",
            "CopyOpen", "Copy", "DropTarget"}
TmpHoldsValue ==
  /\ pc = "Write" => tmp = Torn
  /\ pc \in Written => tmp = job \/ (tmp = Torn /\ "close" \in excuses)

(* Once installed, so does the target. *)
TargetHoldsValue ==
  pc \in {"Unpark", "DropCopied"} =>
    target = job \/ (target = Torn /\ "close" \in excuses)

(* JsonSettingsIO and FlashcardsStore rename to a free name only, and the  *)
(* copy follows a rename that failed.                                      *)
NameIsFree == pc = "Install" /\ kind \in {"json", "cards"} => target = Absent
CopyIsExcused == pc \in {"CopyOpen", "Copy", "DropTarget", "DropCopied"} => excuses # {}

(* When a save begins, gives up or has ended, a temp file is the only copy *)
(* of a JSON or flashcard file only if a rename or a close failed.         *)
OnlyCopyIsExcused ==
  /\ kind \in {"json", "cards"} /\ pc \in {"Idle", "Clear", "Open", "DropTmp"}
  /\ target = Absent /\ tmp \in Values
  => excuses # {}

CloseIsChecked == ChecksClose(kind) => "close" \notin excuses

IInv ==
  /\ TypeOK
  /\ SaveHasValue
  /\ TmpHoldsValue
  /\ TargetHoldsValue
  /\ NameIsFree
  /\ CopyIsExcused
  /\ OnlyCopyIsExcused
  /\ CloseIsChecked
  /\ CanonicalIsNeverTorn
  /\ ReportedIsSaved
-----------------------------------------------------------------------------
(* It holds at first, and every action keeps it.  TypeOK first, then what  *)
(* the later steps of the save rely on, then the two safety properties.    *)

USE DisciplinesAssumption, ValuesAssumption, MaxFaultsAssumption
USE DEF AllDisciplines, Absent, Torn, Contents, Steps, Common, files, Starting, Written,
        Fault, NoFault, GoTo, Return, RenameFails, RenameWorks, ChecksClose

LEMMA HoldsAtFirst == Init => IInv
<1>1. Init => TypeOK
  <2> SUFFICES ASSUME Init PROVE TypeOK
    OBVIOUS
  <2>1. parked \in BOOLEAN /\ hadFile \in BOOLEAN
    BY DEF Init
  <2>2. faults \in 0..MaxFaults /\ excuses \subseteq {"rename", "close"}
    BY DEF Init
  <2>3. kind \in Disciplines /\ pc \in Steps(kind)
    BY DEF Init
  <2> QED
    BY <2>1, <2>2, <2>3 DEF Init, TypeOK
<1>2. Init => SaveHasValue /\ TmpHoldsValue /\ TargetHoldsValue
  BY DEF Init, SaveHasValue, TmpHoldsValue, TargetHoldsValue
<1>3. Init => NameIsFree /\ CopyIsExcused /\ OnlyCopyIsExcused /\ CloseIsChecked
  BY DEF Init, NameIsFree, CopyIsExcused, OnlyCopyIsExcused, CloseIsChecked
<1>4. Init => CanonicalIsNeverTorn
  BY DEF Init, CanonicalIsNeverTorn
<1>5. Init => ReportedIsSaved
  BY DEF Init, ReportedIsSaved, Loadable, Readable, RecoversFrom
<1> QED
  BY <1>1, <1>2, <1>3, <1>4, <1>5 DEF IInv

LEMMA BeginKeeps == ASSUME IInv, NEW v \in Values, Begin(v) PROVE IInv'
<1>1. TypeOK'
  BY DEF IInv, Begin, TypeOK, FirstStep
<1>2. (SaveHasValue /\ TmpHoldsValue /\ TargetHoldsValue)'
  BY DEF IInv, Begin, TypeOK, SaveHasValue, TmpHoldsValue, TargetHoldsValue,
     CloseIsChecked, FirstStep
<1>3. (NameIsFree /\ CopyIsExcused /\ CloseIsChecked)'
  BY DEF IInv, Begin, TypeOK, NameIsFree, CopyIsExcused, CloseIsChecked, FirstStep
<1>4. OnlyCopyIsExcused'
  BY DEF IInv, Begin, TypeOK, TmpHoldsValue, NameIsFree, CopyIsExcused,
     OnlyCopyIsExcused, FirstStep
<1>5. CanonicalIsNeverTorn'
  BY DEF IInv, Begin, TypeOK, SaveHasValue, TmpHoldsValue, CanonicalIsNeverTorn, FirstStep
<1>6. ReportedIsSaved'
  BY DEF IInv, Begin, TypeOK, SaveHasValue, TmpHoldsValue, TargetHoldsValue,
     ReportedIsSaved, Loadable, Readable, RecoversFrom, FirstStep
<1> QED
  BY <1>1, <1>2, <1>3, <1>4, <1>5, <1>6 DEF IInv

LEMMA ClearKeeps == ASSUME IInv, Clear PROVE IInv'
<1>1. TypeOK'
  BY DEF IInv, Clear, TypeOK
<1>2. (SaveHasValue /\ TmpHoldsValue /\ TargetHoldsValue)'
  BY DEF IInv, Clear, TypeOK, SaveHasValue, TmpHoldsValue, TargetHoldsValue,
     CloseIsChecked
<1>3. (NameIsFree /\ CopyIsExcused /\ CloseIsChecked)'
  BY DEF IInv, Clear, TypeOK, NameIsFree, CopyIsExcused, CloseIsChecked
<1>4. OnlyCopyIsExcused'
  BY DEF IInv, Clear, TypeOK, TmpHoldsValue, NameIsFree, CopyIsExcused,
     OnlyCopyIsExcused
<1>5. CanonicalIsNeverTorn'
  BY DEF IInv, Clear, TypeOK, SaveHasValue, TmpHoldsValue, CanonicalIsNeverTorn
<1>6. ReportedIsSaved'
  BY DEF IInv, Clear, TypeOK, SaveHasValue, TmpHoldsValue, TargetHoldsValue,
     ReportedIsSaved, Loadable, Readable, RecoversFrom
<1> QED
  BY <1>1, <1>2, <1>3, <1>4, <1>5, <1>6 DEF IInv

LEMMA OpenKeeps == ASSUME IInv, Open PROVE IInv'
<1>1. TypeOK'
  BY DEF IInv, Open, TypeOK
<1>2. (SaveHasValue /\ TmpHoldsValue /\ TargetHoldsValue)'
  BY DEF IInv, Open, TypeOK, SaveHasValue, TmpHoldsValue, TargetHoldsValue, CloseIsChecked
<1>3. (NameIsFree /\ CopyIsExcused /\ CloseIsChecked)'
  BY DEF IInv, Open, TypeOK, NameIsFree, CopyIsExcused, CloseIsChecked
<1>4. OnlyCopyIsExcused'
  BY DEF IInv, Open, TypeOK, TmpHoldsValue, NameIsFree, CopyIsExcused,
     OnlyCopyIsExcused
<1>5. CanonicalIsNeverTorn'
  BY DEF IInv, Open, TypeOK, SaveHasValue, TmpHoldsValue, CanonicalIsNeverTorn
<1>6. ReportedIsSaved'
  BY DEF IInv, Open, TypeOK, SaveHasValue, TmpHoldsValue, TargetHoldsValue,
     ReportedIsSaved, Loadable, Readable, RecoversFrom
<1> QED
  BY <1>1, <1>2, <1>3, <1>4, <1>5, <1>6 DEF IInv

LEMMA WriteKeeps == ASSUME IInv, Write PROVE IInv'
<1>1. TypeOK'
  <2>1. faults' \in 0..MaxFaults
    BY DEF IInv, Write, TypeOK, AfterWrite
  <2>2. excuses' \subseteq {"rename", "close"}
    BY DEF IInv, Write, TypeOK, AfterWrite
  <2>3. parked' \in BOOLEAN /\ hadFile' \in BOOLEAN
    BY DEF IInv, Write, TypeOK, AfterWrite
  <2> QED
    BY <2>1, <2>2, <2>3 DEF IInv, Write, TypeOK, AfterWrite
<1>2. (SaveHasValue /\ TmpHoldsValue /\ TargetHoldsValue)'
  BY DEF IInv, Write, TypeOK, SaveHasValue, TmpHoldsValue, TargetHoldsValue,
     CloseIsChecked, AfterWrite
<1>3. (NameIsFree /\ CopyIsExcused /\ CloseIsChecked)'
  BY DEF IInv, Write, TypeOK, NameIsFree, CopyIsExcused, CloseIsChecked, AfterWrite
<1>4. OnlyCopyIsExcused'
  BY DEF IInv, Write, TypeOK, TmpHoldsValue, NameIsFree, CopyIsExcused,
     OnlyCopyIsExcused, AfterWrite
<1>5. CanonicalIsNeverTorn'
  BY DEF IInv, Write, TypeOK, SaveHasValue, TmpHoldsValue, CanonicalIsNeverTorn,
     AfterWrite
<1>6. ReportedIsSaved'
  BY DEF IInv, Write, TypeOK, SaveHasValue, TmpHoldsValue, TargetHoldsValue,
     ReportedIsSaved, Loadable, Readable, RecoversFrom, AfterWrite
<1> QED
  BY <1>1, <1>2, <1>3, <1>4, <1>5, <1>6 DEF IInv

LEMMA RemoveTargetKeeps == ASSUME IInv, RemoveTarget PROVE IInv'
<1>1. TypeOK'
  BY DEF IInv, RemoveTarget, TypeOK, AfterRemovalFails
<1>2. (SaveHasValue /\ TmpHoldsValue /\ TargetHoldsValue)'
  BY DEF IInv, RemoveTarget, TypeOK, SaveHasValue, TmpHoldsValue, TargetHoldsValue,
     CloseIsChecked, AfterRemovalFails
<1>3. (NameIsFree /\ CopyIsExcused /\ CloseIsChecked)'
  BY DEF IInv, RemoveTarget, TypeOK, NameIsFree, CopyIsExcused, CloseIsChecked,
     AfterRemovalFails
<1>4. OnlyCopyIsExcused'
  BY DEF IInv, RemoveTarget, TypeOK, TmpHoldsValue, NameIsFree, CopyIsExcused,
     OnlyCopyIsExcused, AfterRemovalFails
<1>5. CanonicalIsNeverTorn'
  BY DEF IInv, RemoveTarget, TypeOK, SaveHasValue, TmpHoldsValue,
     CanonicalIsNeverTorn, AfterRemovalFails
<1>6. ReportedIsSaved'
  BY DEF IInv, RemoveTarget, TypeOK, SaveHasValue, TmpHoldsValue, TargetHoldsValue,
     ReportedIsSaved, Loadable, Readable, RecoversFrom, AfterRemovalFails
<1> QED
  BY <1>1, <1>2, <1>3, <1>4, <1>5, <1>6 DEF IInv

LEMMA RemoveBakKeeps == ASSUME IInv, RemoveBak PROVE IInv'
<1>1. TypeOK'
  BY DEF IInv, RemoveBak, TypeOK, ClearsBak
<1>2. (SaveHasValue /\ TmpHoldsValue /\ TargetHoldsValue)'
  BY DEF IInv, RemoveBak, TypeOK, SaveHasValue, TmpHoldsValue, TargetHoldsValue,
     CloseIsChecked, ClearsBak
<1>3. (NameIsFree /\ CopyIsExcused /\ CloseIsChecked)'
  BY DEF IInv, RemoveBak, TypeOK, NameIsFree, CopyIsExcused, CloseIsChecked, ClearsBak
<1>4. OnlyCopyIsExcused'
  BY DEF IInv, RemoveBak, TypeOK, TmpHoldsValue, NameIsFree, CopyIsExcused,
     OnlyCopyIsExcused, ClearsBak
<1>5. CanonicalIsNeverTorn'
  BY DEF IInv, RemoveBak, TypeOK, SaveHasValue, TmpHoldsValue, CanonicalIsNeverTorn,
     ClearsBak
<1>6. ReportedIsSaved'
  BY DEF IInv, RemoveBak, TypeOK, SaveHasValue, TmpHoldsValue, TargetHoldsValue,
     ReportedIsSaved, Loadable, Readable, RecoversFrom, ClearsBak
<1> QED
  BY <1>1, <1>2, <1>3, <1>4, <1>5, <1>6 DEF IInv

LEMMA ParkKeeps == ASSUME IInv, Park PROVE IInv'
<1>1. TypeOK'
  <2>1. faults' \in 0..MaxFaults
    BY DEF IInv, Park, TypeOK
  <2>2. excuses' \subseteq {"rename", "close"}
    BY DEF IInv, Park, TypeOK
  <2>3. parked' \in BOOLEAN /\ hadFile' \in BOOLEAN
    BY DEF IInv, Park, TypeOK
  <2> QED
    BY <2>1, <2>2, <2>3 DEF IInv, Park, TypeOK
<1>2. (SaveHasValue /\ TmpHoldsValue /\ TargetHoldsValue)'
  BY DEF IInv, Park, TypeOK, SaveHasValue, TmpHoldsValue, TargetHoldsValue, CloseIsChecked
<1>3. (NameIsFree /\ CopyIsExcused /\ CloseIsChecked)'
  BY DEF IInv, Park, TypeOK, NameIsFree, CopyIsExcused, CloseIsChecked
<1>4. OnlyCopyIsExcused'
  BY DEF IInv, Park, TypeOK, TmpHoldsValue, NameIsFree, CopyIsExcused,
     OnlyCopyIsExcused
<1>5. CanonicalIsNeverTorn'
  BY DEF IInv, Park, TypeOK, SaveHasValue, TmpHoldsValue, CanonicalIsNeverTorn
<1>6. ReportedIsSaved'
  BY DEF IInv, Park, TypeOK, SaveHasValue, TmpHoldsValue, TargetHoldsValue,
     ReportedIsSaved, Loadable, Readable, RecoversFrom
<1> QED
  BY <1>1, <1>2, <1>3, <1>4, <1>5, <1>6 DEF IInv

LEMMA InstallKeeps == ASSUME IInv, Install PROVE IInv'
<1>1. TypeOK'
  BY DEF IInv, Install, TypeOK, AfterInstall, AfterInstallFails
<1>2. (SaveHasValue /\ TmpHoldsValue /\ TargetHoldsValue)'
  BY DEF IInv, Install, TypeOK, SaveHasValue, TmpHoldsValue, TargetHoldsValue,
     CloseIsChecked, AfterInstall, AfterInstallFails
<1>3. (NameIsFree /\ CopyIsExcused /\ CloseIsChecked)'
  BY DEF IInv, Install, TypeOK, NameIsFree, CopyIsExcused, CloseIsChecked,
     AfterInstall, AfterInstallFails
<1>4. OnlyCopyIsExcused'
  BY DEF IInv, Install, TypeOK, TmpHoldsValue, NameIsFree, CopyIsExcused,
     OnlyCopyIsExcused, AfterInstall, AfterInstallFails
<1>5. CanonicalIsNeverTorn'
  BY DEF IInv, Install, TypeOK, SaveHasValue, TmpHoldsValue, CanonicalIsNeverTorn,
     AfterInstall, AfterInstallFails
<1>6. ReportedIsSaved'
  BY DEF IInv, Install, TypeOK, SaveHasValue, TmpHoldsValue, TargetHoldsValue,
     ReportedIsSaved, Loadable, Readable, RecoversFrom, AfterInstall, AfterInstallFails
<1> QED
  BY <1>1, <1>2, <1>3, <1>4, <1>5, <1>6 DEF IInv

LEMMA UnparkKeeps == ASSUME IInv, Unpark PROVE IInv'
<1>1. TypeOK'
  BY DEF IInv, Unpark, TypeOK
<1>2. (SaveHasValue /\ TmpHoldsValue /\ TargetHoldsValue)'
  BY DEF IInv, Unpark, TypeOK, SaveHasValue, TmpHoldsValue, TargetHoldsValue,
     CloseIsChecked
<1>3. (NameIsFree /\ CopyIsExcused /\ CloseIsChecked)'
  BY DEF IInv, Unpark, TypeOK, NameIsFree, CopyIsExcused, CloseIsChecked
<1>4. OnlyCopyIsExcused'
  BY DEF IInv, Unpark, TypeOK, TmpHoldsValue, NameIsFree, CopyIsExcused,
     OnlyCopyIsExcused
<1>5. CanonicalIsNeverTorn'
  BY DEF IInv, Unpark, TypeOK, SaveHasValue, TmpHoldsValue, CanonicalIsNeverTorn
<1>6. ReportedIsSaved'
  BY DEF IInv, Unpark, TypeOK, SaveHasValue, TmpHoldsValue, TargetHoldsValue,
     ReportedIsSaved, Loadable, Readable, RecoversFrom
<1> QED
  BY <1>1, <1>2, <1>3, <1>4, <1>5, <1>6 DEF IInv

LEMMA RestoreKeeps == ASSUME IInv, Restore PROVE IInv'
<1>1. TypeOK'
  <2>1. faults' \in 0..MaxFaults
    BY DEF IInv, Restore, TypeOK
  <2>2. excuses' \subseteq {"rename", "close"}
    BY DEF IInv, Restore, TypeOK
  <2>3. parked' \in BOOLEAN /\ hadFile' \in BOOLEAN
    BY DEF IInv, Restore, TypeOK
  <2> QED
    BY <2>1, <2>2, <2>3 DEF IInv, Restore, TypeOK
<1>2. (SaveHasValue /\ TmpHoldsValue /\ TargetHoldsValue)'
  BY DEF IInv, Restore, TypeOK, SaveHasValue, TmpHoldsValue, TargetHoldsValue,
     CloseIsChecked
<1>3. (NameIsFree /\ CopyIsExcused /\ CloseIsChecked)'
  BY DEF IInv, Restore, TypeOK, NameIsFree, CopyIsExcused, CloseIsChecked
<1>4. OnlyCopyIsExcused'
  BY DEF IInv, Restore, TypeOK, TmpHoldsValue, NameIsFree, CopyIsExcused,
     OnlyCopyIsExcused
<1>5. CanonicalIsNeverTorn'
  BY DEF IInv, Restore, TypeOK, SaveHasValue, TmpHoldsValue, CanonicalIsNeverTorn
<1>6. ReportedIsSaved'
  BY DEF IInv, Restore, TypeOK, SaveHasValue, TmpHoldsValue, TargetHoldsValue,
     ReportedIsSaved, Loadable, Readable, RecoversFrom
<1> QED
  BY <1>1, <1>2, <1>3, <1>4, <1>5, <1>6 DEF IInv

LEMMA DropTmpKeeps == ASSUME IInv, DropTmp PROVE IInv'
<1>1. TypeOK'
  BY DEF IInv, DropTmp, TypeOK
<1>2. (SaveHasValue /\ TmpHoldsValue /\ TargetHoldsValue)'
  BY DEF IInv, DropTmp, TypeOK, SaveHasValue, TmpHoldsValue, TargetHoldsValue,
     CloseIsChecked
<1>3. (NameIsFree /\ CopyIsExcused /\ CloseIsChecked)'
  BY DEF IInv, DropTmp, TypeOK, NameIsFree, CopyIsExcused, CloseIsChecked
<1>4. OnlyCopyIsExcused'
  BY DEF IInv, DropTmp, TypeOK, TmpHoldsValue, NameIsFree, CopyIsExcused,
     OnlyCopyIsExcused
<1>5. CanonicalIsNeverTorn'
  BY DEF IInv, DropTmp, TypeOK, SaveHasValue, TmpHoldsValue, CanonicalIsNeverTorn
<1>6. ReportedIsSaved'
  BY DEF IInv, DropTmp, TypeOK, SaveHasValue, TmpHoldsValue, TargetHoldsValue,
     ReportedIsSaved, Loadable, Readable, RecoversFrom
<1> QED
  BY <1>1, <1>2, <1>3, <1>4, <1>5, <1>6 DEF IInv

LEMMA CopyOpenKeeps == ASSUME IInv, CopyOpen PROVE IInv'
<1>1. TypeOK'
  BY DEF IInv, CopyOpen, TypeOK
<1>2. (SaveHasValue /\ TmpHoldsValue /\ TargetHoldsValue)'
  BY DEF IInv, CopyOpen, TypeOK, SaveHasValue, TmpHoldsValue, TargetHoldsValue,
     CloseIsChecked
<1>3. (NameIsFree /\ CopyIsExcused /\ CloseIsChecked)'
  BY DEF IInv, CopyOpen, TypeOK, NameIsFree, CopyIsExcused, CloseIsChecked
<1>4. OnlyCopyIsExcused'
  BY DEF IInv, CopyOpen, TypeOK, TmpHoldsValue, NameIsFree, CopyIsExcused,
     OnlyCopyIsExcused
<1>5. CanonicalIsNeverTorn'
  BY DEF IInv, CopyOpen, TypeOK, SaveHasValue, TmpHoldsValue, CanonicalIsNeverTorn
<1>6. ReportedIsSaved'
  BY DEF IInv, CopyOpen, TypeOK, SaveHasValue, TmpHoldsValue, TargetHoldsValue,
     ReportedIsSaved, Loadable, Readable, RecoversFrom
<1> QED
  BY <1>1, <1>2, <1>3, <1>4, <1>5, <1>6 DEF IInv

LEMMA CopyKeeps == ASSUME IInv, Copy PROVE IInv'
<1>1. TypeOK'
  BY DEF IInv, Copy, TypeOK
<1>2. (SaveHasValue /\ TmpHoldsValue /\ TargetHoldsValue)'
  BY DEF IInv, Copy, TypeOK, SaveHasValue, TmpHoldsValue, TargetHoldsValue, CloseIsChecked
<1>3. (NameIsFree /\ CopyIsExcused /\ CloseIsChecked)'
  BY DEF IInv, Copy, TypeOK, NameIsFree, CopyIsExcused, CloseIsChecked
<1>4. OnlyCopyIsExcused'
  BY DEF IInv, Copy, TypeOK, TmpHoldsValue, NameIsFree, CopyIsExcused,
     OnlyCopyIsExcused
<1>5. CanonicalIsNeverTorn'
  BY DEF IInv, Copy, TypeOK, SaveHasValue, TmpHoldsValue, CanonicalIsNeverTorn
<1>6. ReportedIsSaved'
  BY DEF IInv, Copy, TypeOK, SaveHasValue, TmpHoldsValue, TargetHoldsValue,
     ReportedIsSaved, Loadable, Readable, RecoversFrom
<1> QED
  BY <1>1, <1>2, <1>3, <1>4, <1>5, <1>6 DEF IInv

LEMMA DropTargetKeeps == ASSUME IInv, DropTarget PROVE IInv'
<1>1. TypeOK'
  BY DEF IInv, DropTarget, TypeOK
<1>2. (SaveHasValue /\ TmpHoldsValue /\ TargetHoldsValue)'
  BY DEF IInv, DropTarget, TypeOK, SaveHasValue, TmpHoldsValue, TargetHoldsValue,
     CloseIsChecked
<1>3. (NameIsFree /\ CopyIsExcused /\ CloseIsChecked)'
  BY DEF IInv, DropTarget, TypeOK, NameIsFree, CopyIsExcused, CloseIsChecked
<1>4. OnlyCopyIsExcused'
  BY DEF IInv, DropTarget, TypeOK, TmpHoldsValue, NameIsFree, CopyIsExcused,
     OnlyCopyIsExcused
<1>5. CanonicalIsNeverTorn'
  BY DEF IInv, DropTarget, TypeOK, SaveHasValue, TmpHoldsValue, CanonicalIsNeverTorn
<1>6. ReportedIsSaved'
  BY DEF IInv, DropTarget, TypeOK, SaveHasValue, TmpHoldsValue, TargetHoldsValue,
     ReportedIsSaved, Loadable, Readable, RecoversFrom
<1> QED
  BY <1>1, <1>2, <1>3, <1>4, <1>5, <1>6 DEF IInv

LEMMA DropCopiedKeeps == ASSUME IInv, DropCopied PROVE IInv'
<1>1. TypeOK'
  BY DEF IInv, DropCopied, TypeOK
<1>2. (SaveHasValue /\ TmpHoldsValue /\ TargetHoldsValue)'
  BY DEF IInv, DropCopied, TypeOK, SaveHasValue, TmpHoldsValue, TargetHoldsValue,
     CloseIsChecked
<1>3. (NameIsFree /\ CopyIsExcused /\ CloseIsChecked)'
  BY DEF IInv, DropCopied, TypeOK, NameIsFree, CopyIsExcused, CloseIsChecked
<1>4. OnlyCopyIsExcused'
  BY DEF IInv, DropCopied, TypeOK, TmpHoldsValue, NameIsFree, CopyIsExcused,
     OnlyCopyIsExcused
<1>5. CanonicalIsNeverTorn'
  BY DEF IInv, DropCopied, TypeOK, SaveHasValue, TmpHoldsValue, CanonicalIsNeverTorn
<1>6. ReportedIsSaved'
  BY DEF IInv, DropCopied, TypeOK, SaveHasValue, TmpHoldsValue, TargetHoldsValue,
     ReportedIsSaved, Loadable, Readable, RecoversFrom
<1> QED
  BY <1>1, <1>2, <1>3, <1>4, <1>5, <1>6 DEF IInv

LEMMA PowerCutKeeps == ASSUME IInv, PowerCut PROVE IInv'
<1>1. TypeOK'
  <2>1. faults' \in 0..MaxFaults
    BY DEF IInv, PowerCut, TypeOK
  <2>2. excuses' \subseteq {"rename", "close"}
    BY DEF IInv, PowerCut, TypeOK
  <2>3. parked' \in BOOLEAN /\ hadFile' \in BOOLEAN
    BY DEF IInv, PowerCut, TypeOK
  <2> QED
    BY <2>1, <2>2, <2>3 DEF IInv, PowerCut, TypeOK
<1>2. (SaveHasValue /\ TmpHoldsValue /\ TargetHoldsValue)'
  BY DEF IInv, PowerCut, TypeOK, SaveHasValue, TmpHoldsValue, TargetHoldsValue,
     CloseIsChecked
<1>3. (NameIsFree /\ CopyIsExcused /\ CloseIsChecked)'
  BY DEF IInv, PowerCut, TypeOK, NameIsFree, CopyIsExcused, CloseIsChecked
<1>4. OnlyCopyIsExcused'
  BY DEF IInv, PowerCut, TypeOK, TmpHoldsValue, NameIsFree, CopyIsExcused,
     OnlyCopyIsExcused
<1>5. CanonicalIsNeverTorn'
  BY DEF IInv, PowerCut, TypeOK, SaveHasValue, TmpHoldsValue, CanonicalIsNeverTorn
<1>6. ReportedIsSaved'
  BY DEF IInv, PowerCut, TypeOK, SaveHasValue, TmpHoldsValue, TargetHoldsValue,
     ReportedIsSaved, Loadable, Readable, RecoversFrom
<1> QED
  BY <1>1, <1>2, <1>3, <1>4, <1>5, <1>6 DEF IInv

LEMMA RestartKeeps == ASSUME IInv, Restart PROVE IInv'
<1>1. TypeOK'
  BY DEF IInv, Restart, TypeOK
<1>2. (SaveHasValue /\ TmpHoldsValue /\ TargetHoldsValue)'
  BY DEF IInv, Restart, TypeOK, SaveHasValue, TmpHoldsValue, TargetHoldsValue,
     CloseIsChecked
<1>3. (NameIsFree /\ CopyIsExcused /\ CloseIsChecked)'
  BY DEF IInv, Restart, TypeOK, NameIsFree, CopyIsExcused, CloseIsChecked
<1>4. OnlyCopyIsExcused'
  BY DEF IInv, Restart, TypeOK, TmpHoldsValue, NameIsFree, CopyIsExcused,
     OnlyCopyIsExcused
<1>5. CanonicalIsNeverTorn'
  BY DEF IInv, Restart, TypeOK, SaveHasValue, TmpHoldsValue, CanonicalIsNeverTorn
<1>6. ReportedIsSaved'
  BY DEF IInv, Restart, TypeOK, SaveHasValue, TmpHoldsValue, TargetHoldsValue,
     ReportedIsSaved, Loadable, Readable, RecoversFrom
<1> QED
  BY <1>1, <1>2, <1>3, <1>4, <1>5, <1>6 DEF IInv

LEMMA LoadKeeps == ASSUME IInv, Load PROVE IInv'
<1>1. TypeOK'
  BY DEF IInv, Load, TypeOK, Promoted, RecoversFrom, Readable
<1>2. (SaveHasValue /\ TmpHoldsValue /\ TargetHoldsValue)'
  BY DEF IInv, Load, TypeOK, SaveHasValue, TmpHoldsValue, TargetHoldsValue,
     CloseIsChecked, Promoted, RecoversFrom, Readable
<1>3. (NameIsFree /\ CopyIsExcused /\ CloseIsChecked)'
  BY DEF IInv, Load, TypeOK, NameIsFree, CopyIsExcused, CloseIsChecked, Promoted,
     RecoversFrom, Readable
<1>4. OnlyCopyIsExcused'
  BY DEF IInv, Load, TypeOK, TmpHoldsValue, NameIsFree, CopyIsExcused,
     OnlyCopyIsExcused, Promoted, RecoversFrom, Readable
<1>5. CanonicalIsNeverTorn'
  BY DEF IInv, Load, TypeOK, SaveHasValue, TmpHoldsValue, CanonicalIsNeverTorn,
     Promoted, RecoversFrom, Readable
<1>6. ReportedIsSaved'
  BY DEF IInv, Load, TypeOK, SaveHasValue, TmpHoldsValue, TargetHoldsValue,
     ReportedIsSaved, Loadable, Readable, RecoversFrom, Promoted
<1> QED
  BY <1>1, <1>2, <1>3, <1>4, <1>5, <1>6 DEF IInv

LEMMA StutterKeeps == ASSUME IInv, UNCHANGED vars PROVE IInv'
BY DEF IInv, vars, TypeOK, SaveHasValue, TmpHoldsValue, TargetHoldsValue, NameIsFree,
   CopyIsExcused, OnlyCopyIsExcused, CloseIsChecked, CanonicalIsNeverTorn,
   ReportedIsSaved, Loadable, Readable, RecoversFrom

LEMMA StepKeeps == IInv /\ [Next]_vars => IInv'
<1> SUFFICES ASSUME IInv, [Next]_vars PROVE IInv'
  OBVIOUS
<1>1. CASE \E v \in Values : Begin(v)
  BY <1>1, BeginKeeps
<1>2. CASE Save
  BY <1>2, ClearKeeps, OpenKeeps, WriteKeeps, RemoveTargetKeeps, RemoveBakKeeps, ParkKeeps,
     InstallKeeps, UnparkKeeps, RestoreKeeps, DropTmpKeeps, CopyOpenKeeps,
     CopyKeeps, DropTargetKeeps, DropCopiedKeeps DEF Save
<1>3. CASE PowerCut
  BY <1>3, PowerCutKeeps
<1>4. CASE Restart
  BY <1>4, RestartKeeps
<1>5. CASE Load
  BY <1>5, LoadKeeps
<1>6. CASE UNCHANGED vars
  BY <1>6, StutterKeeps
<1> QED
  BY <1>1, <1>2, <1>3, <1>4, <1>5, <1>6 DEF Next

-----------------------------------------------------------------------------
(* The theorems.                                                           *)

(* Every reachable state, with any number of faults, meets the invariant.  *)
THEOREM Invariance == Spec => []IInv
<1>1. Init => IInv
  BY HoldsAtFirst
<1>2. IInv /\ [Next]_vars => IInv'
  BY StepKeeps
<1> QED
  BY <1>1, <1>2, PTL DEF Spec

(* Every save is at an operation of its own discipline, and every file     *)
(* holds nothing, part of a value or a value.                              *)
THEOREM TypeCorrect == Spec => []TypeOK
<1>1. IInv => TypeOK
  BY DEF IInv
<1> QED
  BY <1>1, Invariance, PTL

(* Progress, bookmarks and downloads are torn only after a close that      *)
(* failed unnoticed, however many operations fail and cuts there are.      *)
THEOREM NeverTorn == Spec => []CanonicalIsNeverTorn
<1>1. IInv => CanonicalIsNeverTorn
  BY DEF IInv
<1> QED
  BY <1>1, Invariance, PTL

(* What was reported saved, or was loaded, is what later starts load.      *)
THEOREM ReportsAreTrue == Spec => []ReportedIsSaved
<1>1. IInv => ReportedIsSaved
  BY DEF IInv
<1> QED
  BY <1>1, Invariance, PTL

-----------------------------------------------------------------------------
(* What a start would load moves only to the value being saved.            *)

LEMMA BeginMoves == ASSUME IInv, NEW v \in Values, Begin(v) PROVE MovesToTheSave
BY DEF IInv, Begin, TypeOK, SaveHasValue, TmpHoldsValue, TargetHoldsValue, NameIsFree,
   CopyIsExcused, OnlyCopyIsExcused, CloseIsChecked, MovesToTheSave, MayVanish,
   Loadable, Readable, RecoversFrom, FirstStep

LEMMA ClearMoves == ASSUME IInv, Clear PROVE MovesToTheSave
BY DEF IInv, Clear, TypeOK, SaveHasValue, TmpHoldsValue, TargetHoldsValue, NameIsFree,
   CopyIsExcused, OnlyCopyIsExcused, CloseIsChecked, MovesToTheSave, MayVanish,
   Loadable, Readable, RecoversFrom

LEMMA OpenMoves == ASSUME IInv, Open PROVE MovesToTheSave
BY DEF IInv, Open, TypeOK, SaveHasValue, TmpHoldsValue, TargetHoldsValue, NameIsFree,
   CopyIsExcused, OnlyCopyIsExcused, CloseIsChecked, MovesToTheSave, MayVanish,
   Loadable, Readable, RecoversFrom

LEMMA WriteMoves == ASSUME IInv, Write PROVE MovesToTheSave
BY DEF IInv, Write, TypeOK, SaveHasValue, TmpHoldsValue, TargetHoldsValue, NameIsFree,
   CopyIsExcused, OnlyCopyIsExcused, CloseIsChecked, MovesToTheSave, MayVanish,
   Loadable, Readable, RecoversFrom, AfterWrite

LEMMA RemoveTargetMoves == ASSUME IInv, RemoveTarget PROVE MovesToTheSave
BY DEF IInv, RemoveTarget, TypeOK, SaveHasValue, TmpHoldsValue, TargetHoldsValue,
     NameIsFree,
   CopyIsExcused, OnlyCopyIsExcused, CloseIsChecked, MovesToTheSave, MayVanish,
   Loadable, Readable, RecoversFrom, AfterRemovalFails

LEMMA RemoveBakMoves == ASSUME IInv, RemoveBak PROVE MovesToTheSave
BY DEF IInv, RemoveBak, TypeOK, SaveHasValue, TmpHoldsValue, TargetHoldsValue, NameIsFree,
   CopyIsExcused, OnlyCopyIsExcused, CloseIsChecked, MovesToTheSave, MayVanish,
   Loadable, Readable, RecoversFrom, ClearsBak

LEMMA ParkMoves == ASSUME IInv, Park PROVE MovesToTheSave
BY DEF IInv, Park, TypeOK, SaveHasValue, TmpHoldsValue, TargetHoldsValue, NameIsFree,
   CopyIsExcused, OnlyCopyIsExcused, CloseIsChecked, MovesToTheSave, MayVanish,
   Loadable, Readable, RecoversFrom

LEMMA InstallMoves == ASSUME IInv, Install PROVE MovesToTheSave
BY DEF IInv, Install, TypeOK, SaveHasValue, TmpHoldsValue, TargetHoldsValue, NameIsFree,
   CopyIsExcused, OnlyCopyIsExcused, CloseIsChecked, MovesToTheSave, MayVanish,
   Loadable, Readable, RecoversFrom, AfterInstall, AfterInstallFails

LEMMA UnparkMoves == ASSUME IInv, Unpark PROVE MovesToTheSave
BY DEF IInv, Unpark, TypeOK, SaveHasValue, TmpHoldsValue, TargetHoldsValue, NameIsFree,
   CopyIsExcused, OnlyCopyIsExcused, CloseIsChecked, MovesToTheSave, MayVanish,
   Loadable, Readable, RecoversFrom

LEMMA RestoreMoves == ASSUME IInv, Restore PROVE MovesToTheSave
BY DEF IInv, Restore, TypeOK, SaveHasValue, TmpHoldsValue, TargetHoldsValue, NameIsFree,
   CopyIsExcused, OnlyCopyIsExcused, CloseIsChecked, MovesToTheSave, MayVanish,
   Loadable, Readable, RecoversFrom

LEMMA DropTmpMoves == ASSUME IInv, DropTmp PROVE MovesToTheSave
BY DEF IInv, DropTmp, TypeOK, SaveHasValue, TmpHoldsValue, TargetHoldsValue, NameIsFree,
   CopyIsExcused, OnlyCopyIsExcused, CloseIsChecked, MovesToTheSave, MayVanish,
   Loadable, Readable, RecoversFrom

LEMMA CopyOpenMoves == ASSUME IInv, CopyOpen PROVE MovesToTheSave
BY DEF IInv, CopyOpen, TypeOK, SaveHasValue, TmpHoldsValue, TargetHoldsValue, NameIsFree,
   CopyIsExcused, OnlyCopyIsExcused, CloseIsChecked, MovesToTheSave, MayVanish,
   Loadable, Readable, RecoversFrom

LEMMA CopyMoves == ASSUME IInv, Copy PROVE MovesToTheSave
BY DEF IInv, Copy, TypeOK, SaveHasValue, TmpHoldsValue, TargetHoldsValue, NameIsFree,
   CopyIsExcused, OnlyCopyIsExcused, CloseIsChecked, MovesToTheSave, MayVanish,
   Loadable, Readable, RecoversFrom

LEMMA DropTargetMoves == ASSUME IInv, DropTarget PROVE MovesToTheSave
BY DEF IInv, DropTarget, TypeOK, SaveHasValue, TmpHoldsValue, TargetHoldsValue,
     NameIsFree,
   CopyIsExcused, OnlyCopyIsExcused, CloseIsChecked, MovesToTheSave, MayVanish,
   Loadable, Readable, RecoversFrom

LEMMA DropCopiedMoves == ASSUME IInv, DropCopied PROVE MovesToTheSave
BY DEF IInv, DropCopied, TypeOK, SaveHasValue, TmpHoldsValue, TargetHoldsValue,
     NameIsFree,
   CopyIsExcused, OnlyCopyIsExcused, CloseIsChecked, MovesToTheSave, MayVanish,
   Loadable, Readable, RecoversFrom

LEMMA PowerCutMoves == ASSUME IInv, PowerCut PROVE MovesToTheSave
BY DEF IInv, PowerCut, TypeOK, SaveHasValue, TmpHoldsValue, TargetHoldsValue, NameIsFree,
   CopyIsExcused, OnlyCopyIsExcused, CloseIsChecked, MovesToTheSave, MayVanish,
   Loadable, Readable, RecoversFrom

LEMMA RestartMoves == ASSUME IInv, Restart PROVE MovesToTheSave
BY DEF IInv, Restart, TypeOK, SaveHasValue, TmpHoldsValue, TargetHoldsValue, NameIsFree,
   CopyIsExcused, OnlyCopyIsExcused, CloseIsChecked, MovesToTheSave, MayVanish,
   Loadable, Readable, RecoversFrom

LEMMA LoadMoves == ASSUME IInv, Load PROVE MovesToTheSave
BY DEF IInv, Load, TypeOK, SaveHasValue, TmpHoldsValue, TargetHoldsValue, NameIsFree,
   CopyIsExcused, OnlyCopyIsExcused, CloseIsChecked, MovesToTheSave, MayVanish,
   Loadable, Readable, RecoversFrom, Promoted

(* No step of a save, no cut and no start brings an older value back or    *)
(* loses both, but in the windows and after the failures MayVanish names.  *)
THEOREM OldOrNew == Spec => LoadableMovesOnlyByTheSave
<1>1. IInv /\ [Next]_vars => [MovesToTheSave]_vars
  <2> SUFFICES ASSUME IInv, Next PROVE MovesToTheSave
    OBVIOUS
  <2>1. CASE \E v \in Values : Begin(v)
    BY <2>1, BeginMoves
  <2>2. CASE Save
    BY <2>2, ClearMoves, OpenMoves, WriteMoves, RemoveTargetMoves, RemoveBakMoves, ParkMoves,
       InstallMoves, UnparkMoves, RestoreMoves, DropTmpMoves, CopyOpenMoves,
       CopyMoves, DropTargetMoves, DropCopiedMoves DEF Save
  <2>3. CASE PowerCut \/ Restart \/ Load
    BY <2>3, PowerCutMoves, RestartMoves, LoadMoves
  <2> QED
    BY <2>1, <2>2, <2>3 DEF Next
<1> QED
  BY <1>1, Invariance, PTL DEF Spec, LoadableMovesOnlyByTheSave
=============================================================================
