-------------------------- MODULE KOReaderSyncProofs --------------------------
(***************************************************************************)
(* Proofs about KOReaderSync, for every set of books and settings, any     *)
(* number of pages and any number of faults: the record of a sync serves   *)
(* that sync alone (OneSync), a book opens where it was left or where its  *)
(* sync has put it (OpensAtPlace), and no upload that nobody asked for     *)
(* puts the server's record back (NotPutBack).                             *)
(***************************************************************************)
EXTENDS KOReaderSync, TLAPS

(* What the chooser offers was found on the server, by a comparison.         *)
Shown == act.state = "SHOWING_RESULT" => act.found \in Pos /\ act.intent = "COMPARE"

(* The record is about the book of the sync under way, and pending until its  *)
(* outcome is known; whoever opens the book, or goes home, clears it.         *)
Handoffs ==
  /\ screen \in {"sync", "restarting"} => sync.active /\ sync.book = book
  /\ screen = "sync" =>
       /\ act.pos = sync.pos
       /\ (act.intent = "AUTO_PULL") <=> (sync.intent = "AUTO_PULL")
       /\ act.state # "UPLOAD_COMPLETE" => sync.outcome = "PENDING"
  /\ screen = "restarting" => syncSaved = sync /\ CanResume(sync)
  /\ screen = "opening" /\ ~interrupted /\ sync.active => sync.book = book
  /\ screen = "reader" => ~Mine
  /\ screen \in {"home", "reader"} /\ ~interrupted => ~sync.active

(* The activity knows that the device was restarted for it.                  *)
OneRestart == restarts <= 1 /\ (screen = "sync" /\ ~act.recovered => restarts = 0)

(* An upload from p is one that the user asked for, or one that was decided   *)
(* on a record of the server's that was not ahead of p.                       *)
Decided(p) == asked \/ seen <= p
Decisions ==
  /\ screen = "sync" /\ (act.state = "UPLOADING" \/ act.intent = "PUSH_LOCAL") => Decided(act.pos)
  /\ screen = "restarting" /\ sync.intent = "PUSH_LOCAL" => Decided(sync.pos)

(* Where the next opening of b takes it: to what the record says, when the    *)
(* record is b's and has something to say, or to what the progress file says. *)
Keeps(r) == r.outcome = "UPLOAD_COMPLETE" \/ (r.intent = "AUTO_PULL" /\ r.outcome # "APPLIED_REMOTE")
Applies(r, b) == r.active /\ r.book = b /\ ~Keeps(r)
Where(b) == IF Applies(sync, b) THEN Restored ELSE progress[b]
DueIsWhere ==
  /\ \A b \in Books : due[b] # NoPos => due[b] = Where(b)
  /\ screen \in {"sync", "restarting"} /\ due[book] # NoPos => progress[book] = due[book]

IInv == TypeOK /\ Shown /\ Handoffs /\ OneRestart /\ Decisions /\ DueIsWhere
-------------------------------------------------------------------------------
(* The record and the helpers of the handlers.                             *)

USE KOReaderSyncAssumption
USE DEF Pos, NoPos

LEMMA ClearedIsRecord == Cleared \in Records /\ ~Cleared.active
<1>1. "COMPARE" \in Intents /\ "NONE" \in Outcomes /\ 0 \in Pos
  BY DEF Intents, Outcomes, Automatic
<1>2. Cleared \in Records
  BY <1>1, Zenon DEF Cleared, Records
<1> QED
  BY <1>2 DEF Cleared

LEMMA HandoffIsRecord ==
  ASSUME NEW b \in Books, NEW p \in Pos, NEW intent \in Intents
  PROVE  /\ Handoff(b, p, intent) \in Records
         /\ Handoff(b, p, intent).active /\ Handoff(b, p, intent).book = b
         /\ Handoff(b, p, intent).pos = p /\ Handoff(b, p, intent).intent = intent
         /\ Handoff(b, p, intent).outcome = "PENDING"
<1>1. "PENDING" \in Outcomes /\ 0 \in Pos
  BY DEF Outcomes
<1> QED
  BY <1>1 DEF Handoff, Records

(* A record with an outcome.                                                 *)
Done(r, outcome, result) == [r EXCEPT !.outcome = outcome, !.result = result]

LEMMA DoneIsRecord ==
  ASSUME NEW r \in Records, NEW o \in Outcomes, NEW p \in Pos
  PROVE  /\ Done(r, o, p) \in Records
         /\ Done(r, o, p).active = r.active /\ Done(r, o, p).book = r.book
         /\ Done(r, o, p).pos = r.pos /\ Done(r, o, p).intent = r.intent
         /\ Done(r, o, p).outcome = o /\ Done(r, o, p).result = p
  BY DEF Done, Records

Activities ==
  [state : States, intent : Intents, pos : Pos, recovered : BOOLEAN, found : Pos \cup {NoPos}]

LEMMA ActivityIsOne ==
  ASSUME NEW r \in Records, NEW resumed \in BOOLEAN
  PROVE  /\ Activity(r, resumed) \in Activities /\ Activity(r, resumed).state = "WIFI"
         /\ Activity(r, resumed).intent = r.intent /\ Activity(r, resumed).pos = r.pos
         /\ Activity(r, resumed).recovered = resumed
<1>1. "WIFI" \in States /\ NoPos \in Pos \cup {NoPos} /\ r.intent \in Intents /\ r.pos \in Pos
  BY DEF States, Waiting, Records
<1> QED
  BY <1>1, Zenon DEF Activity, Activities

LEMMA NoActivityIsOne == NoActivity \in Activities /\ NoActivity.state = "NONE"
<1>1. "NONE" \in States /\ "COMPARE" \in Intents /\ 0 \in Pos /\ NoPos \in Pos \cup {NoPos}
  BY DEF States, Waiting, Intents, Automatic
<1> QED
  BY <1>1, Zenon DEF NoActivity, Activities

LEMMA Faults ==
  ASSUME TypeOK, Fault
  PROVE  faults' \in 0 .. MaxFaults /\ faults' # faults
  BY DEF TypeOK, Fault

LEMMA Saved ==
  ASSUME TypeOK, SaveState, sync' \in Records
  PROVE  /\ syncSaved' \in Records /\ faults' \in 0 .. MaxFaults
         /\ syncSaved' \in {syncSaved, sync'} /\ (faults' = faults => syncSaved' = sync')
  BY DEF TypeOK, SaveState, Fault

(* The handlers of the activity end it with an outcome.                      *)
LEMMA Resumed ==
  ASSUME TypeOK, act.state # "NONE", NEW o \in Outcomes, NEW p \in Pos, ResumeReader(o, p)
  PROVE  /\ screen = "sync" /\ book \in Books /\ act' = NoActivity
         /\ act.intent = "AUTO_PUSH" => sync' = Cleared /\ screen' = "home" /\ book' = NoBook
         /\ act.intent # "AUTO_PUSH" =>
              sync' = Done(sync, o, p) /\ screen' = "opening" /\ book' = book
         /\ sync' \in Records /\ syncSaved' \in Records /\ faults' \in 0 .. MaxFaults
         /\ due' = IF o = "APPLIED_REMOTE" THEN [due EXCEPT ![book] = p] ELSE due
         /\ restarts' = 0 /\ asked' = FALSE /\ seen' = NoPos
         /\ UNCHANGED <<settings, progress, remote, at, moved, origin, others, interrupted>>
<1> USE DEF ResumeReader
<1>1. screen = "sync" /\ book \in Books /\ sync \in Records
  BY DEF TypeOK
<1>2. [sync EXCEPT !.outcome = o, !.result = p] = Done(sync, o, p) /\ Done(sync, o, p) \in Records
  BY <1>1, DoneIsRecord DEF Done
<1>3. restarts' = 0 /\ asked' = FALSE /\ seen' = NoPos
  BY DEF ForgetSync
<1>4. UNCHANGED <<settings, progress, remote, at, moved, origin, others, interrupted>>
  BY DEF reading
<1>5. CASE act.intent = "AUTO_PUSH"
  <2>1. sync' = Cleared /\ screen' = "home" /\ book' = NoBook
    BY <1>5
  <2>2. SaveState \/ (Fault /\ syncSaved' = Done(sync, o, p))
    BY <1>2, <1>5
  <2> QED
    BY <1>1, <1>2, <1>3, <1>4, <1>5, <2>1, <2>2, Saved, Faults, ClearedIsRecord
<1>6. CASE act.intent # "AUTO_PUSH"
  <2>1. sync' = Done(sync, o, p) /\ screen' = "opening" /\ book' = book /\ SaveState
    BY <1>2, <1>6
  <2> QED
    BY <1>1, <1>2, <1>3, <1>4, <1>6, <2>1, Saved
<1> QED
  BY <1>5, <1>6

(* A sync that is refused for want of memory restarts the device, or fails.   *)
LEMMA Recovered ==
  ASSUME TypeOK, act.state # "NONE", NEW i \in Intents \ Automatic, RecoverFromLowMemory(i)
  PROVE  /\ screen = "sync" /\ book \in Books
         /\ ~act.recovered /\ act.intent \notin Automatic /\ CanResume(sync)
         /\ \/ /\ sync' = [sync EXCEPT !.intent = i] /\ syncSaved' = sync' /\ CanResume(sync')
            \/ UNCHANGED <<sync, syncSaved>>
         /\ sync' \in Records /\ syncSaved' \in Records /\ faults' \in 0 .. MaxFaults
         /\ sync'.active = sync.active /\ sync'.book = sync.book /\ sync'.pos = sync.pos
         /\ sync'.outcome = sync.outcome /\ sync'.result = sync.result
         /\ sync'.intent \in {sync.intent, i} /\ sync'.intent \notin Automatic
         /\ \/ /\ screen' = "restarting" /\ act' = NoActivity /\ syncSaved' = sync'
               /\ sync'.intent = i
               /\ restarts' = IF restarts < 2 THEN restarts + 1 ELSE 2
            \/ /\ act' = [act EXCEPT !.state = "SYNC_FAILED", !.recovered = TRUE]
               /\ UNCHANGED <<screen, restarts>>
         /\ UNCHANGED <<settings, progress, remote, book, at, moved, origin, others, due,
                        interrupted, asked, seen>>
<1>1. screen = "sync" /\ book \in Books /\ sync \in Records /\ syncSaved \in Records
  BY DEF TypeOK
<1> DEFINE r == [sync EXCEPT !.intent = i]
<1>2. /\ r \in Records /\ r.intent = i /\ r.active = sync.active /\ r.book = sync.book
      /\ r.pos = sync.pos /\ r.outcome = sync.outcome /\ r.result = sync.result
  BY <1>1 DEF Records
<1> HIDE DEF r
<1>3. CanResume(sync)
  BY DEF RecoverFromLowMemory
<1>4. sync.intent \notin Automatic /\ CanResume(r)
  BY <1>2, <1>3 DEF CanResume
<1>5. /\ UNCHANGED <<settings, progress, remote, book, at, moved, origin, others, due,
                     interrupted, asked, seen>>
      /\ ~act.recovered /\ act.intent \notin Automatic
  BY DEF RecoverFromLowMemory, reading
<1>6. \/ /\ sync' = r /\ syncSaved' = r /\ UNCHANGED faults
         /\ \/ /\ screen' = "restarting" /\ act' = NoActivity
               /\ restarts' = IF restarts < 2 THEN restarts + 1 ELSE 2
            \/ /\ act' = [act EXCEPT !.state = "SYNC_FAILED", !.recovered = TRUE]
               /\ UNCHANGED <<screen, restarts>>
      \/ /\ Fault /\ UNCHANGED <<sync, syncSaved, screen, restarts>>
         /\ act' = [act EXCEPT !.state = "SYNC_FAILED", !.recovered = TRUE]
  BY Zenon DEF RecoverFromLowMemory, r
<1>7. faults \in 0 .. MaxFaults
  BY DEF TypeOK
<1>8. CASE sync' = r /\ syncSaved' = r /\ UNCHANGED faults
  <2>1. sync' = [sync EXCEPT !.intent = i]
    BY <1>8 DEF r
  <2> QED
    BY <1>1, <1>2, <1>3, <1>4, <1>5, <1>6, <1>7, <1>8, <2>1
<1>9. CASE /\ Fault /\ UNCHANGED <<sync, syncSaved, screen, restarts>>
           /\ act' = [act EXCEPT !.state = "SYNC_FAILED", !.recovered = TRUE]
  BY <1>1, <1>3, <1>4, <1>5, <1>9, Faults
<1> QED
  BY <1>6, <1>8, <1>9
-------------------------------------------------------------------------------
(* The types.                                                              *)

LEMMA TypeInit == Init => TypeOK
<1> SUFFICES ASSUME Init PROVE TypeOK
  OBVIOUS
<1>1. sync \in Records /\ syncSaved \in Records
  BY ClearedIsRecord DEF Init
<1>2. act = NoActivity
  BY DEF Init
<1>3. act \in Activities /\ act.state = "NONE"
  BY <1>2, NoActivityIsOne
<1>4. (screen = "sync") = (act.state # "NONE")
  BY <1>3 DEF Init
<1>5. /\ progress \in [Books -> Pos \cup {NoPos}] /\ remote \in [Books -> Pos \cup {NoPos}]
      /\ due \in [Books -> Pos \cup {NoPos}]
  BY DEF Init
<1>6. /\ settings \in Settings /\ at \in Pos /\ origin \in Pos \cup {NoPos}
      /\ faults \in 0 .. MaxFaults /\ others \in 0 .. MaxOthers
      /\ restarts \in 0 .. 2 /\ seen \in Pos \cup {NoPos}
  BY DEF Init
<1>8. moved \in BOOLEAN /\ interrupted \in BOOLEAN /\ asked \in BOOLEAN
  BY Zenon DEF Init
<1>7. /\ screen \in {"home", "opening", "reader", "sync", "restarting"}
      /\ book \in Books \cup {NoBook} /\ (screen # "home" => book \in Books)
  BY DEF Init
<1> QED
  BY <1>1, <1>3, <1>4, <1>5, <1>6, <1>7, <1>8 DEF TypeOK, Activities

(* Actions of the activity that only show another state.                     *)
LEMMA ShowTypes ==
  ASSUME TypeOK, act.state # "NONE", NEW s \in States \ {"NONE"}, Show(s)
  PROVE  /\ act' \in Activities /\ act'.state = s /\ act'.intent = act.intent
         /\ act'.pos = act.pos /\ act'.recovered = act.recovered /\ act'.found = act.found
         /\ screen = "sync" /\ book \in Books
  BY DEF TypeOK, Show, Activities

LEMMA ResumeTypes ==
  ASSUME TypeOK, act.state # "NONE", NEW o \in Outcomes, NEW p \in Pos, ResumeReader(o, p)
  PROVE  TypeOK'
<1>1. act' = NoActivity
  BY Resumed
<1>2. act' \in Activities /\ act'.state = "NONE"
  BY <1>1, NoActivityIsOne
<1>3. (screen' = "sync") = (act'.state # "NONE")
  BY <1>2, Resumed
<1>4. due' \in [Books -> Pos \cup {NoPos}]
  <2>1. due \in [Books -> Pos \cup {NoPos}] /\ book \in Books
    BY DEF TypeOK
  <2>2. due' = [due EXCEPT ![book] = p] \/ due' = due
    BY Resumed
  <2> QED
    BY <2>1, <2>2
<1>5. book' \in Books \cup {NoBook} /\ (screen' # "home" => book' \in Books)
  BY Resumed
<1>6. screen' \in {"home", "opening"}
  BY Resumed
<1>7. asked' \in BOOLEAN
  <2>1. asked' = FALSE
    BY Resumed
  <2> QED
    BY <2>1, Zenon
<1>8. /\ sync' \in Records /\ syncSaved' \in Records /\ faults' \in 0 .. MaxFaults
      /\ restarts' = 0 /\ seen' = NoPos
      /\ UNCHANGED <<settings, progress, remote, at, moved, origin, others, interrupted>>
  BY Resumed
<1> QED
  BY <1>2, <1>3, <1>4, <1>5, <1>6, <1>7, <1>8 DEF TypeOK, Activities

LEMMA RecoverTypes ==
  ASSUME TypeOK, act.state # "NONE", NEW i \in Intents \ Automatic, RecoverFromLowMemory(i)
  PROVE  TypeOK'
<1> DEFINE stopped == [act EXCEPT !.state = "SYNC_FAILED", !.recovered = TRUE]
<1>a. stopped \in Activities /\ stopped.state # "NONE"
  BY DEF TypeOK, Activities, States, Waiting
<1> HIDE DEF stopped
<1>b. (screen' = "restarting" /\ act' = NoActivity) \/ (screen' = "sync" /\ act' = stopped)
  BY Recovered, Zenon DEF stopped
<1>1. \/ screen' = "restarting" /\ act' \in Activities /\ act'.state = "NONE"
      \/ screen' = "sync" /\ act' \in Activities /\ act'.state # "NONE"
  BY <1>a, <1>b, NoActivityIsOne
<1>2. restarts' \in 0 .. 2
  BY Recovered DEF TypeOK
<1> QED
  BY <1>1, <1>2, Recovered DEF TypeOK, Activities

LEMMA ElsewhereTypes ==
  ASSUME TypeOK, UNCHANGED Elsewhere, act' \in Activities, act'.state # "NONE", screen = "sync"
  PROVE  TypeOK'
  BY DEF TypeOK, Elsewhere, Activities, card, reading, ghosts

LEMMA FetchTypes ==
  ASSUME TypeOK, act.state # "NONE",
         \/ FetchLowMemory \/ FetchBeforePush \/ FetchForAutoPull \/ FetchForSmartSync
         \/ FetchToCompare \/ UploadLowMemory
  PROVE  TypeOK'
<1>1. /\ Found \in Pos \cup {NoPos} /\ (HasRemote => Found \in Pos)
      /\ (RemoteAhead => Found \in Pos) /\ act.pos \in Pos /\ 0 \in Pos
      /\ screen = "sync" /\ act \in Activities
  BY DEF TypeOK, Found, HasRemote, RemoteAhead, Activities
<1>2. /\ {"CANCELLED", "FAILED", "UPLOAD_COMPLETE", "APPLIED_REMOTE"} \subseteq Outcomes
      /\ {"UPLOADING", "SYNC_FAILED", "SHOWING_RESULT", "NO_REMOTE_PROGRESS"} \subseteq States \ {"NONE"}
  BY DEF Outcomes, States, Waiting
<1>3. ASSUME CannotRecover PROVE TypeOK'
  BY <1>1, <1>2, <1>3, ShowTypes, ElsewhereTypes DEF CannotRecover
<1>4. ASSUME Upload PROVE TypeOK'
  BY <1>1, <1>2, <1>4, ShowTypes DEF Upload, TypeOK, Activities, card, reading
<1>5. ASSUME NEW s \in {"SHOWING_RESULT", "NO_REMOTE_PROGRESS"}, Offer(s) PROVE TypeOK'
  <2>1. act' \in Activities /\ act'.state # "NONE"
    BY <1>1, <1>2, <1>5 DEF Offer, Activities
  <2> QED
    BY <1>1, <1>5, <2>1, ElsewhereTypes DEF Offer
<1>6. CASE FetchLowMemory
  <2>1. RecoverFromLowMemory(act.intent) => act.intent \in Intents \ Automatic
    BY <1>1 DEF RecoverFromLowMemory, Activities
  <2> QED
    BY <1>3, <1>6, <2>1, RecoverTypes DEF FetchLowMemory
<1>7. CASE UploadLowMemory
  <2>1. "PUSH_LOCAL" \in Intents \ Automatic
    BY DEF Intents, Automatic
  <2> QED
    BY <1>3, <1>7, <2>1, RecoverTypes DEF UploadLowMemory
<1>8. CASE FetchBeforePush
  BY <1>1, <1>2, <1>4, <1>8, ResumeTypes, ShowTypes, ElsewhereTypes DEF FetchBeforePush
<1>9. CASE FetchForAutoPull
  BY <1>1, <1>2, <1>9, ResumeTypes DEF FetchForAutoPull
<1>10. CASE FetchForSmartSync
  BY <1>1, <1>2, <1>4, <1>5, <1>10, ResumeTypes DEF FetchForSmartSync
<1>11. CASE FetchToCompare
  BY <1>5, <1>11 DEF FetchToCompare
<1> QED
  BY <1>6, <1>7, <1>8, <1>9, <1>10, <1>11

LEMMA ActivityTypes ==
  ASSUME TypeOK, Shown, act.state # "NONE",
         \/ Connect \/ NoConnection \/ ShowNetworks \/ UseNetworkList \/ SyncFails
         \/ UploadWorks \/ UploadFails
         \/ ApplyRemoteFromChooser \/ UploadFromChooser \/ CloseCancelled \/ DismissFailure
         \/ UploadIsShown
  PROVE  TypeOK'
<1>1. /\ act.pos \in Pos /\ 0 \in Pos /\ screen = "sync" /\ book \in Books
      /\ sync \in Records /\ act \in Activities
  BY DEF TypeOK, Activities
<1>2. /\ {"CANCELLED", "FAILED", "UPLOAD_COMPLETE", "APPLIED_REMOTE"} \subseteq Outcomes
      /\ {"WIFI", "WIFI_LIST", "SYNCING", "UPLOADING", "SYNC_FAILED", "UPLOAD_COMPLETE"}
           \subseteq States \ {"NONE"}
  BY DEF Outcomes, States, Waiting
<1>3. ASSUME Join PROVE TypeOK'
  BY <1>1, <1>2, <1>3, ShowTypes DEF Join, TypeOK, Activities, reading, ghosts
<1>4. CASE NoConnection \/ CloseCancelled \/ DismissFailure \/ UploadIsShown
  BY <1>1, <1>2, <1>4, ResumeTypes DEF NoConnection, CloseCancelled, DismissFailure, UploadIsShown
<1>5. CASE SyncFails
  BY <1>1, <1>2, <1>5, ShowTypes, ElsewhereTypes DEF SyncFails
<1>6. CASE UploadFails
  BY <1>1, <1>2, <1>6, ShowTypes DEF UploadFails, TypeOK, Activities, card, reading, ghosts
<1>7. CASE ApplyRemoteFromChooser
  BY <1>1, <1>2, <1>7, ResumeTypes, ShowTypes, ElsewhereTypes DEF ApplyRemoteFromChooser, Shown
<1>8. CASE UploadFromChooser
  <2>1. asked' \in BOOLEAN
    BY <1>8, Zenon DEF UploadFromChooser
  <2> QED
    BY <1>1, <1>2, <1>8, <2>1, ShowTypes
       DEF UploadFromChooser, TypeOK, Activities, card, reading
<1>9. CASE UploadWorks
  <2>1. /\ remote' = [remote EXCEPT ![book] = act.pos]
        /\ restarts' = 0 /\ asked' = FALSE /\ seen' = NoPos
        /\ UNCHANGED <<settings, progress, at, moved, origin, others, due, interrupted>>
    BY <1>9 DEF UploadWorks, ForgetSync, reading
  <2>2. asked' \in BOOLEAN
    BY <2>1, Zenon
  <2> DEFINE complete == [sync EXCEPT !.outcome = "UPLOAD_COMPLETE"]
  <2>3. complete \in Records
    BY <1>1, <1>2 DEF Records
  <2> HIDE DEF complete
  <2>4. CASE act.intent = "AUTO_PUSH"
    <3>1. /\ sync' = Cleared /\ act' = NoActivity /\ screen' = "home" /\ book' = NoBook
          /\ SaveState \/ (Fault /\ syncSaved' = complete)
      BY <1>9, <2>4, Zenon DEF UploadWorks, complete
    <3>2. sync' \in Records /\ syncSaved' \in Records /\ faults' \in 0 .. MaxFaults
      BY <2>3, <3>1, ClearedIsRecord, Saved, Faults
    <3>3. act' \in Activities /\ act'.state = "NONE"
      BY <3>1, NoActivityIsOne
    <3>4. (screen' = "sync") = (act'.state # "NONE")
      BY <3>1, <3>3
    <3> QED
      BY <1>1, <2>1, <2>2, <3>1, <3>2, <3>3, <3>4 DEF TypeOK, Activities
  <2>5. CASE act.intent # "AUTO_PUSH"
    <3>1. /\ sync' = complete /\ Show("UPLOAD_COMPLETE") /\ SaveState
          /\ UNCHANGED <<screen, book>>
      BY <1>9, <2>5, Zenon DEF UploadWorks, complete
    <3>2. sync' \in Records /\ syncSaved' \in Records /\ faults' \in 0 .. MaxFaults
      BY <2>3, <3>1, Saved
    <3>3. act' \in Activities /\ act'.state # "NONE"
      BY <1>2, <3>1, ShowTypes
    <3> QED
      BY <1>1, <2>1, <2>2, <3>1, <3>2, <3>3 DEF TypeOK, Activities
  <2> QED
    BY <2>4, <2>5
<1>10. CASE Connect
  BY <1>3, <1>10 DEF Connect
<1>11. CASE ShowNetworks
  BY <1>1, <1>2, <1>11, ShowTypes, ElsewhereTypes DEF ShowNetworks
<1>12. CASE UseNetworkList
  <2>1. CASE Show("WIFI") /\ UNCHANGED Elsewhere
    BY <1>1, <1>2, <2>1, ShowTypes, ElsewhereTypes
  <2>2. CASE ResumeReader("CANCELLED", 0)
    BY <1>1, <1>2, <2>2, ResumeTypes
  <2> QED
    BY <1>3, <1>12, <2>1, <2>2 DEF UseNetworkList
<1> QED
  BY <1>3, <1>4, <1>5, <1>6, <1>7, <1>8, <1>9, <1>10, <1>11, <1>12

(* What opening a book does: the record of the book gives its position to the *)
(* progress file, if that can be written, and is cleared.                     *)
LEMMA Opened ==
  ASSUME TypeOK, OpenReader
  PROVE  /\ screen = "opening" /\ screen' = "reader" /\ book \in Books /\ book' = book
         /\ act.state = "NONE" /\ act' = act
         /\ IF Mine THEN sync' = Cleared ELSE sync' = sync
         /\ syncSaved' \in {syncSaved, sync'} /\ faults' \in 0 .. MaxFaults
         /\ \/ progress' = IF Applies(sync, book) THEN [progress EXCEPT ![book] = Restored]
                           ELSE progress
            \/ Applies(sync, book) /\ progress' = progress /\ faults' # faults
         /\ at' \in IF progress'[book] # NoPos
                    THEN {progress'[book]} \cup (IF Applies(sync, book) THEN {Restored} ELSE {})
                    ELSE {IF Applies(sync, book) THEN Restored ELSE 0}
         /\ moved' = FALSE /\ origin' = NoPos
         /\ due' = [due EXCEPT ![book] = progress'[book]]
         /\ interrupted' = (interrupted /\ sync'.active)
         /\ UNCHANGED <<settings, remote, others, restarts, asked, seen>>
<1>1. screen = "opening" /\ book \in Books /\ act.state = "NONE"
  BY DEF TypeOK, OpenReader
<1>2. (Mine /\ ~KeepsProgress) <=> Applies(sync, book)
  BY DEF Mine, KeepsProgress, Applies, Keeps
<1>3. \/ /\ progress' = IF Applies(sync, book) THEN [progress EXCEPT ![book] = Restored] ELSE progress
         /\ SaveState
      \/ Applies(sync, book) /\ Fault /\ syncSaved' = sync' /\ UNCHANGED progress
  BY <1>2, Zenon DEF OpenReader
<1>4. /\ syncSaved' \in {syncSaved, sync'} /\ faults' \in 0 .. MaxFaults
      /\ \/ progress' = IF Applies(sync, book) THEN [progress EXCEPT ![book] = Restored]
                        ELSE progress
         \/ Applies(sync, book) /\ progress' = progress /\ faults' # faults
  BY <1>3, Faults DEF SaveState, TypeOK
<1>5. at' \in IF progress'[book] # NoPos
              THEN {progress'[book]} \cup (IF Applies(sync, book) THEN {Restored} ELSE {})
              ELSE {IF Applies(sync, book) THEN Restored ELSE 0}
  BY <1>2, Zenon DEF OpenReader
<1>6. IF Mine THEN sync' = Cleared ELSE sync' = sync
  BY DEF OpenReader
<1>7. /\ moved' = FALSE /\ origin' = NoPos /\ screen' = "reader" /\ book' = book /\ act' = act
      /\ due' = [due EXCEPT ![book] = progress'[book]]
      /\ interrupted' = (interrupted /\ sync'.active)
      /\ UNCHANGED <<settings, remote, others, restarts, asked, seen>>
  BY Zenon DEF OpenReader
<1> QED
  BY <1>1, <1>4, <1>5, <1>6, <1>7

LEMMA OpenTypes == ASSUME TypeOK, OpenReader PROVE TypeOK'
<1>1. /\ Restored \in Pos /\ sync \in Records /\ syncSaved \in Records
      /\ progress \in [Books -> Pos \cup {NoPos}] /\ due \in [Books -> Pos \cup {NoPos}]
  BY DEF TypeOK, Restored, Records
<1>2. book \in Books /\ screen' = "reader" /\ book' = book /\ act' = act /\ act.state = "NONE"
  BY Opened
<1>3. sync' \in Records /\ syncSaved' \in Records
  <2>1. sync' \in {sync, Cleared} /\ syncSaved' \in {syncSaved, sync'}
    BY Opened
  <2> QED
    BY <1>1, <2>1, ClearedIsRecord
<1>4. progress' \in [Books -> Pos \cup {NoPos}]
  <2>1. progress' = progress \/ progress' = [progress EXCEPT ![book] = Restored]
    BY Opened
  <2> QED
    BY <1>1, <1>2, <2>1
<1>5. progress'[book] \in Pos \cup {NoPos}
  BY <1>2, <1>4
<1>6. at' \in Pos
  <2>1. at' \in {progress'[book], Restored, 0} /\ (progress'[book] = NoPos => at' \in {Restored, 0})
    BY Opened
  <2> QED
    BY <1>1, <1>5, <2>1
<1>7. due' \in [Books -> Pos \cup {NoPos}]
  <2>1. due' = [due EXCEPT ![book] = progress'[book]]
    BY Opened
  <2> QED
    BY <1>1, <1>5, <2>1
<1>8. moved' \in BOOLEAN /\ interrupted' \in BOOLEAN
  <2>1. moved' = FALSE /\ interrupted' = (interrupted /\ sync'.active)
    BY Opened
  <2> QED
    BY <2>1, Zenon
<1>9. /\ faults' \in 0 .. MaxFaults /\ origin' = NoPos
      /\ UNCHANGED <<settings, remote, others, restarts, asked, seen>>
  BY Opened
<1> QED
  BY <1>2, <1>3, <1>4, <1>6, <1>7, <1>8, <1>9 DEF TypeOK, Activities

(* What the start of a sync changes, whoever starts it.                      *)
LEMMA Started ==
  ASSUME StartSync, sync' \in Records
  PROVE  /\ screen' = "sync" /\ act' \in Activities /\ act'.state = "WIFI"
         /\ act'.intent = sync'.intent /\ act'.pos = sync'.pos /\ act'.recovered = FALSE
         /\ restarts' = 0 /\ asked' = FALSE /\ seen' = NoPos /\ interrupted' = FALSE
         /\ asked' \in BOOLEAN /\ interrupted' \in BOOLEAN
<1>1. act' = Activity(sync', FALSE) /\ screen' = "sync"
  BY DEF StartSync
<1>2. restarts' = 0 /\ asked' = FALSE /\ seen' = NoPos /\ interrupted' = FALSE
  BY Zenon DEF StartSync, ForgetSync
<1>3. asked' \in BOOLEAN /\ interrupted' \in BOOLEAN /\ FALSE \in BOOLEAN
  BY <1>2, Zenon
<1> QED
  BY <1>1, <1>2, <1>3, ActivityIsOne

LEMMA PullTypes == ASSUME TypeOK, AutoPullOnOpen PROVE TypeOK'
<1>1. book \in Books /\ 0 \in Pos /\ "AUTO_PULL" \in Intents
  BY DEF TypeOK, AutoPullOnOpen, Intents, Automatic
<1>2. sync' = Handoff(book, 0, "AUTO_PULL") /\ StartSync /\ SaveState
  BY DEF AutoPullOnOpen
<1>3. sync' \in Records
  BY <1>1, <1>2, HandoffIsRecord
<1>4. syncSaved' \in Records /\ faults' \in 0 .. MaxFaults
  BY <1>2, <1>3, Saved
<1>5. UNCHANGED <<settings, progress, remote, book, at, moved, origin, others, due>>
  BY DEF AutoPullOnOpen, reading
<1>6. (screen' = "sync") = (act'.state # "NONE")
  BY <1>2, <1>3, Started
<1>7. /\ screen' = "sync" /\ act' \in Activities /\ restarts' = 0 /\ seen' = NoPos
      /\ asked' \in BOOLEAN /\ interrupted' \in BOOLEAN
  BY <1>2, <1>3, Started
<1> QED
  BY <1>1, <1>3, <1>4, <1>5, <1>6, <1>7 DEF TypeOK, Activities

LEMMA LaunchTypes ==
  ASSUME TypeOK, NEW intent \in Intents, LaunchKOReaderSync(intent)
  PROVE  TypeOK'
<1>1. book \in Books /\ 0 \in Pos /\ at \in Pos
  BY DEF TypeOK, LaunchKOReaderSync
<1>2. sync' = Handoff(book, at, intent) /\ StartSync
  BY DEF LaunchKOReaderSync
<1>3. sync' \in Records
  BY <1>1, <1>2, HandoffIsRecord
<1>4. /\ syncSaved' \in Records /\ faults' \in 0 .. MaxFaults
      /\ progress' \in [Books -> Pos \cup {NoPos}]
  <2>1. \/ progress' = [progress EXCEPT ![book] = at] /\ syncSaved' = sync' /\ UNCHANGED faults
        \/ Fault /\ progress' = [progress EXCEPT ![book] = at] /\ UNCHANGED syncSaved
        \/ Fault /\ syncSaved' = sync' /\ UNCHANGED progress
    BY DEF LaunchKOReaderSync
  <2>2. /\ syncSaved \in Records /\ faults \in 0 .. MaxFaults
        /\ progress \in [Books -> Pos \cup {NoPos}]
    BY DEF TypeOK
  <2> QED
    BY <1>1, <1>3, <2>1, <2>2, Faults
<1>5. due' \in [Books -> Pos \cup {NoPos}]
  <2>1. due' = [b \in Books |->
                  IF b = book THEN IF origin = NoPos /\ progress'[b] = at THEN at ELSE NoPos
                  ELSE IF sync.active /\ b = sync.book THEN NoPos ELSE due[b]]
    BY DEF LaunchKOReaderSync
  <2>2. due \in [Books -> Pos \cup {NoPos}]
    BY DEF TypeOK
  <2> QED
    BY <1>1, <2>1, <2>2
<1>6. UNCHANGED <<settings, remote, book, others>> /\ at' = 0 /\ moved' = FALSE /\ origin' = NoPos
  BY DEF LaunchKOReaderSync, NotReading
<1>7. (screen' = "sync") = (act'.state # "NONE")
  BY <1>2, <1>3, Started
<1>8. /\ screen' = "sync" /\ act' \in Activities /\ restarts' = 0 /\ seen' = NoPos
      /\ asked' \in BOOLEAN /\ interrupted' \in BOOLEAN
  BY <1>2, <1>3, Started
<1>9. moved' \in BOOLEAN
  BY <1>6, Zenon
<1> QED
  BY <1>1, <1>3, <1>4, <1>5, <1>6, <1>7, <1>8, <1>9 DEF TypeOK, Activities

(* A reader that is left takes an excursion back, if that can be written.    *)
LEMMA Left ==
  ASSUME TypeOK, screen = "reader", LeaveReader
  PROVE  /\ sync' = sync /\ syncSaved' \in {syncSaved, sync} /\ faults' \in 0 .. MaxFaults
         /\ faults' = faults => syncSaved' = sync
         /\ \/ progress' = progress /\ due' = due
            \/ /\ origin # NoPos /\ progress' = [progress EXCEPT ![book] = origin]
               /\ due' = [due EXCEPT ![book] = origin]
<1>1. sync' = sync /\ sync \in Records
  BY DEF LeaveReader, TypeOK
<1>2. CASE TakeExcursionBack /\ SaveState
  BY <1>1, <1>2, Saved DEF TakeExcursionBack
<1>3. CASE origin # NoPos /\ Fault /\ syncSaved' = sync /\ UNCHANGED <<progress, due>>
  BY <1>1, <1>3, Faults
<1> QED
  BY <1>2, <1>3 DEF LeaveReader

LEMMA LeftTypes ==
  ASSUME TypeOK, screen = "reader", LeaveReader
  PROVE  /\ sync' \in Records /\ syncSaved' \in Records /\ faults' \in 0 .. MaxFaults
         /\ progress' \in [Books -> Pos \cup {NoPos}] /\ due' \in [Books -> Pos \cup {NoPos}]
<1>1. /\ book \in Books /\ origin \in Pos \cup {NoPos}
      /\ sync \in Records /\ syncSaved \in Records
      /\ progress \in [Books -> Pos \cup {NoPos}] /\ due \in [Books -> Pos \cup {NoPos}]
  BY DEF TypeOK
<1>2. \/ progress' = progress /\ due' = due
      \/ /\ origin # NoPos /\ progress' = [progress EXCEPT ![book] = origin]
         /\ due' = [due EXCEPT ![book] = origin]
  BY Left
<1>3. sync' = sync /\ syncSaved' \in {syncSaved, sync} /\ faults' \in 0 .. MaxFaults
  BY Left
<1> QED
  BY <1>1, <1>2, <1>3

LEMMA ResetTypes ==
  ASSUME TypeOK, Reset, sync' \in Records, syncSaved' \in Records, faults' \in 0 .. MaxFaults,
         progress' \in [Books -> Pos \cup {NoPos}], due' \in [Books -> Pos \cup {NoPos}]
  PROVE  TypeOK'
<1>1. /\ screen' = "home" /\ book' = NoBook /\ act' = NoActivity
      /\ at' = 0 /\ moved' = FALSE /\ origin' = NoPos
      /\ restarts' = 0 /\ asked' = FALSE /\ seen' = NoPos
      /\ UNCHANGED <<settings, remote, others>> /\ interrupted' = sync'.active
  BY DEF Reset, NotReading, ForgetSync
<1>2. act' \in Activities /\ (screen' = "sync") = (act'.state # "NONE")
  BY <1>1, NoActivityIsOne
<1>3. asked' \in BOOLEAN /\ moved' \in BOOLEAN
  BY <1>1, Zenon
<1>4. interrupted' \in BOOLEAN
  BY <1>1 DEF Records
<1> QED
  BY <1>1, <1>2, <1>3, <1>4 DEF TypeOK, Activities

LEMMA ReaderTypes ==
  ASSUME TypeOK,
         \/ \E b \in Books : GoToReader(b)
         \/ \E p \in Pos : TurnPage(p) \/ FollowLink(p)
         \/ RestoreSavedPosition \/ SaveProgress \/ CloseReader \/ OpenFails
  PROVE  TypeOK'
<1> USE DEF Activities, card, reading, ghosts
<1>1. CASE \E b \in Books : GoToReader(b)
  <2>1. PICK b \in Books : GoToReader(b)
    BY <1>1
  <2>2. screen' = "opening" /\ book' \in Books /\ act' = act /\ act.state = "NONE"
    BY <2>1 DEF GoToReader, TypeOK
  <2> QED
    BY <2>1, <2>2 DEF GoToReader, TypeOK
<1>2. CASE \E p \in Pos : TurnPage(p) \/ FollowLink(p)
  <2>1. PICK p \in Pos : TurnPage(p) \/ FollowLink(p)
    BY <1>2
  <2>2. moved' \in BOOLEAN
    BY <2>1, Zenon DEF TurnPage, FollowLink, TypeOK
  <2> QED
    BY <2>1, <2>2 DEF TurnPage, FollowLink, TypeOK
<1>3. CASE RestoreSavedPosition
  BY <1>3 DEF RestoreSavedPosition, TypeOK
<1>4. CASE SaveProgress
  BY <1>4 DEF SaveProgress, TypeOK
<1>5. CASE CloseReader
  <2>1. /\ screen' = "home" /\ book' = NoBook /\ act' = act /\ act.state = "NONE"
        /\ at' = 0 /\ moved' = FALSE /\ origin' = NoPos
        /\ UNCHANGED <<settings, remote, others, interrupted, restarts, asked, seen>>
    BY <1>5 DEF CloseReader, NotReading, TypeOK
  <2>2. moved' \in BOOLEAN
    BY <2>1, Zenon
  <2>3. /\ sync' \in Records /\ syncSaved' \in Records /\ faults' \in 0 .. MaxFaults
        /\ progress' \in [Books -> Pos \cup {NoPos}] /\ due' \in [Books -> Pos \cup {NoPos}]
    BY <1>5, LeftTypes DEF CloseReader
  <2> QED
    BY <2>1, <2>2, <2>3 DEF TypeOK
<1>6. CASE OpenFails
  <2>1. faults' \in 0 .. MaxFaults /\ act.state = "NONE"
    BY <1>6, Faults DEF OpenFails, TypeOK
  <2>2. interrupted' \in BOOLEAN
    BY <1>6 DEF OpenFails, TypeOK, Records
  <2> QED
    BY <1>6, <2>1, <2>2 DEF OpenFails, TypeOK
<1> QED
  BY <1>1, <1>2, <1>3, <1>4, <1>5, <1>6

LEMMA ResumedTypes == ASSUME TypeOK, ResumeAfterMemoryRecovery PROVE TypeOK'
<1> USE DEF ResumeAfterMemoryRecovery
<1>1. /\ screen = "restarting" /\ act.state = "NONE" /\ act \in Activities /\ book \in Books
      /\ syncSaved \in Records /\ sync' = syncSaved /\ TRUE \in BOOLEAN
  BY DEF TypeOK, Activities
<1>2. UNCHANGED <<settings, card, remote, reading, faults, others, ghosts>>
  BY Zenon
<1>3. CASE CanResume(syncSaved)
  <2>1. screen' = "sync" /\ act' = Activity(syncSaved, TRUE) /\ book' = book
    BY <1>3
  <2>2. act' \in Activities /\ act'.state = "WIFI"
    BY <1>1, <2>1, ActivityIsOne
  <2> QED
    BY <1>1, <1>2, <2>1, <2>2 DEF TypeOK, Activities, card, reading, ghosts
<1>4. CASE ~CanResume(syncSaved)
  <2>1. screen' = "home" /\ act' = act /\ book' = NoBook
    BY <1>4
  <2> QED
    BY <1>1, <1>2, <2>1 DEF TypeOK, Activities, card, reading, ghosts
<1> QED
  BY <1>3, <1>4

(* Sleep leaves the reader or the sync and saves the state.                  *)
LEMMA Slept ==
  ASSUME TypeOK, Sleep
  PROVE  /\ screen \in {"reader", "sync"} /\ Reset
         /\ sync' = sync /\ syncSaved' \in {syncSaved, sync} /\ faults' \in 0 .. MaxFaults
         /\ \/ progress' = progress /\ due' = due
            \/ /\ screen = "reader" /\ origin # NoPos
               /\ progress' = [progress EXCEPT ![book] = origin]
               /\ due' = [due EXCEPT ![book] = origin]
<1>1. screen \in {"reader", "sync"} /\ Reset /\ sync \in Records
  BY DEF Sleep, TypeOK
<1>2. CASE screen = "reader"
  BY <1>1, <1>2, Left DEF Sleep
<1>3. CASE screen # "reader"
  <2>1. UNCHANGED <<sync, progress, due>> /\ SaveState
    BY <1>3 DEF Sleep
  <2> QED
    BY <1>1, <1>3, <2>1, Saved
<1> QED
  BY <1>2, <1>3

LEMMA PowerTypes == ASSUME TypeOK, Sleep \/ PowerCut PROVE TypeOK'
<1>1. /\ sync \in Records /\ syncSaved \in Records /\ (screen \in {"reader", "sync"} => book \in Books)
      /\ progress \in [Books -> Pos \cup {NoPos}] /\ due \in [Books -> Pos \cup {NoPos}]
      /\ origin \in Pos \cup {NoPos}
  BY DEF TypeOK
<1>2. CASE Sleep
  <2>1. screen \in {"reader", "sync"} /\ Reset
    BY <1>2, Slept
  <2>2. sync' \in Records /\ syncSaved' \in Records /\ faults' \in 0 .. MaxFaults
    BY <1>1, <1>2, Slept
  <2>3. \/ progress' = progress /\ due' = due
        \/ /\ screen = "reader" /\ origin # NoPos
           /\ progress' = [progress EXCEPT ![book] = origin]
           /\ due' = [due EXCEPT ![book] = origin]
    BY <1>2, Slept
  <2>4. progress' \in [Books -> Pos \cup {NoPos}] /\ due' \in [Books -> Pos \cup {NoPos}]
    BY <1>1, <2>1, <2>3
  <2> QED
    BY <2>1, <2>2, <2>4, ResetTypes
<1>3. CASE PowerCut
  <2>1. sync' = syncSaved /\ syncSaved' = syncSaved /\ progress' = progress /\ Reset /\ Fault
    BY <1>3 DEF PowerCut, card
  <2>2. due' = [b \in Books |->
                  IF sync # syncSaved /\ b \in {sync.book, syncSaved.book} THEN NoPos ELSE due[b]]
    BY <1>3 DEF PowerCut
  <2>3. due' \in [Books -> Pos \cup {NoPos}]
    BY <1>1, <2>2
  <2> QED
    BY <1>1, <2>1, <2>3, Faults, ResetTypes
<1> QED
  BY <1>2, <1>3

LEMMA OtherTypes == ASSUME TypeOK, NEW b \in Books, NEW p \in Pos, OtherDevice(b, p) PROVE TypeOK'
<1>1. others' \in 0 .. MaxOthers /\ remote' \in [Books -> Pos \cup {NoPos}]
  BY DEF OtherDevice, TypeOK
<1> QED
  BY <1>1 DEF OtherDevice, TypeOK, card, reading, ghosts

LEMMA TypeStep == ASSUME TypeOK, Shown, Next PROVE TypeOK'
<1>1. ASSUME DeviceStep PROVE TypeOK'
  <2>1. CASE AutoPullOnOpen \/ OpenReader \/ ResumeAfterMemoryRecovery
    BY <2>1, PullTypes, OpenTypes, ResumedTypes
  <2>2. CASE \/ FetchLowMemory \/ FetchBeforePush \/ FetchForAutoPull \/ FetchForSmartSync
             \/ FetchToCompare \/ UploadLowMemory
    <3>1. act.state # "NONE"
      BY <2>2 DEF FetchLowMemory, FetchBeforePush, FetchForAutoPull, FetchForSmartSync,
                  FetchToCompare, UploadLowMemory
    <3> QED
      BY <2>2, <3>1, FetchTypes
  <2>3. CASE \/ Connect \/ NoConnection \/ NoSavedNetwork \/ SyncFails
             \/ UploadWorks \/ UploadFails \/ UploadIsShown
    <3>1. act.state # "NONE"
      BY <2>3 DEF Connect, NoConnection, NoSavedNetwork, ShowNetworks, SyncFails, UploadWorks,
                  UploadFails, UploadIsShown
    <3> QED
      BY <2>3, <3>1, ActivityTypes DEF NoSavedNetwork
  <2> QED
    BY <1>1, <2>1, <2>2, <2>3 DEF DeviceStep
<1>2. ASSUME UserStep PROVE TypeOK'
  <2>1. CASE \/ \E b \in Books : GoToReader(b)
             \/ \E p \in Pos : TurnPage(p) \/ FollowLink(p)
             \/ RestoreSavedPosition \/ CloseReader
    BY <2>1, ReaderTypes
  <2>2. CASE SyncFromMenu \/ AutoPushOnClose
    <3>1. "COMPARE" \in Intents /\ "AUTO_PUSH" \in Intents
      BY DEF Intents, Automatic
    <3> QED
      BY <2>2, <3>1, LaunchTypes DEF SyncFromMenu, AutoPushOnClose
  <2>3. CASE \/ ShowNetworks \/ UseNetworkList
             \/ ApplyRemoteFromChooser \/ UploadFromChooser \/ CloseCancelled \/ DismissFailure
    <3>1. act.state # "NONE"
      BY <2>3 DEF ShowNetworks, UseNetworkList, ApplyRemoteFromChooser, UploadFromChooser,
                  CloseCancelled, DismissFailure
    <3> QED
      BY <2>3, <3>1, ActivityTypes
  <2>4. CASE Sleep
    BY <2>4, PowerTypes
  <2> QED
    BY <1>2, <2>1, <2>2, <2>3, <2>4 DEF UserStep
<1>3. ASSUME OpenFails \/ SaveProgress PROVE TypeOK'
  BY <1>3, ReaderTypes
<1>4. ASSUME \E b \in Books, p \in Pos : OtherDevice(b, p) PROVE TypeOK'
  BY <1>4, OtherTypes
<1> QED
  BY <1>1, <1>2, <1>3, <1>4, PowerTypes DEF Next
-------------------------------------------------------------------------------
(* The rest of the invariant, group by group of the actions.               *)

Rest == Shown /\ Handoffs /\ OneRestart /\ Decisions /\ DueIsWhere

(* Another state is shown, and an upload starts only when it is decided.     *)
LEMMA ShowKeeps ==
  ASSUME IInv, act.state \notin {"NONE", "UPLOAD_COMPLETE"},
         NEW s \in {"WIFI", "WIFI_LIST", "SYNCING", "SYNC_FAILED", "UPLOADING"}, Show(s),
         UNCHANGED <<sync, progress, screen, book, due, interrupted, restarts>>,
         (s = "UPLOADING" \/ act.intent = "PUSH_LOCAL") => asked' \/ seen' <= act.pos
  PROVE  Rest'
<1>1. screen = "sync" /\ book \in Books
  BY DEF IInv, TypeOK
<1>2. /\ act'.state = s /\ act'.intent = act.intent /\ act'.pos = act.pos
      /\ act'.recovered = act.recovered /\ screen' = "sync"
  BY <1>1 DEF IInv, TypeOK, Show
<1>3. Shown'
  BY <1>2 DEF Shown
<1>4. Handoffs'
  BY <1>1, <1>2 DEF IInv, Handoffs
<1>5. OneRestart'
  BY <1>1, <1>2 DEF IInv, OneRestart
<1>6. Decisions'
  BY <1>2 DEF Decisions, Decided
<1>7. DueIsWhere'
  BY <1>1, <1>2 DEF IInv, DueIsWhere, Where, Applies, Keeps, Restored
<1> QED
  BY <1>3, <1>4, <1>5, <1>6, <1>7 DEF Rest

(* The activity ends with an outcome: the record says where the book opens.   *)
LEMMA ResumeKeeps ==
  ASSUME IInv, act.state # "NONE",
         NEW o \in {"CANCELLED", "FAILED", "UPLOAD_COMPLETE", "APPLIED_REMOTE"}, NEW p \in Pos,
         ResumeReader(o, p),
         act.state = "UPLOAD_COMPLETE" => o = "UPLOAD_COMPLETE",
         o = "APPLIED_REMOTE" => act.intent # "AUTO_PUSH"
  PROVE  Rest'
<1> DEFINE done == Done(sync, o, p)
<1>1. TypeOK /\ o \in Outcomes /\ sync \in Records
  BY DEF IInv, TypeOK, Outcomes
<1>2. /\ screen = "sync" /\ book \in Books /\ act' = NoActivity
      /\ act.intent = "AUTO_PUSH" => sync' = Cleared /\ screen' = "home"
      /\ act.intent # "AUTO_PUSH" => sync' = done /\ screen' = "opening" /\ book' = book
      /\ due' = IF o = "APPLIED_REMOTE" THEN [due EXCEPT ![book] = p] ELSE due
      /\ restarts' = 0 /\ progress' = progress /\ interrupted' = interrupted
  BY <1>1, Resumed
<1>3. /\ done.active = sync.active /\ done.book = sync.book /\ done.pos = sync.pos
      /\ done.intent = sync.intent /\ done.outcome = o /\ done.result = p
  BY <1>1, DoneIsRecord
<1> HIDE DEF done
<1>4. act'.state = "NONE" /\ ~Cleared.active
  BY <1>2, NoActivityIsOne, ClearedIsRecord
<1>5. /\ sync.active /\ sync.book = book
      /\ (act.intent = "AUTO_PULL") <=> (sync.intent = "AUTO_PULL")
      /\ act.state # "UPLOAD_COMPLETE" => sync.outcome = "PENDING"
  BY <1>2 DEF IInv, Handoffs
<1>6. Shown' /\ OneRestart' /\ Decisions'
  BY <1>2, <1>4 DEF Shown, OneRestart, Decisions
<1>7. Handoffs'
  BY <1>2, <1>3, <1>4, <1>5 DEF Handoffs
<1>8. ASSUME NEW b \in Books, due'[b] # NoPos PROVE due'[b] = Where(b)'
  <2>1. /\ due[b] # NoPos => due[b] = Where(b)
        /\ due[book] # NoPos => progress[book] = due[book]
    BY <1>2 DEF IInv, DueIsWhere
  <2>2. CASE act.intent = "AUTO_PUSH"
    <3>1. Where(b)' = progress[b] /\ due' = due
      BY <1>2, <1>4, <2>2 DEF Where, Applies
    <3> QED
      BY <1>5, <1>8, <2>1, <3>1 DEF Where, Applies
  <2>3. CASE act.intent # "AUTO_PUSH" /\ b # book
    <3>1. Where(b)' = progress[b] /\ Where(b) = progress[b]
      BY <1>2, <1>3, <1>5, <2>3 DEF Where, Applies
    <3>2. due'[b] = due[b]
      BY <1>2, <2>3 DEF IInv, TypeOK
    <3> QED
      BY <1>8, <2>1, <3>1, <3>2
  <2>4. CASE act.intent # "AUTO_PUSH" /\ b = book /\ o = "APPLIED_REMOTE"
    <3>1. due'[b] = p
      BY <1>2, <2>4 DEF IInv, TypeOK
    <3>2. Where(b)' = p
      BY <1>2, <1>3, <1>5, <2>4 DEF Where, Applies, Keeps, Restored
    <3> QED
      BY <3>1, <3>2
  <2>5. CASE act.intent # "AUTO_PUSH" /\ b = book /\ o # "APPLIED_REMOTE"
    <3>1. due' = due
      BY <1>2, <2>5
    <3>2. Where(b)' = IF o = "UPLOAD_COMPLETE" \/ sync.intent = "AUTO_PULL"
                      THEN progress[b] ELSE sync.pos
      BY <1>2, <1>3, <1>5, <2>5 DEF Where, Applies, Keeps, Restored
    <3>3. (o # "UPLOAD_COMPLETE" /\ sync.intent # "AUTO_PULL") => Where(b) = sync.pos
      BY <1>5, <2>5 DEF Where, Applies, Keeps, Restored
    <3> QED
      BY <1>8, <2>1, <2>5, <3>1, <3>2, <3>3
  <2> QED
    BY <2>2, <2>3, <2>4, <2>5
<1>9. DueIsWhere'
  BY <1>2, <1>8 DEF DueIsWhere
<1> QED
  BY <1>6, <1>7, <1>9 DEF Rest

(* A restart for want of memory keeps the decision to upload in the record.  *)
LEMMA RecoverKeeps ==
  ASSUME IInv, act.state # "NONE", NEW i \in {act.intent, "PUSH_LOCAL"},
         RecoverFromLowMemory(i), act.state = "UPLOADING" \/ i = act.intent
  PROVE  Rest'
<1>1. TypeOK /\ i \in Intents \ Automatic
  BY DEF IInv, TypeOK, RecoverFromLowMemory, Intents, Automatic
<1>2. /\ screen = "sync" /\ book \in Books /\ book' = book
      /\ ~act.recovered /\ act.intent \notin Automatic /\ CanResume(sync)
      /\ sync'.active = sync.active /\ sync'.book = sync.book /\ sync'.pos = sync.pos
      /\ sync'.outcome = sync.outcome /\ sync'.result = sync.result
      /\ sync'.intent \notin Automatic /\ sync' \in Records
      /\ UNCHANGED <<progress, due, interrupted, asked, seen>>
  BY <1>1, Recovered
<1>3. CanResume(sync') /\ sync.outcome = "PENDING" /\ sync.intent \notin Automatic
  BY <1>2 DEF CanResume
<1>4. i = "PUSH_LOCAL" => Decided(act.pos)
  BY <1>2 DEF IInv, Decisions
<1>5. sync.active /\ sync.book = book /\ act.pos = sync.pos
  BY <1>2 DEF IInv, Handoffs
<1>6. restarts = 0
  BY <1>2 DEF IInv, OneRestart
<1>7. DueIsWhere'
  <2>1. screen' \in {"sync", "restarting"} => (due[book] # NoPos => progress[book] = due[book])
    BY <1>2 DEF IInv, DueIsWhere
  <2>2. ASSUME NEW b \in Books PROVE Where(b)' = Where(b)
    <3>1. Keeps(sync') = Keeps(sync)
      BY <1>2, <1>3 DEF Keeps, Automatic
    <3>2. Applies(sync', b) <=> Applies(sync, b)
      BY <1>2, <3>1 DEF Applies
    <3>3. Restored' = Restored
      BY <1>2 DEF Restored
    <3> QED
      BY <1>2, <3>2, <3>3 DEF Where
  <2> QED
    BY <1>2, <2>1, <2>2 DEF IInv, DueIsWhere
<1>8. CASE /\ screen' = "restarting" /\ act' = NoActivity /\ syncSaved' = sync'
           /\ sync'.intent = i
           /\ restarts' = IF restarts < 2 THEN restarts + 1 ELSE 2
  <2>1. act'.state = "NONE"
    BY <1>8, NoActivityIsOne
  <2>2. Shown' /\ OneRestart'
    BY <1>6, <1>8, <2>1 DEF Shown, OneRestart
  <2>3. Handoffs'
    BY <1>2, <1>3, <1>5, <1>8 DEF Handoffs
  <2>4. Decisions'
    BY <1>2, <1>4, <1>5, <1>8 DEF Decisions, Decided
  <2> QED
    BY <1>7, <2>2, <2>3, <2>4 DEF Rest
<1>9. CASE /\ act' = [act EXCEPT !.state = "SYNC_FAILED", !.recovered = TRUE]
           /\ UNCHANGED <<screen, restarts>>
  <2>1. /\ act'.state = "SYNC_FAILED" /\ act'.intent = act.intent /\ act'.pos = act.pos
    BY <1>1, <1>9 DEF TypeOK
  <2>2. Shown' /\ OneRestart'
    BY <1>6, <1>9, <2>1 DEF Shown, OneRestart
  <2>3. Handoffs'
    BY <1>2, <1>3, <1>5, <1>9, <2>1 DEF Handoffs, Automatic
  <2>4. Decisions'
    BY <1>2, <1>9, <2>1 DEF IInv, Decisions, Decided
  <2> QED
    BY <1>7, <2>2, <2>3, <2>4 DEF Rest
<1> QED
  BY <1>1, <1>8, <1>9, Recovered

LEMMA FetchKeeps ==
  ASSUME IInv,
         \/ FetchLowMemory \/ FetchBeforePush \/ FetchForAutoPull \/ FetchForSmartSync
         \/ FetchToCompare \/ UploadLowMemory
  PROVE  Rest'
<1>1. act.state \in {"SYNCING", "UPLOADING"}
  BY DEF FetchLowMemory, FetchBeforePush, FetchForAutoPull, FetchForSmartSync, FetchToCompare,
         UploadLowMemory
<1>2. /\ Found \in Pos \cup {NoPos} /\ (HasRemote => Found \in Pos)
      /\ (RemoteAhead => Found \in Pos) /\ act.pos \in Pos /\ 0 \in Pos
      /\ screen = "sync" /\ book \in Books
  BY <1>1 DEF IInv, TypeOK, Found, HasRemote, RemoteAhead
<1>3. act.state = "UPLOADING" \/ act.intent = "PUSH_LOCAL" => asked \/ seen <= act.pos
  BY <1>2 DEF IInv, Decisions, Decided
<1>4. ASSUME CannotRecover PROVE Rest'
  BY <1>1, <1>3, <1>4, ShowKeeps DEF CannotRecover, Elsewhere, card, ghosts
<1>5. ASSUME Upload, Found <= act.pos PROVE Rest'
  BY <1>1, <1>5, ShowKeeps DEF Upload, card
<1>6. ASSUME NEW s \in {"SHOWING_RESULT", "NO_REMOTE_PROGRESS"}, Offer(s), act.intent = "COMPARE",
             s = "SHOWING_RESULT" => HasRemote
      PROVE  Rest'
  <2>1. /\ act'.state = s /\ act'.intent = act.intent /\ act'.pos = act.pos
        /\ act'.recovered = act.recovered /\ act'.found = Found
    BY <1>6 DEF Offer, IInv, TypeOK
  <2>2. UNCHANGED <<sync, progress, screen, book, due, interrupted, restarts>>
    BY <1>6 DEF Offer, Elsewhere, card, ghosts
  <2>3. Shown'
    BY <1>2, <1>6, <2>1 DEF Shown
  <2>4. Handoffs'
    BY <1>1, <1>2, <1>6, <2>1, <2>2 DEF IInv, Handoffs
  <2>5. OneRestart' /\ Decisions'
    BY <1>2, <1>6, <2>1, <2>2 DEF IInv, OneRestart, Decisions
  <2>6. DueIsWhere'
    BY <1>2, <2>2 DEF IInv, DueIsWhere, Where, Applies, Keeps, Restored
  <2> QED
    BY <2>3, <2>4, <2>5, <2>6 DEF Rest
<1>7. CASE FetchLowMemory
  BY <1>1, <1>4, <1>7, RecoverKeeps DEF FetchLowMemory
<1>8. CASE UploadLowMemory
  BY <1>1, <1>4, <1>8, RecoverKeeps DEF UploadLowMemory
<1>9. CASE FetchBeforePush
  <2>1. CASE SkipAutoPush
    BY <1>1, <1>2, <1>9, <2>1, ResumeKeeps DEF FetchBeforePush
  <2>2. CASE ~SkipAutoPush /\ act.intent = "AUTO_PUSH"
    <3>1. Found <= act.pos
      BY <1>2, <2>2 DEF SkipAutoPush, RemoteAhead
    <3> QED
      BY <1>5, <1>9, <2>2, <3>1 DEF FetchBeforePush
  <2>3. CASE ~SkipAutoPush /\ act.intent # "AUTO_PUSH"
    <3>1. act.intent = "PUSH_LOCAL" /\ Show("UPLOADING") /\ UNCHANGED Elsewhere
      BY <1>9, <2>3 DEF FetchBeforePush
    <3> QED
      BY <1>1, <1>3, <3>1, ShowKeeps DEF Elsewhere, card, ghosts
  <2> QED
    BY <2>1, <2>2, <2>3
<1>10. CASE FetchForAutoPull
  BY <1>1, <1>2, <1>10, ResumeKeeps DEF FetchForAutoPull
<1>11. CASE FetchForSmartSync
  <2>1. act.intent = "COMPARE"
    BY <1>11 DEF FetchForSmartSync
  <2>2. \/ HasRemote /\ Offer("SHOWING_RESULT")
        \/ Upload /\ (~HasRemote \/ (HasRemote /\ Found < act.pos))
        \/ ResumeReader("UPLOAD_COMPLETE", 0)
        \/ RemoteAhead /\ ResumeReader("APPLIED_REMOTE", Found)
    BY <1>11 DEF FetchForSmartSync
  <2>3. ~HasRemote \/ Found < act.pos => Found <= act.pos
    BY <1>2 DEF HasRemote
  <2> QED
    BY <1>1, <1>2, <1>5, <1>6, <2>1, <2>2, <2>3, ResumeKeeps
<1>12. CASE FetchToCompare
  BY <1>6, <1>12 DEF FetchToCompare
<1> QED
  BY <1>7, <1>8, <1>9, <1>10, <1>11, <1>12

(* The server took the position: the progress file has it already.           *)
LEMMA UploadKeeps == ASSUME IInv, UploadWorks PROVE Rest'
<1>1. /\ act.state = "UPLOADING" /\ screen = "sync" /\ book \in Books /\ sync \in Records
      /\ act.pos \in Pos
  BY DEF UploadWorks, IInv, TypeOK
<1>2. /\ sync.active /\ sync.book = book /\ act.pos = sync.pos
      /\ (act.intent = "AUTO_PULL") <=> (sync.intent = "AUTO_PULL")
  BY <1>1 DEF IInv, Handoffs
<1>3. /\ restarts' = 0 /\ asked' = FALSE /\ seen' = NoPos
      /\ UNCHANGED <<progress, due, interrupted>>
  BY DEF UploadWorks, ForgetSync
<1> DEFINE complete == [sync EXCEPT !.outcome = "UPLOAD_COMPLETE"]
<1>4. /\ complete.outcome = "UPLOAD_COMPLETE" /\ complete.active = sync.active
      /\ complete.book = sync.book /\ complete.pos = sync.pos /\ complete.intent = sync.intent
  BY <1>1 DEF Records
<1> HIDE DEF complete
<1>5. /\ \A b \in Books : due[b] # NoPos => due[b] = Where(b)
      /\ due[book] # NoPos => progress[book] = due[book]
  BY <1>1 DEF IInv, DueIsWhere
<1>6. ASSUME NEW b \in Books, due[b] # NoPos PROVE due[b] = progress[b]
  <2>1. b # book => Where(b) = progress[b]
    BY <1>2 DEF Where, Applies
  <2> QED
    BY <1>5, <1>6, <2>1
<1>7. ASSUME NEW b \in Books, ~Applies(sync', b) PROVE Where(b)' = progress[b]
  BY <1>3, <1>7 DEF Where
<1>8. CASE act.intent = "AUTO_PUSH"
  <2>1. sync' = Cleared /\ act' = NoActivity /\ screen' = "home"
    BY <1>8 DEF UploadWorks
  <2>2. act'.state = "NONE" /\ ~sync'.active
    BY <2>1, NoActivityIsOne, ClearedIsRecord
  <2>3. Shown' /\ OneRestart' /\ Decisions'
    BY <1>3, <2>1, <2>2 DEF Shown, OneRestart, Decisions
  <2>4. Handoffs'
    BY <2>1, <2>2 DEF Handoffs
  <2>5. DueIsWhere'
    BY <1>3, <1>6, <1>7, <2>1, <2>2 DEF DueIsWhere, Applies
  <2> QED
    BY <2>3, <2>4, <2>5 DEF Rest
<1>9. CASE act.intent # "AUTO_PUSH"
  <2>1. sync' = complete /\ Show("UPLOAD_COMPLETE") /\ UNCHANGED <<screen, book>>
    BY <1>9, Zenon DEF UploadWorks, complete
  <2>2. /\ act'.state = "UPLOAD_COMPLETE" /\ act'.intent = act.intent /\ act'.pos = act.pos
    BY <2>1 DEF Show, IInv, TypeOK
  <2>3. Shown' /\ OneRestart'
    BY <1>3, <2>2 DEF Shown, OneRestart
  <2>4. Decisions'
    BY <1>1, <1>3, <2>1, <2>2 DEF Decisions, Decided
  <2>5. Handoffs'
    BY <1>1, <1>2, <1>4, <2>1, <2>2 DEF Handoffs
  <2>6. \A b \in Books : ~Applies(sync', b)
    BY <1>4, <2>1 DEF Applies, Keeps
  <2>7. DueIsWhere'
    BY <1>1, <1>3, <1>5, <1>6, <1>7, <2>1, <2>6 DEF DueIsWhere
  <2> QED
    BY <2>3, <2>4, <2>5, <2>7 DEF Rest
<1> QED
  BY <1>8, <1>9

LEMMA ActivityKeeps ==
  ASSUME IInv,
         \/ Connect \/ NoConnection \/ ShowNetworks \/ UseNetworkList \/ SyncFails
         \/ UploadFails
         \/ ApplyRemoteFromChooser \/ UploadFromChooser \/ CloseCancelled \/ DismissFailure
         \/ UploadIsShown
  PROVE  Rest'
<1>1. /\ act.state # "NONE" => screen = "sync" /\ act.pos \in Pos
      /\ 0 \in Pos
  BY DEF IInv, TypeOK
<1>2. screen = "sync" /\ act.intent = "PUSH_LOCAL" => asked \/ seen <= act.pos
  BY DEF IInv, Decisions, Decided
<1>3. ASSUME act.state \in {"WIFI", "WIFI_LIST"}, Join PROVE Rest'
  BY <1>1, <1>2, <1>3, ShowKeeps DEF Join, ghosts
<1>4. CASE NoConnection \/ CloseCancelled \/ DismissFailure \/ UploadIsShown
  BY <1>1, <1>4, ResumeKeeps DEF NoConnection, CloseCancelled, DismissFailure, UploadIsShown
<1>5. CASE SyncFails
  BY <1>1, <1>2, <1>5, ShowKeeps DEF SyncFails, Elsewhere, card, ghosts
<1>6. CASE UploadFails
  BY <1>1, <1>2, <1>6, ShowKeeps DEF UploadFails, card, ghosts
<1>7. CASE ApplyRemoteFromChooser
  <2>1. act.state = "SHOWING_RESULT" /\ act.found \in Pos /\ act.intent = "COMPARE"
    BY <1>7 DEF ApplyRemoteFromChooser, IInv, Shown
  <2> QED
    BY <1>1, <1>2, <1>7, <2>1, ResumeKeeps, ShowKeeps
       DEF ApplyRemoteFromChooser, Elsewhere, card, ghosts
<1>8. CASE UploadFromChooser
  BY <1>1, <1>8, ShowKeeps DEF UploadFromChooser, card
<1>9. CASE Connect
  BY <1>3, <1>9 DEF Connect
<1>10. CASE ShowNetworks
  BY <1>1, <1>2, <1>10, ShowKeeps DEF ShowNetworks, Elsewhere, card, ghosts
<1>11. CASE UseNetworkList
  <2>1. CASE Show("WIFI") /\ UNCHANGED Elsewhere
    BY <1>1, <1>2, <1>11, <2>1, ShowKeeps DEF UseNetworkList, Elsewhere, card, ghosts
  <2>2. CASE ResumeReader("CANCELLED", 0)
    BY <1>1, <1>11, <2>2, ResumeKeeps DEF UseNetworkList
  <2> QED
    BY <1>3, <1>11, <2>1, <2>2 DEF UseNetworkList
<1> QED
  BY <1>3, <1>4, <1>5, <1>6, <1>7, <1>8, <1>9, <1>10, <1>11

(* Outside of a sync only the handoffs and the places matter.                *)
LEMMA NoSyncRest ==
  ASSUME TypeOK', OneRestart, screen' \notin {"sync", "restarting"}, restarts' \in {restarts, 0},
         Handoffs', \A b \in Books : due'[b] # NoPos => due'[b] = Where(b)'
  PROVE  Rest'
<1>1. act'.state = "NONE"
  BY DEF TypeOK
<1> QED
  BY <1>1 DEF Rest, Shown, OneRestart, Decisions, DueIsWhere

LEMMA ReaderKeeps ==
  ASSUME IInv, TypeOK',
         \/ \E b \in Books : GoToReader(b)
         \/ \E p \in Pos : TurnPage(p) \/ FollowLink(p)
         \/ RestoreSavedPosition \/ OpenFails
  PROVE  Rest'
<1>1. /\ UNCHANGED <<sync, progress, due, restarts>> /\ screen' \in {"home", "opening", "reader"}
      /\ \/ screen = "home" /\ screen' = "opening" /\ interrupted' = interrupted
         \/ screen' = "reader" /\ UNCHANGED <<screen, book, interrupted>>
         \/ screen' = "home" /\ interrupted' = sync.active
  BY DEF GoToReader, TurnPage, FollowLink, RestoreSavedPosition, OpenFails, card, ghosts
<1>2. Handoffs'
  BY <1>1 DEF IInv, Handoffs, Mine
<1>3. \A b \in Books : due'[b] # NoPos => due'[b] = Where(b)'
  BY <1>1 DEF IInv, DueIsWhere, Where, Restored
<1> QED
  BY <1>1, <1>2, <1>3, NoSyncRest DEF IInv

LEMMA SaveKeeps == ASSUME IInv, TypeOK', SaveProgress PROVE Rest'
<1>1. /\ screen = "reader" /\ book \in Books
      /\ progress \in [Books -> Pos \cup {NoPos}] /\ due \in [Books -> Pos \cup {NoPos}]
  BY DEF IInv, TypeOK, SaveProgress
<1>2. /\ progress' = [progress EXCEPT ![book] = at]
      /\ due' = [due EXCEPT ![book] = IF origin = NoPos THEN at ELSE NoPos]
      /\ UNCHANGED <<sync, screen, book, interrupted, restarts>>
  BY DEF SaveProgress
<1>3. Handoffs' /\ ~Mine
  BY <1>1, <1>2 DEF IInv, Handoffs, Mine
<1>4. ASSUME NEW b \in Books, due'[b] # NoPos PROVE due'[b] = Where(b)'
  <2>1. CASE b = book
    BY <1>1, <1>2, <1>3, <1>4, <2>1 DEF Where, Applies, Mine
  <2>2. CASE b # book
    BY <1>1, <1>2, <1>4, <2>2 DEF IInv, DueIsWhere, Where, Restored
  <2> QED
    BY <2>1, <2>2
<1> QED
  BY <1>1, <1>2, <1>3, <1>4, NoSyncRest DEF IInv

(* The opened book has its place in the progress file, and no record is its.  *)
LEMMA OpenKeeps == ASSUME IInv, TypeOK', OpenReader PROVE Rest'
<1>1. /\ screen = "opening" /\ book \in Books
      /\ progress \in [Books -> Pos \cup {NoPos}] /\ due \in [Books -> Pos \cup {NoPos}]
      /\ TypeOK
  BY Opened DEF IInv, TypeOK
<1>2. /\ screen' = "reader" /\ book' = book /\ due' = [due EXCEPT ![book] = progress'[book]]
      /\ IF Mine THEN sync' = Cleared ELSE sync' = sync
      /\ interrupted' = (interrupted /\ sync'.active) /\ restarts' = restarts
  BY <1>1, Opened
<1>3. progress' \in {progress, [progress EXCEPT ![book] = Restored]}
  BY <1>1, Opened
<1>4. ~Applies(sync', book) /\ ~(sync'.active /\ sync'.book = book)
  BY <1>2, ClearedIsRecord DEF Mine, Applies
<1>5. Handoffs'
  BY <1>1, <1>2, <1>4, ClearedIsRecord DEF IInv, Handoffs, Mine
<1>6. ASSUME NEW b \in Books, due'[b] # NoPos PROVE due'[b] = Where(b)'
  <2>1. CASE b = book
    BY <1>1, <1>2, <1>4, <2>1 DEF Where
  <2>2. CASE b # book
    <3>1. due'[b] = due[b] /\ progress'[b] = progress[b]
      BY <1>1, <1>2, <1>3, <2>2
    <3>2. due[b] = Where(b)
      BY <1>6, <3>1 DEF IInv, DueIsWhere
    <3>3. CASE Mine
      BY <1>2, <2>2, <3>1, <3>2, <3>3, ClearedIsRecord DEF Where, Applies, Mine
    <3>4. CASE ~Mine
      BY <1>2, <3>1, <3>2, <3>4 DEF Where, Restored
    <3> QED
      BY <3>3, <3>4
  <2> QED
    BY <2>1, <2>2
<1> QED
  BY <1>1, <1>2, <1>5, <1>6, NoSyncRest DEF IInv

(* A reader that is left has its place in the progress file.                 *)
LEMMA LeftIsDue ==
  ASSUME IInv, screen = "reader", LeaveReader
  PROVE  \A b \in Books : due'[b] # NoPos => due'[b] = Where(b)'
<1>1. /\ book \in Books /\ TypeOK
      /\ progress \in [Books -> Pos \cup {NoPos}] /\ due \in [Books -> Pos \cup {NoPos}]
  BY DEF IInv, TypeOK
<1>2. ~Mine /\ sync' = sync
  BY <1>1, Left DEF IInv, Handoffs
<1>3. \/ progress' = progress /\ due' = due
      \/ /\ progress' = [progress EXCEPT ![book] = origin]
         /\ due' = [due EXCEPT ![book] = origin]
  BY <1>1, Left
<1> SUFFICES ASSUME NEW b \in Books, due'[b] # NoPos PROVE due'[b] = Where(b)'
  OBVIOUS
<1>4. CASE progress'[b] = progress[b] /\ due'[b] = due[b]
  BY <1>2, <1>4 DEF IInv, DueIsWhere, Where, Restored
<1>5. CASE b = book /\ due'[b] = progress'[b]
  BY <1>2, <1>5 DEF Where, Applies, Mine
<1> QED
  BY <1>1, <1>3, <1>4, <1>5

LEMMA CloseKeeps == ASSUME IInv, TypeOK', CloseReader PROVE Rest'
<1>1. /\ screen = "reader" /\ LeaveReader /\ screen' = "home" /\ UNCHANGED <<interrupted, restarts>>
  BY DEF CloseReader
<1>2. sync' = sync
  BY <1>1, Left DEF IInv
<1>3. Handoffs'
  BY <1>1, <1>2 DEF IInv, Handoffs
<1> QED
  BY <1>1, <1>3, LeftIsDue, NoSyncRest DEF IInv

(* A pull starts where no record waits to be applied.                        *)
LEMMA PullKeeps == ASSUME IInv, AutoPullOnOpen PROVE Rest'
<1>1. /\ screen = "opening" /\ ~sync.active /\ book \in Books /\ 0 \in Pos
      /\ "AUTO_PULL" \in Intents /\ UNCHANGED <<progress, due, book>>
  BY DEF AutoPullOnOpen, AutoPulls, IInv, TypeOK, Intents, Automatic
<1>2. sync' = Handoff(book, 0, "AUTO_PULL") /\ StartSync
  BY DEF AutoPullOnOpen
<1>3. /\ sync' \in Records /\ sync'.active /\ sync'.book = book /\ sync'.pos = 0
      /\ sync'.intent = "AUTO_PULL" /\ sync'.outcome = "PENDING"
  BY <1>1, <1>2, HandoffIsRecord
<1>4. /\ screen' = "sync" /\ act'.state = "WIFI" /\ act'.intent = "AUTO_PULL" /\ act'.pos = 0
      /\ restarts' = 0
  BY <1>2, <1>3, Started
<1>5. Shown' /\ OneRestart' /\ Decisions'
  BY <1>4 DEF Shown, OneRestart, Decisions
<1>6. Handoffs'
  BY <1>1, <1>3, <1>4 DEF Handoffs
<1>7. \A b \in Books : Where(b) = progress[b] /\ Where(b)' = progress[b]
  BY <1>1, <1>3 DEF Where, Applies, Keeps
<1>8. DueIsWhere'
  BY <1>1, <1>7 DEF IInv, DueIsWhere
<1> QED
  BY <1>5, <1>6, <1>8 DEF Rest

(* The reader leaves the page on the screen to the record and the file.      *)
LEMMA LaunchKeeps ==
  ASSUME IInv, NEW intent \in {"COMPARE", "AUTO_PUSH"}, LaunchKOReaderSync(intent)
  PROVE  Rest'
<1>1. /\ screen = "reader" /\ book \in Books /\ at \in Pos /\ intent \in Intents
      /\ progress \in [Books -> Pos \cup {NoPos}]
  BY DEF LaunchKOReaderSync, IInv, TypeOK, Intents, Automatic
<1>2. sync' = Handoff(book, at, intent) /\ StartSync /\ book' = book
  BY DEF LaunchKOReaderSync
<1>3. /\ sync' \in Records /\ sync'.active /\ sync'.book = book /\ sync'.pos = at
      /\ sync'.intent = intent /\ sync'.outcome = "PENDING"
  BY <1>1, <1>2, HandoffIsRecord
<1>4. /\ screen' = "sync" /\ act'.state = "WIFI" /\ act'.intent = intent /\ act'.pos = at
      /\ restarts' = 0
  BY <1>2, <1>3, Started
<1>5. Shown' /\ OneRestart' /\ Decisions'
  BY <1>4 DEF Shown, OneRestart, Decisions
<1>6. Handoffs'
  BY <1>2, <1>3, <1>4 DEF Handoffs
<1>7. due' = [b \in Books |->
                IF b = book THEN IF origin = NoPos /\ progress'[b] = at THEN at ELSE NoPos
                ELSE IF sync.active /\ b = sync.book THEN NoPos ELSE due[b]]
  BY DEF LaunchKOReaderSync
<1>8. progress' \in {progress, [progress EXCEPT ![book] = at]}
  BY DEF LaunchKOReaderSync
<1>9. ASSUME NEW b \in Books, due'[b] # NoPos PROVE due'[b] = Where(b)'
  <2>1. CASE b = book
    BY <1>3, <1>7, <1>9, <2>1 DEF Where, Applies, Keeps, Restored
  <2>2. CASE b # book
    <3>1. due'[b] = due[b] /\ ~(sync.active /\ sync.book = b)
      BY <1>7, <1>9, <2>2
    <3>2. due[b] = progress[b]
      BY <1>9, <3>1 DEF IInv, DueIsWhere, Where, Applies
    <3>3. Where(b)' = progress'[b]
      BY <1>3, <2>2 DEF Where, Applies
    <3>4. progress'[b] = progress[b]
      BY <1>1, <1>8, <2>2
    <3> QED
      BY <3>1, <3>2, <3>3, <3>4
  <2> QED
    BY <2>1, <2>2
<1>10. due'[book] # NoPos => progress'[book] = due'[book]
  BY <1>1, <1>7
<1>11. DueIsWhere'
  BY <1>2, <1>9, <1>10 DEF DueIsWhere
<1> QED
  BY <1>5, <1>6, <1>11 DEF Rest

(* The device has come back into the sync it was restarted for.              *)
LEMMA ResumedKeeps == ASSUME IInv, ResumeAfterMemoryRecovery PROVE Rest'
<1>1. /\ screen = "restarting" /\ syncSaved = sync /\ sync \in Records /\ CanResume(sync)
      /\ TRUE \in BOOLEAN
  BY DEF ResumeAfterMemoryRecovery, IInv, TypeOK, Handoffs
<1>2. /\ sync' = sync /\ screen' = "sync" /\ act' = Activity(sync, TRUE)
      /\ UNCHANGED <<book, progress, due, interrupted, restarts, asked, seen>>
  BY <1>1 DEF ResumeAfterMemoryRecovery, card, ghosts
<1>3. /\ act'.state = "WIFI" /\ act'.intent = sync.intent /\ act'.pos = sync.pos
      /\ act'.recovered = TRUE
  BY <1>1, <1>2, ActivityIsOne
<1>4. Shown' /\ OneRestart'
  BY <1>2, <1>3 DEF IInv, Shown, OneRestart
<1>5. Decisions'
  BY <1>1, <1>2, <1>3 DEF IInv, Decisions, Decided
<1>6. Handoffs'
  BY <1>1, <1>2, <1>3 DEF IInv, Handoffs, CanResume
<1>7. DueIsWhere'
  BY <1>1, <1>2 DEF IInv, DueIsWhere, Where, Restored
<1> QED
  BY <1>4, <1>5, <1>6, <1>7 DEF Rest

(* What another device does is not seen before the next request.             *)
LEMMA OtherKeeps == ASSUME IInv, NEW b \in Books, NEW p \in Pos, OtherDevice(b, p) PROVE Rest'
<1>1. UNCHANGED <<sync, syncSaved, progress, screen, book, act, due, interrupted, restarts,
                  asked, seen>>
  BY DEF OtherDevice, card, ghosts
<1>2. Shown' /\ OneRestart' /\ Decisions'
  BY <1>1 DEF IInv, Shown, OneRestart, Decisions, Decided
<1>3. Handoffs'
  BY <1>1 DEF IInv, Handoffs, Mine
<1>4. DueIsWhere'
  BY <1>1 DEF IInv, DueIsWhere, Where, Restored
<1> QED
  BY <1>2, <1>3, <1>4 DEF Rest

LEMMA PowerKeeps == ASSUME IInv, TypeOK', Sleep \/ PowerCut PROVE Rest'
<1>1. Reset /\ TypeOK
  BY Slept DEF IInv, PowerCut
<1>2. screen' = "home" /\ interrupted' = sync'.active /\ restarts' = 0
  BY <1>1 DEF Reset, ForgetSync
<1>3. Handoffs'
  BY <1>2 DEF Handoffs
<1>4. ASSUME Sleep PROVE \A b \in Books : due'[b] # NoPos => due'[b] = Where(b)'
  <2>1. CASE screen = "reader"
    <3>1. LeaveReader
      BY <1>4, <2>1 DEF Sleep
    <3> QED
      BY <2>1, <3>1, LeftIsDue
  <2>2. CASE screen # "reader"
    <3>1. UNCHANGED <<sync, progress, due>>
      BY <1>4, <2>2 DEF Sleep
    <3> QED
      BY <3>1 DEF IInv, DueIsWhere, Where, Restored
  <2> QED
    BY <2>1, <2>2
<1>5. ASSUME PowerCut PROVE \A b \in Books : due'[b] # NoPos => due'[b] = Where(b)'
  <2>1. sync' = syncSaved /\ progress' = progress
    BY <1>5 DEF PowerCut, card
  <2>2. due' = [b \in Books |->
                  IF sync # syncSaved /\ b \in {sync.book, syncSaved.book} THEN NoPos ELSE due[b]]
    BY <1>5 DEF PowerCut
  <2> SUFFICES ASSUME NEW b \in Books, due'[b] # NoPos PROVE due'[b] = Where(b)'
    OBVIOUS
  <2>3. due'[b] = due[b] /\ (sync = syncSaved \/ b \notin {sync.book, syncSaved.book})
    BY <2>2
  <2>4. due[b] = Where(b)
    BY <2>3 DEF IInv, DueIsWhere
  <2>5. CASE sync = syncSaved
    BY <2>1, <2>3, <2>4, <2>5 DEF Where, Restored
  <2>6. CASE b \notin {sync.book, syncSaved.book}
    BY <2>1, <2>3, <2>4, <2>6 DEF Where, Applies
  <2> QED
    BY <2>3, <2>5, <2>6
<1> QED
  BY <1>2, <1>3, <1>4, <1>5, NoSyncRest DEF IInv
-------------------------------------------------------------------------------
(* The invariant and the theorems.                                         *)

LEMMA IInvInit == Init => IInv
<1> SUFFICES ASSUME Init PROVE IInv
  OBVIOUS
<1>1. TypeOK /\ ~Cleared.active /\ NoActivity.state = "NONE"
  BY TypeInit, ClearedIsRecord, NoActivityIsOne
<1>2. /\ sync = Cleared /\ act = NoActivity /\ screen = "home" /\ restarts = 0
      /\ due = [b \in Books |-> NoPos]
  BY DEF Init
<1>3. Shown /\ OneRestart /\ Decisions /\ Handoffs
  BY <1>1, <1>2 DEF Shown, OneRestart, Decisions, Handoffs
<1>4. DueIsWhere
  BY <1>2 DEF DueIsWhere
<1> QED
  BY <1>1, <1>3, <1>4 DEF IInv

LEMMA IInvStep == IInv /\ [Next]_vars => IInv'
<1> SUFFICES ASSUME IInv, [Next]_vars PROVE IInv'
  OBVIOUS
<1>1. CASE Next
  <2>1. TypeOK'
    BY <1>1, TypeStep DEF IInv
  <2>2. ASSUME DeviceStep PROVE Rest'
    <3>1. CASE AutoPullOnOpen \/ OpenReader \/ ResumeAfterMemoryRecovery
      BY <2>1, <3>1, PullKeeps, OpenKeeps, ResumedKeeps
    <3>2. CASE \/ FetchLowMemory \/ FetchBeforePush \/ FetchForAutoPull \/ FetchForSmartSync
               \/ FetchToCompare \/ UploadLowMemory
      BY <3>2, FetchKeeps
    <3>3. CASE \/ Connect \/ NoConnection \/ NoSavedNetwork \/ SyncFails
               \/ UploadFails \/ UploadIsShown
      BY <3>3, ActivityKeeps DEF NoSavedNetwork
    <3> QED
      BY <2>2, <3>1, <3>2, <3>3, UploadKeeps DEF DeviceStep
  <2>3. ASSUME UserStep PROVE Rest'
    <3>1. CASE \/ \E b \in Books : GoToReader(b)
               \/ \E p \in Pos : TurnPage(p) \/ FollowLink(p)
               \/ RestoreSavedPosition
      BY <2>1, <3>1, ReaderKeeps
    <3>2. CASE SyncFromMenu \/ AutoPushOnClose
      BY <3>2, LaunchKeeps DEF SyncFromMenu, AutoPushOnClose
    <3>3. CASE \/ ShowNetworks \/ UseNetworkList
               \/ ApplyRemoteFromChooser \/ UploadFromChooser \/ CloseCancelled \/ DismissFailure
      BY <3>3, ActivityKeeps
    <3> QED
      BY <2>1, <2>3, <3>1, <3>2, <3>3, CloseKeeps, PowerKeeps DEF UserStep
  <2>4. (OpenFails \/ SaveProgress \/ PowerCut) => Rest'
    BY <2>1, ReaderKeeps, SaveKeeps, PowerKeeps
  <2>5. (\E b \in Books, p \in Pos : OtherDevice(b, p)) => Rest'
    BY OtherKeeps
  <2>6. Rest'
    BY <1>1, <2>2, <2>3, <2>4, <2>5 DEF Next
  <2> QED
    BY <2>1, <2>6 DEF IInv, Rest
<1>2. CASE UNCHANGED vars
  <2>1. UNCHANGED <<settings, sync, syncSaved, progress, remote, screen, book, at, moved, origin,
                    act, faults, others, due, interrupted, restarts, asked, seen>>
    BY <1>2 DEF vars, card, reading, ghosts
  <2>2. TypeOK' /\ Shown' /\ OneRestart' /\ Decisions'
    BY <2>1 DEF IInv, TypeOK, Shown, OneRestart, Decisions, Decided
  <2>3. Handoffs'
    BY <2>1 DEF IInv, Handoffs, Mine
  <2>4. DueIsWhere'
    BY <2>1 DEF IInv, DueIsWhere, Where, Restored
  <2> QED
    BY <2>2, <2>3, <2>4 DEF IInv
<1> QED
  BY <1>1, <1>2

THEOREM Invariance == Spec => []IInv
  BY IInvInit, IInvStep, PTL DEF Spec

(* Every variable keeps its type; in particular a position that is applied is *)
(* one the server had.                                                        *)
THEOREM TypeCorrect == Spec => []TypeOK
<1>1. IInv => TypeOK
  BY DEF IInv
<1> QED
  BY <1>1, Invariance, PTL

(* A handoff record serves one sync and restarts the device once at the most. *)
THEOREM OneSync == Spec => []HandoffServesOneSync
<1>1. IInv => HandoffServesOneSync
  BY DEF IInv, HandoffServesOneSync, Handoffs, OneRestart
<1> QED
  BY <1>1, Invariance, PTL

(* A book opens where it was left or where its sync has put it: the record    *)
(* and the progress file say so together (DueIsWhere), whatever came between. *)
THEOREM OpensAtPlace == Spec => OpensWhereItWasLeft
<1>1. ASSUME IInv, OpenReader, faults' = faults, due[book] # NoPos PROVE at' = due[book]
  <2>1. TypeOK /\ book \in Books /\ progress \in [Books -> Pos \cup {NoPos}]
    BY <1>1, Opened DEF IInv, TypeOK
  <2>2. due[book] = Where(book)
    BY <1>1, <2>1 DEF IInv, DueIsWhere
  <2>3. progress' = IF Applies(sync, book) THEN [progress EXCEPT ![book] = Restored] ELSE progress
    BY <1>1, <2>1, Opened
  <2>4. progress'[book] = Where(book)
    BY <2>1, <2>3 DEF Where
  <2>5. at' \in IF progress'[book] # NoPos
               THEN {progress'[book]} \cup (IF Applies(sync, book) THEN {Restored} ELSE {})
               ELSE {IF Applies(sync, book) THEN Restored ELSE 0}
    BY <1>1, <2>1, Opened
  <2>6. at' \in {Where(book)} \cup (IF Applies(sync, book) THEN {Restored} ELSE {})
    BY <1>1, <2>2, <2>4, <2>5
  <2> QED
    BY <2>2, <2>6 DEF Where
<1>2. IInv /\ [Next]_vars
        => [(OpenReader /\ faults' = faults /\ due[book] # NoPos) => at' = due[book]]_vars
  BY <1>1
<1> QED
  BY <1>2, Invariance, PTL DEF Spec, OpensWhereItWasLeft

(* An upload nobody asked for was decided on a server's record that was not   *)
(* ahead, also across the restart between the decision and the upload.        *)
THEOREM NotPutBack == Spec => ServerIsNotPutBack
<1>1. ASSUME IInv, act.state = "UPLOADING", ~asked PROVE seen <= act.pos
  BY <1>1 DEF IInv, TypeOK, Decisions, Decided
<1>2. IInv /\ [Next]_vars
        => [(remote' # remote /\ act.state = "UPLOADING" /\ ~asked) => seen <= act.pos]_vars
  BY <1>1
<1> QED
  BY <1>2, Invariance, PTL DEF Spec, ServerIsNotPutBack
===============================================================================
