----------------------------- MODULE KOReaderSync -----------------------------
(***************************************************************************)
(* Synchronising the reading position with a KOReader server.  The reader  *)
(* leaves a handoff record (APP_STATE.koReaderSyncSession, part of         *)
(* state.json), is destroyed to free its memory, and KOReaderSyncActivity  *)
(* works from the record; the reader that is opened afterwards applies its *)
(* outcome and clears it.  A manual sync that is refused for want of       *)
(* memory restarts the device once, back into the sync.                    *)
(*                                                                         *)
(* A position is a number: the order of the pages.  A book has one record  *)
(* on the server: the two document hashes and the choice between their     *)
(* records are left out.  The intent PULL_REMOTE is handled by the         *)
(* activity, but nothing in the firmware launches it.                      *)
(***************************************************************************)
EXTENDS Integers

CONSTANTS
  Books, NoBook,
  Settings,    \* koSyncAutoPullOnOpen, koSyncAutoPushOnClose, smart Sync Behavior
  MaxPos,      \* the last page
  MaxFaults,   \* bound: failed writes, books that do not open, power cuts
  MaxOthers    \* bound: records other devices put on the server

ASSUME KOReaderSyncAssumption ==
  /\ NoBook \notin Books
  /\ Settings \subseteq [autoPull : BOOLEAN, autoPush : BOOLEAN, smart : BOOLEAN]
  /\ MaxPos \in Nat /\ MaxFaults \in Nat /\ MaxOthers \in Nat

Pos == 0 .. MaxPos
NoPos == -1
Automatic == {"AUTO_PULL", "AUTO_PUSH"}
Intents == Automatic \cup {"COMPARE", "PUSH_LOCAL"}
Outcomes == {"NONE", "PENDING", "CANCELLED", "FAILED", "UPLOAD_COMPLETE", "APPLIED_REMOTE"}
\* The screens that wait for the user for as long as it takes.
Waiting == {"WIFI_LIST", "SHOWING_RESULT", "NO_REMOTE_PROGRESS", "SYNC_FAILED"}
States == Waiting \cup {"WIFI", "SYNCING", "UPLOADING", "UPLOAD_COMPLETE", "NONE"}

VARIABLES
  settings,
  sync,        \* APP_STATE.koReaderSyncSession
  syncSaved,   \* the same in state.json
  progress,    \* the progress files
  remote,      \* what the server has
  screen,      \* the activity on the display; "opening" is ReaderActivity
  book,        \* the book it is about
  at,          \* the reader's page
  moved,       \* sessionProgressTouched
  origin,      \* where the reader was when a link was followed
  act,         \* the sync activity
  faults, others,
  \* What the properties remember:
  due,         \* where each book was left, or a sync has put it; NoPos: in doubt
  interrupted, \* a sync or the opening after it was cut short
  restarts,    \* restarts for want of memory in this sync
  asked,       \* the user asked for this upload
  seen         \* the server's record a decision to upload was made on

card == <<syncSaved, progress>>
reading == <<at, moved, origin>>
ghosts == <<due, interrupted, restarts, asked, seen>>
vars == <<settings, sync, card, remote, screen, book, reading, act, faults, others, ghosts>>

(* KOReaderSyncSessionState::clear(). *)
Cleared ==
  [active |-> FALSE, book |-> NoBook, pos |-> 0, intent |-> "COMPARE",
   outcome |-> "NONE", result |-> 0]

Handoff(b, p, intent) ==
  [active |-> TRUE, book |-> b, pos |-> p, intent |-> intent,
   outcome |-> "PENDING", result |-> 0]

(* Only a pending manual handoff may survive a restart. *)
CanResume(record) ==
  record.active /\ record.outcome = "PENDING" /\ record.intent \notin Automatic

Records ==
  [active : BOOLEAN, book : Books \cup {NoBook}, pos : Pos, intent : Intents,
   outcome : Outcomes, result : Pos]

NoActivity == [state |-> "NONE", intent |-> "COMPARE", pos |-> 0, recovered |-> FALSE,
               found |-> NoPos]

\* Mutant: that the device was restarted is forgotten.
ActivityForgetful(record, resumed) ==
  [state |-> "WIFI", intent |-> record.intent, pos |-> record.pos,
   recovered |-> FALSE, found |-> NoPos]

Activity(record, resumed) ==
  [state |-> "WIFI", intent |-> record.intent, pos |-> record.pos,
   recovered |-> resumed, found |-> NoPos]

TypeOK ==
  /\ settings \in Settings
  /\ sync \in Records /\ syncSaved \in Records
  /\ progress \in [Books -> Pos \cup {NoPos}] /\ remote \in [Books -> Pos \cup {NoPos}]
  /\ screen \in {"home", "opening", "reader", "sync", "restarting"}
  /\ book \in Books \cup {NoBook} /\ (screen # "home" => book \in Books)
  /\ at \in Pos /\ moved \in BOOLEAN /\ origin \in Pos \cup {NoPos}
  /\ act \in [state : States, intent : Intents, pos : Pos, recovered : BOOLEAN,
              found : Pos \cup {NoPos}]
  /\ (screen = "sync") = (act.state # "NONE")
  /\ faults \in 0 .. MaxFaults /\ others \in 0 .. MaxOthers
  /\ due \in [Books -> Pos \cup {NoPos}]
  /\ interrupted \in BOOLEAN /\ restarts \in 0 .. 2
  /\ asked \in BOOLEAN /\ seen \in Pos \cup {NoPos}

Init ==
  /\ settings \in Settings
  /\ sync = Cleared /\ syncSaved = Cleared
  /\ progress = [b \in Books |-> NoPos] /\ remote = [b \in Books |-> NoPos]
  /\ screen = "home" /\ book = NoBook
  /\ at = 0 /\ moved = FALSE /\ origin = NoPos
  /\ act = NoActivity
  /\ faults = 0 /\ others = 0
  /\ due = [b \in Books |-> NoPos] /\ interrupted = FALSE
  /\ restarts = 0 /\ asked = FALSE /\ seen = NoPos

-------------------------------------------------------------------------------
(* What several handlers do                                                *)

Fault == faults < MaxFaults /\ faults' = faults + 1

(* APP_STATE.saveToFile() at the end of a handler that leaves the record as *)
(* sync'.  Hardly a caller looks at the result.                             *)
SaveState ==
  \/ syncSaved' = sync' /\ UNCHANGED faults
  \/ Fault /\ UNCHANGED syncSaved

(* The reader is gone, and its page with it. *)
NotReading == at' = 0 /\ moved' = FALSE /\ origin' = NoPos

ForgetSync == restarts' = 0 /\ asked' = FALSE /\ seen' = NoPos

StartSync ==
  /\ screen' = "sync" /\ act' = Activity(sync', FALSE)
  /\ ForgetSync /\ interrupted' = FALSE

(* resumeReader(), and returnAfterAutoPush() after an automatic upload,      *)
(* which clears the record it has just saved and goes home.                 *)
ResumeReader(outcome, result) ==
  LET done == [sync EXCEPT !.outcome = outcome, !.result = result] IN
  /\ act' = NoActivity
  /\ IF act.intent = "AUTO_PUSH"
     THEN /\ sync' = Cleared /\ screen' = "home" /\ book' = NoBook
          /\ SaveState \/ (Fault /\ syncSaved' = done)
     ELSE /\ sync' = done /\ screen' = "opening"
          /\ SaveState /\ UNCHANGED book
  /\ due' = IF outcome = "APPLIED_REMOTE" THEN [due EXCEPT ![book] = result] ELSE due
  /\ ForgetSync
  /\ UNCHANGED <<settings, progress, remote, reading, others, interrupted>>

(* All but the sync activity itself. *)
Elsewhere == <<settings, sync, card, remote, screen, book, reading, faults, others, ghosts>>

Show(state) == act' = [act EXCEPT !.state = state]

-------------------------------------------------------------------------------
(* Opening and reading a book                                              *)

(* The user, or a boot, opens a book: goToReader(). *)
GoToReader(b) ==
  /\ screen = "home" /\ screen' = "opening" /\ book' = b
  /\ UNCHANGED <<settings, sync, card, remote, reading, act, faults, others, ghosts>>

\* Mutant: a record that waits to be applied is not looked at.
AutoPullsWheneverSet == settings.autoPull
AutoPulls == settings.autoPull /\ ~sync.active

(* onGoToEpubReader(): fetch the server's position before the book opens. *)
AutoPullOnOpen ==
  /\ screen = "opening" /\ AutoPulls
  /\ sync' = Handoff(book, 0, "AUTO_PULL") /\ StartSync
  /\ SaveState
  /\ UNCHANGED <<settings, progress, remote, book, reading, others, due>>

Mine == sync.active /\ sync.book = book
\* Mutant: an automatic pull that brought nothing is not told from a cancelled sync.
KeepsOnlyUploaded == sync.outcome = "UPLOAD_COMPLETE"
KeepsProgress ==
  \/ sync.outcome = "UPLOAD_COMPLETE"
  \/ sync.intent = "AUTO_PULL" /\ sync.outcome # "APPLIED_REMOTE"
Restored == IF sync.outcome = "APPLIED_REMOTE" THEN sync.result ELSE sync.pos

(* EpubReaderActivity::onEnter(): applyPendingSyncSession() puts the        *)
(* position of the record into the progress file and clears the record;     *)
(* then the file is loaded.  When it could not be written, what is kept in  *)
(* memory counts when there is no file, and what the record knows of the    *)
(* text may still find the page.                                            *)
OpenReader ==
  LET restores == Mine /\ ~KeepsProgress IN
  /\ screen = "opening" /\ ~AutoPulls
  /\ sync' = IF Mine THEN Cleared ELSE sync
  /\ \/ /\ progress' = IF restores THEN [progress EXCEPT ![book] = Restored] ELSE progress
        /\ SaveState
     \/ restores /\ Fault /\ syncSaved' = sync' /\ UNCHANGED progress
  /\ at' \in IF progress'[book] # NoPos
             THEN {progress'[book]} \cup (IF restores THEN {Restored} ELSE {})
             ELSE {IF restores THEN Restored ELSE 0}
  /\ moved' = FALSE /\ origin' = NoPos /\ screen' = "reader"
  /\ due' = [due EXCEPT ![book] = progress'[book]]
  /\ interrupted' = (interrupted /\ sync'.active)
  /\ UNCHANGED <<settings, remote, book, act, others, restarts, asked, seen>>

(* The file is gone or cannot be read, or there is no memory for a reader. *)
OpenFails ==
  /\ screen = "opening" /\ Fault
  /\ screen' = "home" /\ book' = NoBook /\ interrupted' = sync.active
  /\ UNCHANGED <<settings, sync, card, remote, reading, act, others,
                 due, restarts, asked, seen>>

TurnPage(p) ==
  /\ screen = "reader" /\ p \in {at - 1, at + 1}
  /\ at' = p /\ moved' = TRUE
  /\ UNCHANGED <<settings, sync, card, remote, screen, book, origin, act, faults,
                 others, ghosts>>

(* The render task saves the page it has drawn, also one behind a link. *)
SaveProgress ==
  /\ screen = "reader" /\ progress[book] # at
  /\ progress' = [progress EXCEPT ![book] = at]
  /\ due' = [due EXCEPT ![book] = IF origin = NoPos THEN at ELSE NoPos]
  /\ UNCHANGED <<settings, sync, syncSaved, remote, screen, book, reading, act, faults,
                 others, interrupted, restarts, asked, seen>>

(* navigateToHref(), here one level deep. *)
FollowLink(p) ==
  /\ screen = "reader" /\ origin = NoPos /\ p # at
  /\ origin' = at /\ at' = p
  /\ UNCHANGED <<settings, sync, card, remote, screen, book, moved, act, faults,
                 others, ghosts>>

RestoreSavedPosition ==
  /\ screen = "reader" /\ origin # NoPos
  /\ at' = origin /\ origin' = NoPos
  /\ UNCHANGED <<settings, sync, card, remote, screen, book, moved, act, faults,
                 others, ghosts>>

(* onExit() of a reader that still has its book: an excursion behind a link *)
(* is not where the book was left.                                          *)
TakeExcursionBack ==
  /\ progress' = IF origin # NoPos THEN [progress EXCEPT ![book] = origin] ELSE progress
  /\ due' = IF origin # NoPos THEN [due EXCEPT ![book] = origin] ELSE due

LeaveReader ==
  /\ UNCHANGED sync
  /\ \/ TakeExcursionBack /\ SaveState
     \/ /\ origin # NoPos /\ Fault
        /\ syncSaved' = sync /\ UNCHANGED <<progress, due>>

CloseReader ==
  /\ screen = "reader" /\ LeaveReader
  /\ screen' = "home" /\ book' = NoBook /\ NotReading
  /\ UNCHANGED <<settings, remote, act, others, interrupted, restarts, asked, seen>>

(* launchKOReaderSync(): the position on the screen becomes the record's    *)
(* and the book's.  The reader gives its book up here, so that its onExit() *)
(* does not take an excursion back; onExit() saves the state once more, and  *)
(* a failure is one of both saves.                                          *)
LaunchKOReaderSync(intent) ==
  /\ screen = "reader"
  /\ sync' = Handoff(book, at, intent) /\ StartSync
  /\ \/ progress' = [progress EXCEPT ![book] = at] /\ syncSaved' = sync' /\ UNCHANGED faults
     \/ Fault /\ progress' = [progress EXCEPT ![book] = at] /\ UNCHANGED syncSaved
     \/ Fault /\ syncSaved' = sync' /\ UNCHANGED progress
  /\ NotReading
  /\ due' = [b \in Books |->
               IF b = book THEN IF origin = NoPos /\ progress'[b] = at THEN at ELSE NoPos
               ELSE IF sync.active /\ b = sync.book THEN NoPos ELSE due[b]]
  /\ UNCHANGED <<settings, remote, book, others>>

SyncFromMenu == LaunchKOReaderSync("COMPARE")

(* tryAutoPushOnClose(). *)
AutoPushOnClose ==
  /\ settings.autoPush /\ (moved \/ origin # NoPos)
  /\ LaunchKOReaderSync("AUTO_PUSH")

-------------------------------------------------------------------------------
(* KOReaderSyncActivity                                                    *)

(* The network is up; setting the clock may save the state again. *)
Join ==
  /\ Show("SYNCING")
  /\ syncSaved' \in {syncSaved, sync}
  /\ UNCHANGED <<settings, sync, progress, remote, screen, book, reading, faults,
                 others, ghosts>>

(* WifiSelectionActivity scans and tries the saved networks, each for a few  *)
(* seconds.                                                                  *)
Connect == act.state = "WIFI" /\ Join

(* No saved network answers an automatic sync, or the user presses Back. *)
NoConnection == act.state = "WIFI" /\ ResumeReader("CANCELLED", 0)

(* The user asks for the networks that were found, in a new scan or in the    *)
(* last one.                                                                  *)
ShowNetworks ==
  /\ act.state = "WIFI" /\ Show("WIFI_LIST")
  /\ UNCHANGED Elsewhere

(* With no saved network in range, or when networks are chosen by hand, a    *)
(* manual sync waits in that list; an automatic one (autoConnectOnly) is over. *)
NoSavedNetwork == act.intent \notin Automatic /\ ShowNetworks

(* From the list on the user is in charge, the connection to the network that *)
(* was chosen and its failure included: it ends connected, with another scan  *)
(* or cancelled.                                                              *)
UseNetworkList ==
  /\ act.state = "WIFI_LIST"
  /\ \/ Join
     \/ Show("WIFI") /\ UNCHANGED Elsewhere
     \/ ResumeReader("CANCELLED", 0)

(* No credentials, no hash, no local position, or a request that failed. *)
SyncFails ==
  /\ \/ act.state = "WIFI" /\ act.intent = "COMPARE"
     \/ act.state = "SYNCING"
  /\ Show("SYNC_FAILED")
  /\ UNCHANGED Elsewhere

(* recoverFromLowMemory(): the request was refused before anything was sent, *)
(* and a manual sync that has not been restarted yet is restarted, when the  *)
(* record could be saved and the board takes the restart.                    *)
RecoverFromLowMemory(resumeIntent) ==
  LET resumed == [sync EXCEPT !.intent = resumeIntent] IN
  /\ ~act.recovered /\ act.intent \notin Automatic /\ CanResume(sync)
  /\ \/ /\ sync' = resumed /\ syncSaved' = resumed
        /\ \/ screen' = "restarting" /\ act' = NoActivity /\ restarts' = IF restarts < 2 THEN restarts + 1 ELSE 2
           \/ /\ act' = [act EXCEPT !.state = "SYNC_FAILED", !.recovered = TRUE]
              /\ UNCHANGED <<screen, restarts>>
        /\ UNCHANGED faults
     \/ /\ Fault /\ act' = [act EXCEPT !.state = "SYNC_FAILED", !.recovered = TRUE]
        /\ UNCHANGED <<sync, syncSaved, screen, restarts>>
  /\ UNCHANGED <<settings, progress, remote, book, reading, others, due, interrupted,
                 asked, seen>>

CannotRecover ==
  /\ act.recovered \/ act.intent \in Automatic \/ ~CanResume(sync)
  /\ Show("SYNC_FAILED")
  /\ UNCHANGED Elsewhere

(* The GET of performSync() is refused for want of memory. *)
FetchLowMemory ==
  act.state = "SYNCING" /\ (RecoverFromLowMemory(act.intent) \/ CannotRecover)

Found == remote[book]
\* Mutant: the answer is taken though the server has no record.
HasRemoteUnchecked == TRUE
HasRemote == Found # NoPos
RemoteAhead == Found > act.pos

(* A decision to upload is made on what the server has just answered. *)
Upload ==
  /\ Show("UPLOADING") /\ seen' = Found
  /\ UNCHANGED <<settings, sync, card, remote, screen, book, reading, faults, others,
                 due, interrupted, restarts, asked>>

Offer(state) ==
  /\ act' = [act EXCEPT !.state = state, !.found = Found]
  /\ UNCHANGED Elsewhere

(* An upload's first GET warms the connection up; only the automatic upload *)
(* looks at what it brings.                                                 *)
\* Mutant: the answer to an automatic upload's first request is not looked at.
SkipNoPush == FALSE
SkipAutoPush == act.intent = "AUTO_PUSH" /\ RemoteAhead

FetchBeforePush ==
  /\ act.state = "SYNCING" /\ act.intent \in {"AUTO_PUSH", "PUSH_LOCAL"}
  /\ IF SkipAutoPush THEN ResumeReader("UPLOAD_COMPLETE", 0)
     ELSE IF act.intent = "AUTO_PUSH" THEN Upload
     ELSE /\ Show("UPLOADING")
          /\ UNCHANGED Elsewhere

(* The server's position is taken as it is, whether it is ahead or not; with *)
(* none, or one that cannot be mapped, the book opens where it was.          *)
FetchForAutoPull ==
  /\ act.state = "SYNCING" /\ act.intent = "AUTO_PULL"
  /\ \/ HasRemote /\ ResumeReader("APPLIED_REMOTE", Found)
     \/ ResumeReader("CANCELLED", 0)
 

FetchForSmartSync ==
  /\ act.state = "SYNCING" /\ act.intent = "COMPARE" /\ settings.smart
  /\ \/ HasRemote /\ Offer("SHOWING_RESULT")      \* positions that cannot be compared
     \/ ~HasRemote /\ Upload
     \/ Found = act.pos /\ ResumeReader("UPLOAD_COMPLETE", 0)
     \/ HasRemote /\ Found < act.pos /\ Upload
     \/ RemoteAhead /\ ResumeReader("APPLIED_REMOTE", Found)

FetchToCompare ==
  /\ act.state = "SYNCING" /\ act.intent = "COMPARE" /\ ~settings.smart
  /\ Offer(IF HasRemote THEN "SHOWING_RESULT" ELSE "NO_REMOTE_PROGRESS")

(* performUpload() when the server takes the position. *)
UploadWorks ==
  LET complete == [sync EXCEPT !.outcome = "UPLOAD_COMPLETE"] IN
  /\ act.state = "UPLOADING"
  /\ remote' = [remote EXCEPT ![book] = act.pos]
  /\ IF act.intent = "AUTO_PUSH"
     THEN /\ sync' = Cleared /\ act' = NoActivity /\ screen' = "home" /\ book' = NoBook
          /\ SaveState \/ (Fault /\ syncSaved' = complete)
     ELSE /\ sync' = complete /\ Show("UPLOAD_COMPLETE")
          /\ SaveState /\ UNCHANGED <<screen, book>>
  /\ ForgetSync
  /\ UNCHANGED <<settings, progress, reading, others, due, interrupted>>

(* An error may come after the server has taken the position. *)
UploadFails ==
  /\ act.state = "UPLOADING" /\ Show("SYNC_FAILED")
  /\ remote' \in {remote, [remote EXCEPT ![book] = act.pos]}
  /\ UNCHANGED <<settings, sync, card, screen, book, reading, faults, others, ghosts>>

UploadLowMemory ==
  act.state = "UPLOADING" /\ (RecoverFromLowMemory("PUSH_LOCAL") \/ CannotRecover)

ApplyRemoteFromChooser ==
  /\ act.state = "SHOWING_RESULT"
  /\ \/ ResumeReader("APPLIED_REMOTE", act.found)
     \/ Show("SYNC_FAILED") /\ UNCHANGED Elsewhere
 

UploadFromChooser ==
  /\ act.state \in {"SHOWING_RESULT", "NO_REMOTE_PROGRESS"}
  /\ Show("UPLOADING") /\ asked' = TRUE
  /\ UNCHANGED <<settings, sync, card, remote, screen, book, reading, faults, others,
                 due, interrupted, restarts, seen>>

CloseCancelled ==
  /\ act.state \in {"SHOWING_RESULT", "NO_REMOTE_PROGRESS"}
  /\ ResumeReader("CANCELLED", 0)

DismissFailure ==
  /\ act.state = "SYNC_FAILED" /\ ResumeReader("FAILED", 0)

(* A button, or three seconds. *)
UploadIsShown ==
  /\ act.state = "UPLOAD_COMPLETE" /\ ResumeReader("UPLOAD_COMPLETE", 0)

(* The boot consumes the restart's one-shot record and goes back into the    *)
(* sync, which will not restart the device again.                            *)
ResumeAfterMemoryRecovery ==
  /\ screen = "restarting"
  /\ sync' = syncSaved
  /\ IF CanResume(syncSaved)
     THEN screen' = "sync" /\ act' = Activity(syncSaved, TRUE) /\ UNCHANGED book
     ELSE screen' = "home" /\ book' = NoBook /\ UNCHANGED act
  /\ UNCHANGED <<settings, card, remote, reading, faults, others, ghosts>>

-------------------------------------------------------------------------------
(* The rest of the world                                                   *)

OtherDevice(b, p) ==
  /\ others < MaxOthers /\ others' = others + 1
  /\ p # remote[b] /\ remote' = [remote EXCEPT ![b] = p]
  /\ UNCHANGED <<settings, sync, card, screen, book, reading, act, faults, ghosts>>

Reset ==
  /\ screen' = "home" /\ book' = NoBook /\ act' = NoActivity /\ NotReading
  /\ interrupted' = sync'.active /\ ForgetSync
  /\ UNCHANGED <<settings, remote, others>>

(* enterDeepSleep(), never during a request: the activity is left and the    *)
(* state saved.                                                             *)
Sleep ==
  /\ screen \in {"reader", "sync"} /\ act.state \notin {"SYNCING", "UPLOADING"}
  /\ IF screen = "reader" THEN LeaveReader
     ELSE UNCHANGED <<sync, progress, due>> /\ SaveState
  /\ Reset

PowerCut ==
  /\ Fault
  /\ sync' = syncSaved
  /\ due' = [b \in Books |->
               IF sync # syncSaved /\ b \in {sync.book, syncSaved.book} THEN NoPos ELSE due[b]]
  /\ UNCHANGED card
  /\ Reset

DeviceStep ==
  \/ AutoPullOnOpen \/ OpenReader
  \/ Connect \/ NoConnection \/ NoSavedNetwork \/ SyncFails \/ FetchLowMemory
  \/ FetchBeforePush \/ FetchForAutoPull \/ FetchForSmartSync \/ FetchToCompare
  \/ UploadWorks \/ UploadFails \/ UploadLowMemory \/ UploadIsShown
  \/ ResumeAfterMemoryRecovery

UserStep ==
  \/ \E b \in Books : GoToReader(b)
  \/ \E p \in Pos : TurnPage(p) \/ FollowLink(p)
  \/ RestoreSavedPosition \/ CloseReader \/ SyncFromMenu \/ AutoPushOnClose
  \/ ShowNetworks \/ UseNetworkList
  \/ ApplyRemoteFromChooser \/ UploadFromChooser \/ CloseCancelled \/ DismissFailure
  \/ Sleep

Next ==
  \/ DeviceStep \/ UserStep
  \/ OpenFails \/ SaveProgress
  \/ \E b \in Books, p \in Pos : OtherDevice(b, p)
  \/ PowerCut

Spec == Init /\ [][Next]_vars
FairSpec == Spec /\ WF_vars(DeviceStep)

-------------------------------------------------------------------------------
(* Properties                                                              *)

(* A book opens where it was left, or where the sync that was made of it    *)
(* has put it, whatever comes between the sync and the opening: another     *)
(* book, a restart, a sleep or a power cut.  In doubt are a book whose page  *)
(* behind a link was saved last, one whose position or record could not be  *)
(* written before the power went, and one whose record another sync has     *)
(* overwritten.                                                             *)
OpensWhereItWasLeft ==
  [][(OpenReader /\ faults' = faults /\ due[book] # NoPos)
       => at' = due[book]]_vars

(* A handoff record serves one sync: it restarts the device once at the most, *)
(* and only for a manual sync that is still pending, and it is cleared when   *)
(* its book opens or an automatic upload is over.  Only a sync that was       *)
(* interrupted leaves it behind, which turns the automatic pull off for       *)
(* every other book.                                                          *)
HandoffServesOneSync ==
  /\ restarts <= 1
  /\ screen = "restarting" => CanResume(syncSaved)
  /\ screen \in {"home", "reader"} /\ ~interrupted => ~sync.active

(* No upload that the user did not ask for puts the server's record back: it  *)
(* was decided on an answer that was not ahead, also when the device was      *)
(* restarted between the decision and the upload.                             *)
ServerIsNotPutBack ==
  [][(remote' # remote /\ act.state = "UPLOADING" /\ ~asked) => seen <= act.pos]_vars

(* A sync ends and the book is opened again, or a screen asks the user - the  *)
(* list of networks, the chooser, or that of a failure -, also when memory is *)
(* short every time and when the server pulls at every opening.              *)
SyncsEnd ==
  screen \in {"opening", "sync", "restarting"}
    ~> (screen \in {"home", "reader"} \/ act.state \in Waiting)

(* "A footnote excursion must not persist as the reading position": when the  *)
(* reader is left, other than by a loss of power or a failed write, the       *)
(* progress file holds the place the link was followed from.                  *)
ExcursionsDoNotPersist ==
  [][(screen = "reader" /\ screen' # "reader" /\ origin # NoPos /\ faults' = faults)
       => progress'[book] = origin]_vars
===============================================================================
