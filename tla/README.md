# A verification of the cpr-vcodex firmware

cpr-vcodex is the firmware of a battery-powered e-paper reader: an ESP32 with
a FAT-formatted SD card, a few hundred kilobytes of RAM, two FreeRTOS tasks and a
network that is there only when the user asks for it. Much of what can go
wrong does not show in a unit test: two tasks share the screens, the power
goes between any two operations on the card or the flash, a crash has to be
understood by the *next* boot, and queues meet servers that do not answer.

This directory holds TLA+ modules for those parts, the TLC configurations that check
them on small instances, and proofs that TLAPS checks for every value of the
constants. `PROJECT.json` is the index: which definition models which source
lines, which run checks what, which hazard each property is for. Source paths
are relative to the root of the repository, whose own sources are in `src/` and
`lib/`; line numbers are those of the commit modelled.

| module | models | EXTENDS / uses |
|---|---|---|
| `ActivityManager` | the screens, the main task and the render task | `INSTANCE ScreenStack` |
| `ScreenStack` | the abstract specification: a stack of screens, one drawn at a time | |
| `ActivityManagerProofs` | types, ownership, drawing, waits, the refinement, results, sleep and the reading session, for any set of activities | `ActivityManager`, `ScreenStack` |
| `BootSequence` | `setup()`, crash recovery, one-shot tokens, routing, over many boots | |
| `BootSequenceProofs` | its safety properties, for any bad data and any number of failures | `BootSequence` |
| `PluginOutbox` | the event queues of the plugins, `emit()` and `drain()` | |
| `PluginOutboxProofs` | delivery and the size of the files, for any number of plugins and events | `PluginOutbox` |
| `ReadingStatsStore` | the statistics in memory and on the card | |
| `KOReaderSync` | synchronising the reading position, from the reader and back | |
| `KOReaderSyncProofs` | its safety properties, for any books, pages, settings and faults | `KOReaderSync` |
| `FileReplacement` | the five ways a file on the card is replaced | |
| `CardStorageProofs` | the safety properties of both, for any books, values, faults and power cuts | `FileReplacement`, `ReadingStatsStore` |
| `LibraryIndex` | the index of the books, its builds and the mark for a rebuild | |
| `LibraryIndexProofs` | its safety properties, for any finite set of paths | `LibraryIndex` |
| `FileTransfer` | uploads, WebDAV and the other requests that change files | |
| `FileTransferProofs` | its safety properties, for any names, clients and faults | `FileTransfer` |
| `FirmwareUpdate` | the two slots, `otadata`, both updates and the start after them | |
| `FirmwareUpdateProofs` | its safety properties, for any number of updates and faults | `FirmwareUpdate` |
| `MC*` | values of the constants for TLC, with the `.cfg` files beside them | the module named |

To run them: `tlc -config MCBootSequence_boots.cfg MCBootSequence.tla`, and
`tlapm BootSequenceProofs.tla`.

---

## 1. Inventory

### 1.1 How the program runs

`setup()` (`src/main.cpp:591-1032`) loads everything from the card in stages, picks a first
screen and returns. From then on the **main task** runs the Arduino `loop()`: inputs,
`ActivityManager::loop()`, power saving. Every screen ("activity") runs its
callbacks on the main task. The **render task** sleeps on a task notification and
draws the current activity under a lock. Interrupts only set flags. Network
screens borrow the main task and free what memory they can; on boards without
a touch screen they end in a restart.

Five things connect the components:

* *calls on the main task*: nearly everything, one call at a time;
* *shared memory between the two tasks*: the manager's current activity, its render
  flags, the notification counters and the render lock;
* *the SD card*: every store is a file, there is no journal, and SdFat's `rename`
  refuses a name that is taken, so that replacing a file takes several operations;
* *the flash*: two application slots and the two entries of `otadata`, which the
  firmware writes and the bootloader reads;
* *RTC memory*, which outlives a reset but not a loss of power: the boot stage, the
  watchdog's capture marker, the silent-restart token.

### 1.2 The components

**Activity manager and render task** (`src/activities/ActivityManager.cpp`, `Activity.cpp`,
`RenderLock.h`). *State*: `currentActivity`, `stackActivities`, `pendingActivity` and
`pendingAction`, a result handler per activity, `requestedUpdate`, the notification
counts of the two tasks, `waitingTaskHandle`, the lock, the pause of the reading session.
*Operations*: push, pop and replace (queued, then applied by `loop()`), request an update now,
deferred or with a wait, sleep, the statistics shortcut, gestures. *Hard*: the two tasks
interleave everywhere; the current activity is deleted while the other task may be
drawing it; results travel between objects that may be gone; the main task blocks without a
time limit. *Correct when*: nothing is drawn after its death, each object has one owner,
a result reaches the handler it was meant for, requested updates are drawn, waits return,
a screen that owns the raw card is never left, sleep begins with everything torn down.

**Boot sequence and crash recovery** (`src/main.cpp`, `src/util/BootRecovery.cpp`,
`lib/hal/HalSystem.cpp`, `src/CrossPointState.h`). *State*: the stage, marker and token in RTC
memory; `recovery.json`; the flags of `state.json` (last book, reader loads, splash, deck). *Operations*:
`setup()` stage by stage; sleep, wake, silent restart. *Hard*: the boot after a crash must infer
what crashed from what was left, while another failure may fall in the middle of recording
it; flags meant for one boot must not survive into two. *Correct when*: bad data does not
kill two boots in a row in one stage, a crash never resumes, one-shots act once, boots end.

**Plugin events** (`src/util/PluginEvents.cpp`). *State*: an outbox file per plugin, the subscription
table in memory, the manifests on the card. *Operations*: `refreshSubscriptions()`, `emit()`,
`drain()`. *Hard*: at-least-once delivery over a power cut between delivery and
rewrite; a queue at its size limit; a manifest newer than the subscription table; a short write whose repair
fails. *Correct when*: nothing queued is lost, servers first hear of events in order,
the queue stays readable, and it empties.

**Reading statistics** (`src/ReadingStatsStore.cpp`, `src/JsonSettingsIO.cpp`). *State*: the
entries in memory, a dirty flag, the suspension after a failed load, `reading_stats.json`, its internal backup
and a temporary file of each. *Operations*: load, save, session begin, activity and end, removing
a book, reset, import, release for a network session. *Hard*: four files and a fallback order;
deciding that a main file is "damaged" from its content; the memory being the only copy, and then
not. *Correct when*: saved time is never lost, what the user removed stays removed,
and a store that could not be read is not overwritten.

**KOReader sync** (`src/activities/reader/KOReaderSyncActivity.cpp`, `EpubReaderActivity.cpp`,
`ReaderActivity.cpp`, `lib/KOReaderSync`). *State*: the handoff record in `state.json`, the progress
file of each book, the server's record, the sync screen's own state. *Operations*: launch from the menu, pull at
opening, push at closing, the chooser, the smart sync, the restart for want of memory, the application of the outcome when
the book opens. *Hard*: the reader is destroyed to make room for the sync, so everything between them goes
through a file that any power cut, failed write or other book may come between; another device
writes to the server meanwhile. *Correct when*: a book opens where it was left or where its sync put it, a
record serves one sync, nobody's
progress is put back unasked, every sync ends or asks the user.

**File replacement** (`src/JsonSettingsIO.cpp`, `src/FlashcardsStore.cpp`,
`src/activities/reader/ProgressFile.h`, `BookmarkStore.h`, downloads in `PluginEvents.cpp`). *State*: a
file, its temporary file, its backup. *Operations*: save and load, in five disciplines.
*Hard*: a failure of any operation, and a power cut between any two, repeatedly, with the leftovers of the
last one still there. *Correct when*: the file is never torn, "saved" means saved, and
leftovers never block later saves.

**Library index** (`lib/LibraryIndex`, `src/activities/home/LibraryListActivity.cpp`). *State*: the card
itself, the live, parked and new index, the
dirty mark on the card or in memory, the arrival numbers. *Operations*: the build with its recovery, walk, reconciliation,
writing and installation; the transfers that mark; the screens that start a build. *Hard*: two indices of
which one may be invalid, a cut in any
of a dozen steps, a shortcut for an unchanged card, books recognised over a rename. *Correct when*: an index is never lost, a
transferred book is not forgotten, "recently added" keeps its order.

**File transfers** (`src/network/CrossPointWebServer.cpp`, `WebDAVHandler.cpp`). *State*: files under their names, one open
HTTP request, one WebSocket upload held in module globals. *Operations*: HTTP and WebSocket uploads, PUT,
MOVE, COPY, DELETE, rename,
move, delete, connects and disconnects. *Hard*: HTTP requests run between the messages of a WebSocket upload; a late
disconnect; a partial file under a book's name; answers already sent. *Correct when*: no truncated book lands in the
library, what was confirmed is there, one client never harms another's upload.

**Firmware update** (`src/network/OtaUpdater.cpp`, `FirmwareFlasher.cpp`, `OtaBootSwitch.cpp`,
`SdFirmwareUpdateActivity.cpp`). *State*: the slots, the two `otadata` entries, the file on the card, the update under way.
*Operations*: choosing, checking, flashing, downloading, switching; the bootloader; the confirmation in
`setup()`. *Hard*: an entry is erased
and then written; the card can be exchanged between check and flash; a new image may crash before it is
confirmed. *Correct when*:
some slot always boots, a reported update boots and is what was checked, nothing but the last write makes an update count.

**Not modelled**, listed in `PROJECT.json` with reasons: the reading session of the plugins and the flashcards' review queue
(planned, section 8); the EPUB parser and layout, dictionaries, fonts,
themes and drawing (data, checked best by the repository's own tests); Wi-Fi, the plugin catalogue, the web
server's pages and settings (I/O against parties outside this code); power, clock and inputs
(hardware access; what a boot reads of them is modelled); achievements, favourites and recents (lists edited
by one task; how their files are
replaced is modelled).

---

## 2. The models and the code

### 2.1 ActivityManager and ScreenStack

Two tasks, each with a program counter, and one action per stretch of code that nothing
the other task does can fall into: a stretch ends where the code takes, waits for or releases the
render lock, notifies or blocks.

| code | in the model |
|---|---|
| `unique_ptr<Activity>`s in `currentActivity`, `pendingActivity`, `stackActivities` | the same three variables; `phase[a]` says whether the object exists and whether `onEnter()` has run |
| `pendingAction` and the `while` of `loop()` | `mainPc = "drain"`, `BeginTransition`, `PopLast`, `PopToParent`, `Launch` |
| `RenderLock` around a FreeRTOS mutex | `renderingMutex`; a step that takes it has `LockFree` as its guard |
| `ulTaskNotifyTake(pdTRUE)`, `xTaskNotify(eIncrement)` | `renderNotified`, `mainNotified`: the count matters only as zero or not |
| `requestedUpdate`, the deferred request `loop()` flushes | `RequestUpdate`, `FlushUpdate` |
| `requestUpdateAndWait()` | `WaitRegister`, `WaitNotify`, `WaitReturn`; the assertions at its start are guards |
| `renderTaskLoop()` | `RenderTake`, `RenderBegin`, `RenderEnd`, `RenderTakeWaiter`, `RenderSignal`, `RenderUnlock` |
| `startActivityForResult()`, result handlers | `resultHandler`: the child whose result the activity waits for |
| everything an activity's code may do in a callback | the `Callback*` actions, in any order and number, then `CallbackReturn` |
| `render()` of the current activity | the interval between `RenderBegin` and `RenderEnd`, in which it may ask to be drawn again |

What an activity does in a callback is left open, which covers every activity there is and any that
may be added, with three facts taken from the code: an activity that owns the raw SD card
(`UsbDriveActivity`) queues no navigation while it starts; a reader leaves the statistics screen to
the shortcut, while menus and settings open it too; a callback queues one navigation, which only a
replacement may overrule. `goHome`, the
gestures and the panel are the branches of `loop()` in their order. A result handler is a callback like
the others, armed for exactly one child.

`ScreenStack` is the promise: a sequence of screens, a step of which opens, closes or
starts over, and a drawing that is of the top screen and during which the stack does not
change. The refinement maps `screens` to `stackActivities` with `currentActivity` on top and
`drawing` to `rendering`. A manager that moved the current activity while the render task
was inside `render()` would not refine it.

### 2.2 BootSequence

One boot after the other. `BeginSetup` reads and consumes what the RTC memory says; `CheckPanic`
writes the crash report and takes the capture marker back; `InitializeRecovery`,
`RemoveOldRecovery` and `RenameRecovery` are the three moments of `BootRecovery::initialize()`
that a loss of power can separate; `EnterStage`/`SkipStage`/`Leave...` go through the thirteen stages in the
order of `setup()`; `DecideRoute` is its last third, a sequence of tests whose order matters;
`EnterReader` and `PaintReader` are the two moments at which a book can kill the device; and
`MarkBootCompleted` ends it. Between boots the user opens and leaves a book, sleeps the device,
wakes it, or triggers a silent restart.

The files of the card fail as the code lets them: nobody looks at the result of a save of `state.json`
(`SaveApp`: the deck's flag, the splash's, the count of attempts, a book that is left), a `recovery.json` may be
unreadable (`InitializeRecovery`), and its removal at the end of a boot may fail (`ClearRecoveryState`).
`budget.unsaved` counts the saves that failed since the device was last put to sleep, which is when flags
are armed; `seen.leftover` remembers a `recovery.json` that a completed boot has left or that could not be read.

What the stores contain matters only in whether loading them kills the device. `bad` is a set of
pairs: data of the store *c* that kills the stage *s*, which is usually *c* itself but not always (a setting that
breaks the theme; statistics that break the achievements). The device dies by a panic, by a watchdog reset
with captured diagnostics, or by one without, of which the code learns nothing. After
a loss of power RTC memory reads as an arbitrary stage, but the marker and the token do not match
their magic numbers.

### 2.3 PluginOutbox

An outbox is a sequence of lines with an identity, a kind, a size and whether the line is cut short. `Emit` begins
the loop of `emit()` over the subscription table, and `EmitSkips`, `EmitAppends` and
`EmitFails` are one iteration each; `StartDrain` begins `drain()`, and `SkipQueue`,
`ClearQueue`, `OpenQueue`, `DropLine`, `Deliver`, `DeliveryFails` and `FinishQueue` are the branches of its two
loops. So the power can go between a delivery and the rewrite of the file. Manifests change
between calls, before `refreshSubscriptions()` sees it. A request is delivered or not. A request whose download
destination is unsafe is dropped by the code on purpose and counts as
delivered; a line that lacks only its newline counts as cut short.

### 2.4 ReadingStatsStore

The store runs on one task, so a call is one step. Inside it the card passes through many
states, and a power cut can expose any one. A call is therefore an operator from a
run so far (card, memory, result, trail of card contents) to the *set* of its possible runs, composed
with `Then` and `IfOk` just as the C++ composes its calls; the action picks a run and either ends it or cuts
it at a point of its trail. `copyFileViaTemp`, `promoteJsonTempFile`, `saveReadingStats`,
`prepareInternalBackup`, `refreshInternalBackupFromMain`, `restoreInternalBackupToMain`,
`persistToFile` and `loadFromFile` are the functions of that name. A book's statistics are the
units of reading time credited to it; zero means there is no entry. `durable` and
`forgotten` are history variables: what saves that succeeded have written, and what the user has
removed or reset. `Kept` says what a removal leaves forgotten: nothing that was only removed, once the last
book goes (section 6.2).

### 2.5 FileReplacement

One action per card operation, shared by the five disciplines where their code does the same;
`AfterWrite`, `AfterInstall` and the other `After...` operators say which operation of which discipline
comes next, `FirstStep` and `ClearsBak` how each begins. Any operation may fail, a write and a close leave a short file,
and the power may go before any operation; the next start runs the loader, which recovers what it
recovers. `reported`, `excuses` and `hadFile` are history variables.
`ReadingStatsStore` has its own version of the JSON discipline, because it needs it composed
with the backup; `BootSequence` has the variant of `saveRecoveryState()`.

### 2.6 KOReaderSync

The record is `APP_STATE.koReaderSyncSession`, as it is in memory (`sync`) and in `state.json` (`syncSaved`);
every handler that
saves it is an action with `SaveState`, of which hardly a caller looks at the result. A position is the number of a page.

| code | in the model |
|---|---|
| `launchKOReaderSync()` from the menu, at closing, at opening | `SyncFromMenu`, `AutoPushOnClose`, `AutoPullOnOpen` |
| `WifiSelectionActivity` | `Connect`, `NoConnection`, `NoSavedNetwork` by itself; `ShowNetworks`, `UseNetworkList` by the user |
| `onWifiSelectionComplete()`, `performSync()`, `performUpload()` | `Join`, `SyncFails`, the four `Fetch...`, `UploadWorks`, `UploadFails`; the server answers or not |
| `recoverFromLowMemory()`, `resumeAfterMemoryRecovery()` | `FetchLowMemory`, `UploadLowMemory`, `ResumeAfterMemoryRecovery`; `screen = "restarting"` in between |
| the result rows, Back, and the failure screen | `ApplyRemoteFromChooser`, `UploadFromChooser`, `CloseCancelled`, `DismissFailure` |
| `applyPendingSyncSession()` in `onEnter()` | `OpenReader`, one step because the main task runs it; `KeepsProgress` and `Restored` are its two decisions |
| page turns, footnotes, `onExit()` | `TurnPage`, `SaveProgress`, `FollowLink`, `RestoreSavedPosition`, `LeaveReader` |

`due` is where each book was left or a sync has put it, or that this is in doubt; `seen` is the server's position the
decision to upload was made on, `asked` whether the user made it. The other device, the user and the power are
bound to nothing.

### 2.7 LibraryIndex

`library.idx`, `library.bak` and `library.new` are whole indices, stale ones (another fold version), broken
files or nothing; an index is a function
from paths to size, time stamp and arrival number, with the counter and the setting it was built with. A build
is a program counter over the card
operations of `buildLibraryIndex()`: the recovery (`NoBackup`, `BackupOnly`, `LiveAndBackup`, `TryBackup`,
`SwapInBackup`), `Walk`, `Stage` (the shortcut
for an unchanged card, or the reconciliation), `EmitIndex`, and `installNewIndex()` (`ParkLive`, `InstallNew`,
`RollBack`, `DropOld`), then
`ClearLibraryIndexDirty`. Each may fail and the power may go at each. `Stage` is one step because staging and
sorting write only to
staging files. Between builds files come, go and move (`PutFile`, `RenameFile`), transfers arrive and are marked
(`Transfer`, `MarkLibraryIndexDirty`, whose mark is a file or, if that fails, a flag in memory), the setting
changes, a firmware of another fold version or format is started, and
the library, Home or a prompt start builds. `reported` is history: what has been transferred and marked and
not been touched since.

### 2.8 FileTransfer

`handleClient()` takes one HTTP request from the first byte to the answer and only then lets the WebSocket
deliver, so HTTP requests exclude each
other and a WebSocket upload interleaves with all of them: every WebSocket action has `Serving` as a guard,
every HTTP request that writes is
two steps or more, because the power can go inside it. What stands under a name is the number of the transfer
that wrote it and whether it is whole. The
WebSocket upload is the module globals: `wsUploadPath` is overwritten by a START that is refused for its name,
and an abort removes *by name*.
`promised` is what the owner of a name was last told it holds; `spoiled` are transfers whose file nobody can
vouch for: a power cut, a
result the code does not read, or a request that took the file away.

### 2.9 FirmwareUpdate

A slot holds an image, of which matters whether it is whole, built for the device, and confirms itself; an
`otadata` entry is a sequence number and a state.
`AppActive` and `BootActive` are the two ways the entries are read, by the application and by the bootloader;
the bootloader, with or without rollback, is
modelled from its documented behaviour (`external` in `PROJECT.json`). `PickFirmware`,
`ConfirmUpdate`/`RefuseUpdate`/`Decline`, `FlashImage` are the update from the card, which may be exchanged
by `SwapCard` before the file is opened for good; `InstallUpdate` and `FinishDownload` the one over the
network, of which the manifest may carry a digest; both end in `EraseEntry`,
`WriteEntry` and `Restart`. `NewSeq`, `ActiveEntry` and `TargetSlot` are the arithmetic of
`OtaBootSwitch.cpp`. `lapsed` remembers that a confirmation failed, which nobody looks at.

### 2.10 What is assumed of code outside the repository

* SdFat: `rename` moves a directory entry, as one operation, and fails when the new name is taken; opening for
  write truncates; a
  failed or cut write leaves a prefix. What it does with a handle whose file was removed is left out: the
  transfer then writes nowhere.
  `HalStorage::writeFile()`, on which `drain()` relies, is in a
  submodule; as the comments of its callers say, it keeps the old file on failure.
* `Storage.remove()` of an outbox over its cap succeeds.
* FreeRTOS: both tasks keep being scheduled, a notification is not lost, the lock excludes.
* The bootloader takes the usable `otadata` entry with the highest number, slot 0 without one, and the other
  slot when the selected one does not verify.
* A crash in deep sleep does not happen, and RTC memory survives every reset that is not a loss of power.

---

## 3. The model-checking runs

Every passing run explores its instance completely, none with a state constraint. "States" are distinct states.

| run | instance | states | shows |
|---|---|---|---|
| `activities` | four activities, one per kind: ordinary, reader, statistics, exclusive | 148 k | four invariants, two action properties, the refinement, two liveness properties |
| `boots` | every store bad alone and in combinations, books that kill the device, 2 other failures (a cut, a failed save, read or removal), 3 user acts | 2 532 k | the culprit is skipped, nothing resumes or is retried for ever, boots end |
| `outbox_delivery` | 2 plugins, 2 kinds, 3 events, 1 failure, 1 manifest edit | 368 k | delivered, in order, bounded, drained |
| `stats_crash` | 2 books, 2 units of time, 1 failure, any number of power cuts | 310 k | saved time survives, removals and resets are final |
| `syncs` | 2 books of 2 pages, 1 failure or cut, 1 write of another device | 759 k | books open where they belong, records serve once, nothing is put back, syncs end or ask |
| `files_replaced` | 5 disciplines, 2 values, 3 failures or cuts | 8.6 k | never torn, "saved" is saved, later saves succeed |
| `library` | 3 paths, 2 books of one size, 2 changes, 2 failures or cuts | 642 k | index never lost, transfers not forgotten, order of arrival kept |
| `transfers` | 2 names, 2 clients, 4 transfers, 2 failures or cuts | 751 k | nothing truncated, promises kept, clients do not disturb each other |
| `firmware` | 2 versions, 2 updates, 2 failures or cuts | 359 k | never bricked, updates atomic and true, comes up again |
| `boot_watchdog`, `transfers_abort`, `stats_touch` | the smallest that shows it | | section 6.1: one statement of a comment or document each, violated |

The properties checked here are those that take several steps or several actors to break. What the proofs of
section 5 establish for every instance and what
could be broken only by a slip in the model (the type invariants of the modules that have proofs,
`PendingIsComplete`, `WakeIsForTheWaiter`, `UploadHasItsOwner`,
`SelectedIsWhole`, `UpdatesOnlyMoveForward`) has no run of its own; its theorem is in section 5.

### 3.1 `activities`

*Why four activities are enough.* The code distinguishes only four kinds (reader or not, named
"ReadingStats" or not, exclusive or not); with one object of each, a stack of three under a pending
fourth occurs, an object is destroyed and its address reused, and a handler waits for one child while another is
launched. All its safety properties are proved for any set of activities
(section 5), so that the bound matters only for the two liveness properties.

* `DrawsOnlyTheCurrent`: no `render()` runs on an object that was destroyed or moved aside.
* `OneOwner`: each object has exactly one owner, and `onExit()` is called once for each `onEnter()`.
* `SleepScreenAlone`: when `goToSleep()` returns, the sleep screen is up and alone.
* `SessionRunsWhileReading`: with a reader on screen and nothing queued, reading time is being counted.
* `ResultsReachTheirHandler`: a handler runs only when the very child it was armed for is popped.
* `ExclusiveIsNeverLeft`: nothing but a restart leaves a screen that owns the raw card.
* `ImplementsScreenStack`: the refinement of section 2.1.
* `WaitReturns`, `RequestedUpdateIsDrawn`: under the fairness of section 4.

### 3.2 `boots`

*Why the bounds are enough.* The code remembers a crash over one
boot (`recovery.json` until the next boot completes), so that the interesting sequences are short: a crash,
another failure while it is being
handled, one more boot. Two failures and three user acts allow that between two acts that arm tokens, and one
more act to use them. The run bounds neither the number of boots nor
the number of deaths by bad data. `Deaths` are a panic and a watchdog reset that leaves nothing; the third
kind is the finding of section 6.1.

* `CulpritIsSkipped`: bad data does not kill two boots in a row in the same stage, provided that the next boot
  can tell a crash from a restart.
* `AfterACrashNothingResumes`: no boot after a panic or under a forced Home resumes a deck, an update or a sync, or
  opens a book. The one book it allows is the one found while modelling the removal that fails (section 6.2): that
  of a silent restart, in a boot that only a `recovery.json` left over from a completed boot forces to Home.
* `NothingIsRetriedForever`: the silent token acts in one boot; the splashless wake and the deck's flag in one boot,
  and a book that kills the device is opened by two without the user asking, *plus one for each save of
  `state.json` that failed since the flags were armed*. TLC reaches the second splashless wake after one
  failed save; that the others are bounded in the same way for any number of failures is the theorem.
* `BootSettles`: however bad the data that recovery can leave out, in the end the device is in use or asleep
  (or dies for ever by watchdogs that leave no trace).

`CHECK_DEADLOCK FALSE`: with its budgets used up, a device that is asleep stays asleep.

### 3.3 `outbox_delivery`

The sizes are scaled: a line is 2 or 3 (`MAX_EVENT_LINE` is 2, so that one kind of line fits and
one does not), the cap is 2 for 4096. What matters of them is that `emit()` lets a line start below
the cap and end above it, by at most what `drain()` allows. With 3 events and `maxEvents` 2 the budget of one
drain runs out both inside a queue and between two.

* `DeliveryIsReliable` is two parts. `NothingIsLost`: an appended event is in the outbox, delivered, or was
  dropped on purpose, whatever fails; the exception
  is the one that `truncate()`'s unchecked result leaves, a line appended to the remains of a cut one.
  `DeliveredInOrder`: a server never hears for the first time of an event after a later one; the exception
  is an event that was passed over for want of a handler and stayed in the file, which a later manifest may bring back.
* `OutboxStaysReadable`: the file never outgrows what `drain()` agrees to read.
* `QueuesEmpty`: once events and failures stop, the queue of each subscribed plugin empties.

`CHECK_DEADLOCK FALSE`: the budget of events ends.

### 3.4 `stats_crash`

Two books, so that one can be lost while the other is saved, and so that removing one leaves the store non-empty; two
units of time, so that an old and a new positive value differ. Power cuts are not bounded. Of the failures of
the card, a write that fails, and a boot that skips the load, are included; a failed
rename, removal or load is not, because with it the code gives up what these properties promise
(section 6.2), and so it does with two of the failures included (section 6.3).

* `SavedTimeSurvives`: what a successful save has written is what the next boot shows, or more.
* `ResetIsFinal`: after a confirmed reset nothing comes back, from the backup or a temporary file, and neither
  does a book that was removed from among others.
* `SuspendedStoreIsNotWritten`: a store that was not loaded leaves a main file that shows data as it is.

`CHECK_DEADLOCK FALSE`: reading time is bounded by `MaxRead`.

### 3.5 `syncs`

Two books, because what another book does with the record of the first is half of what can go wrong; two
pages, so that a position is ahead, behind or equal. Of the
settings, automatic uploads stay on (off, the device only does less), automatic pulls are tried with the
chooser and no pulls with the smart sync. One fault is a failed write,
a book that does not open or a power cut; the same run with two, and one with all four settings, also passed.

* `OpensWhereItWasLeft`: a book opens where it was left or where its sync has put it, whatever comes in between.
* `HandoffServesOneSync`: a record restarts the device at most once, and only while it is pending, and
  outlives only a sync that was interrupted.
* `ServerIsNotPutBack`: an upload the user did not ask for was decided on an answer that was not ahead, also
  when a restart fell between.
* `SyncsEnd`: a sync ends in the book, at home or in a screen that waits for the user (the list of networks, the
  chooser, a failure), also when memory is short each time. An automatic sync does not come to the list of networks
  unless the user asks for it.

Deadlock is checked: there is always a book to open, a page to turn or a question to answer.

### 3.6 `files_replaced`

Two values, the old and the new; three faults cover a cut, another during
recovery, and a third in the retry. The run was also made with three values and five faults; the proofs
of section 5 need no bound at all.

* `CanonicalIsNeverTorn`: reading progress, bookmarks and downloads are never half-written.
* `ReportedIsSaved`: what a save reported saved is what every later start loads.
* `LoadableMovesOnlyByTheSave`: what a start would load is the old value or the new one, outside the windows
  that the code itself names.
* `SavesKeepSucceeding`: no leftover of an interrupted save blocks later ones.

### 3.7 `library`

Three paths, two of them taken by books of the same size, so that a rename is ambiguous and both can vanish
while one appears; time stamps 0 (unknown) and 1. Two
changes and two failures are a transfer, another change, and a build that fails or is cut twice over, which is
what the recovery distinguishes: after two the state of the three files repeats. Sizes other than one add
nothing the
reconciliation tells apart with two books.

* `ShelfIsCurrent`: a transferred book is on the shelf or the next entry rebuilds; a build that reports
  success has left exactly what it walked.
* `IndexIsNeverLost`: once indexed, a card always has a file a recovery would take up.
* `ArrivalsAreKept`: what stays in place keeps its arrival number over any build, and no two books share one.
* `TransfersReachTheShelf`: once failures stop, every transferred book is shown.

`CHECK_DEADLOCK FALSE`: with the changes used up and a current index there is nothing to do.

### 3.8 `transfers`

Two names and two clients, interchangeable (`SYMMETRY`, safety only); four transfers so that a name is
written, taken away by a request, written by another
transfer and then aborted by the first.

* `NoTruncatedFile`: a partial file stands under a name only while its transfer writes it, but for `spoiled` ones.
* `PromisesAreKept`: what a client was told is stored stays stored, whole, until a request names it.
* `LateDisconnectIsHarmless`: the disconnect of one client does not touch the upload of another.

Deadlock is checked: the server can always be stopped and started.

### 3.9 `firmware`

Two releases, an older and a newer one; two updates use both slots and both entries again, two faults are a
cut in the middle of a switch and another failure in its recovery. All properties of safety are proved
for any number of each.

* `NeverBricked`: wherever an update fails and whenever the power goes, the bootloader finds a whole image.
* `ReportedBoots`: an update that reports success is what starts next, checked and byte for byte what was chosen.
* `UpdateIsAtomic`: what would start changes with the last write to `otadata` only, but for the rollback of an
  image on trial.
* `ComesUpAgain`: with rollback, an image that crashes before it is confirmed is given up for the one before.

`CHECK_DEADLOCK FALSE`: after its updates a device may simply run.

---

## 4. Fairness, and why the code justifies it

* `ActivityManager!FairSpec`. FreeRTOS schedules both tasks: weak fairness of `MainProgress` and
  `RenderProgress`, the steps that follow one from the other without a choice. A callback is finite code, so that although
  it may make any number of requests, it returns: strong fairness of `CallbackReturn`. Gestures, a release that is
  swallowed, and the statistics shortcut are events that do not come in every iteration for ever, so that
  `loop()` gets to the activity and to the pending action again and again: strong fairness of
  `LoopProceeds`. The main loop calls `delay()` or `yield()` in each iteration with the lock free, and the
  render task gets it: strong fairness of `RenderBegin`. Nothing forces an activity to request anything.
* `BootSequence!FairSpec`. Weak fairness of `Setup`, the firmware's own steps. The user and the failures are
  bound to nothing; a failed save or removal is one of the failures.
* `PluginOutbox!FairSpec`. `emit()` runs to its end, and the device goes online again and again: weak fairness
  of `Drain`, justified by the calls in `src/main.cpp:432-475` before sleep and in the network screens. It is an
  assumption about the user that there is a network at all.
* `KOReaderSync!FairSpec`. Weak fairness of `DeviceStep`: the main task goes on with a sync and with opening a
  book. That includes the search for a saved network (state `"WIFI"`), where the scan ends by itself and each attempt
  has its time limit (`WifiSelectionActivity.cpp:737`); it ends connected, given up by an automatic sync
  (`autoConnectOnly`, line 346), or in the list of networks. There (`"WIFI_LIST"`) the code waits for the user
  without a limit and keeps the device awake, so `UseNetworkList` is a step of the user, with no fairness, like
  the answers to the other screens in `Waiting`. Neither the user nor another device nor the power need do anything.
* `FileReplacement!FairSpec`. A save runs to its end, a device that was cut is switched on, and there is always
  something more to save: the firmware saves progress on page turns and settings on change.
* `LibraryIndex!FairSpec`. A build runs to its end and a transfer is marked (weak fairness of `Build` and
  `MarkLibraryIndexDirty`, code of one task), and the reader opens the library
  now and then (weak fairness of `EnterLibrary`, which is enabled only while a rebuild is due).
* `FirmwareUpdate!FairSpec`. Weak fairness of `Update`, an update that was begun, and `Start`, the bootloader
  and `setup()`. Nobody must begin an update.
* `ReadingStatsStore` and `FileTransfer` claim safety only, and have no fairness.

---

## 5. What is proved

All proof modules have the same shape: an inductive invariant, a conjunction of named parts; the lemma that
`Init` establishes it; one lemma per action, or group of actions, with a step for each part
the action can disturb; `Invariance == Spec => []IInv`; and the theorems that a reader wants, each from
`Invariance`. They hold for every value of the constants: any number of activities, plugins, books, clients,
failures and power cuts.

### 5.1 ActivityManagerProofs

For **any** set of activities, readers, statistics and exclusive screens, and so for stacks of any depth. The only
assumption is `ActivityAssumption` (`Nil` is not an activity, the kinds are disjoint).

| theorem | property |
|---|---|
| `TypeCorrect` | `TypeOK` |
| `NoUseAfterFree` | `DrawsOnlyTheCurrent` |
| `Ownership` | `OneOwner` |
| `TransitionsAreComplete` | `PendingIsComplete`: the `while` of `loop()` never spins with nothing to launch |
| `NoStrayWakeUp` | `WakeIsForTheWaiter`: no wake-up outlives the wait it answers |
| `ExclusiveStays` | `ExclusiveIsNeverLeft` |
| `Refinement` | `ImplementsScreenStack` |
| `ResultsReach` | `ResultsReachTheirHandler` |
| `SleepsAlone` | `SleepScreenAlone` |
| `SessionRuns` | `SessionRunsWhileReading` |

`DrawsOnlyTheCurrent` is not inductive: it says nothing of *who* may change
`currentActivity`. The argument is the one a reviewer of the code would make, and the strengthening spells it
out. `LockHeld` ties the render lock to the two program counters: the main task has it exactly in
the middle of a transition or of a callback's own critical section, the render task from before it reads
`currentActivity` until after it has looked for a waiter. So whenever the main task is at
`"transition"`, the render task is not drawing. Two places change the current activity *without* the lock: `Init`,
and `replaceActivity()` when there is none. For them `MainPlace` says that the current activity
is null exactly at `"launch"`, and a `render()` that began then drew nothing. `EnterIsFinished` says that only a
callback runs on an activity whose `onEnter()` has not returned, which is what makes everything on the stack
"entered". `ExclusiveStays` needs one more invariant, `ExclusivePlace`: an exclusive
screen never waits on the stack, and while it is current it is being entered with no navigation queued, or the main task
is in the branch of `loop()` that applies none.

Its second half adds three invariants to `IInv`. `HandlerPlace`: a handler is armed for the activity
directly above, or for the pending one, and a
queued replacement destroys everybody. `SleepPlace`: from `goToSleep()` on, the sleep screen is the pending
replacement or alone on the screen.
`SessionPlace`: a reader is only at the bottom of the stack, and while the session is paused its handler is
armed for a statistics screen, so the pause is undone by whatever ends that screen. The refinement needs
`IInv` only: every step is one that leaves the screens and the drawing alone (`StillStep`), or it opens,
closes or draws one while `LockHeld` keeps the other task out.

### 5.2 BootSequenceProofs

| theorem | property |
|---|---|
| `TypeCorrect` | `TypeOK` |
| `NoRetryForever` | `NothingIsRetriedForever` |
| `NoResumption` | `AfterACrashNothingResumes` |
| `CulpritSkipped` | `CulpritIsSkipped` |

For any bad data, any budget of failures and acts, and any contents of RTC memory at power-on. What makes the
one-shots inductive is when they are armed. The token is armed only
by a device that came up in full, and the next boot takes it: until then nothing but a left-over
`recovery.json` names a culprit, the
stage is "Completed" and no book has been opened by itself (`TokenIsFresh`). Where a flag of `state.json` is still
set, in memory or on the card, it has acted at most as often as saves failed since it was armed, because each of its
uses goes with a save that clears it; the deck's flag, which is cleared stages before it acts, has to be followed
in between (`FlagsAreFresh`). A wake
opens the book only with no attempt counted, and counts its own before it tries, if the card takes it
(`OpensAreCounted`); the
silent restart is the one other
opening, which is where the two in the bound come from. `NoResumption` then needs one fact of `TokenIsFresh`: a boot
that took the token and skips a store has that from a left-over `recovery.json`. `CulpritSkipped` is under two hypotheses on the
constants, stated in the theorem: no captured watchdog reset (`DeathsAreTold`; with one it is false, section
6.1), and
what a stage without a store of its own dies of is left out for that stage (`CulpritsAreMasked`). Its
invariant `CulpritIsKnown` follows the stage of the crash from RTC memory to the mask.

### 5.3 PluginOutboxProofs

| theorem | property |
|---|---|
| `TypeCorrect` | `TypeOK` |
| `Reliable` | `DeliveryIsReliable` |
| `StaysReadable` | `OutboxStaysReadable` |

For any number of plugins, kinds, events, sizes, failures and manifest edits. `QueuesAreSorted`: the events of
a file are in the order of their numbers, lines without one are corrupt. `HeardAreOld` and `EventIsNew`: what
a
server has heard of is not newer than what `emit()` has got to. `PassedIsDone`: the lines a drain has gone
past were delivered or dropped, so the rewrite loses nothing. `WaitingIsNewer`: what waits is newer than
everything
its server has heard of, which is the order of delivery as an invariant.

`StaysReadable` is about sums. The size of a file is the last of its partial sums, `Bytes(q)[Len(q)]`, a
function defined by recursion, so what an append or a rewrite does to it would take an induction over the
lines. The lemmas make it without one: were a fact about partial sums false somewhere, there would be a *first*
place where it is false (`NoFirst`, from the well-foundedness of the numbers), and there the
definition itself refutes it. From that come `BytesExist`, the size after an append
(`SizeOfAppended`), and that dropping a prefix, which is what a rewrite does, shifts the sums (`BytesShift`,
`SizeOfRest`). The invariant is then one line per action: only `emit()` makes a file longer, and it looks at the
cap first.

### 5.4 CardStorageProofs

The four theorems about `FileReplacement`:

| theorem | property |
|---|---|
| `TypeCorrect` | `TypeOK` |
| `NeverTorn` | `CanonicalIsNeverTorn` |
| `ReportsAreTrue` | `ReportedIsSaved` |
| `OldOrNew` | `LoadableMovesOnlyByTheSave` |

The strengthening says what each operation may rely on: the temporary file holds the value from the write on
(`TmpHoldsValue`), the target after the rename (`TargetHoldsValue`), the JSON discipline renames only to a free
name (`NameIsFree`), and a lone temporary file is left behind only by a rename or a close that
failed (`OnlyCopyIsExcused`). The last one is what `ReportedIsSaved` needs over restarts: without it a stale
temporary file could be promoted over what a later save reported.

And the four about `ReadingStatsStore`:

| theorem | property | under |
|---|---|---|
| `StoreTypeCorrect` | `StoreTypeOK` | |
| `SavedTimeIsKept` | `SavedTimeSurvives`, `MemoryCoversTheCard` | `SavesAreSound` |
| `ForgottenStaysAway` | `ResetIsFinal` | `RemovalsAreSound` |
| `SuspendedIsLeftAlone` | `SuspendedStoreIsNotWritten` | `OnlyWritesFail` |

For any books, any reading time and any number of power cuts. The hypotheses are on the constants, and name the faults
without which the property would be false; the run `stats_crash` satisfies all three.

* `OnlyWritesFail`: renames, removals and loads succeed; writes fail as often as they like, and boots are
  made in recovery mode. TLC finds `ResetIsFinal` violated by one removal that fails, and `SuspendedStoreIsNotWritten` by four faults
  with a removal that fails among them: no caller looks at the result of a removal of the backup.
* `RemovalsAreSound` and `SavesAreSound` ask for a board without a touch screen: `stats_touch` says why, and there
  a book that was removed comes back too, once the emptied store has been saved over the others.
* `SavesAreSound` allows any number of failed writes, removals and boots in recovery, but only one failure
  when both writes and boots can fail: with two the code loses what was saved (section 6.3).

A call of this store is a set of runs, each with the trail of card contents it passes
through. The lemmas follow the code, one for each operation on the card and one for each function, and say of *every*
run where it ends and where it may be cut: `RemoveIs`, `RenameIs`, `WriteIs`, `CopyIs`, `PromoteIs`, `SaveIs`,
`PrepareIs`, `RefreshIs`, `RestoreIs`, `PersistIs`, `LoadMainIs`, `LoadIs`, `ImportIs`. `CopyPlace`, `BakPlace`,
`SavePlace` and `PersistPlace` are those places: a save passes through cards whose main file is the old one,
or the new one, or missing with the new one whole beside it. Each is proved once, and the three invariants use them.

* `SavedInv`. The file a boot would load (`MainOf`: the main file, or the temporary one when it is missing) is
  whole and shows what was saved (`Holds`); the memory covers it unless the store is suspended; a store that may write
  has a main file. A load then loads exactly that file (`LoadGood`), and a save replaces it by
  what is in memory, which is no less.
* `GoneInv`. Of a forgotten book there is nothing in any of the files a load reads (`ZeroOn`), or the file
  a boot loads shows other books only, so that no backup is asked for; there is nothing in memory; and as long as the
  store may write it has other books to write. Without this last part a save of an empty store
  would make the next boot take the main file for a damaged one and bring the backup back.
* `BackupInv`. Where the backup has data, the file a boot would load is whole or is the backup itself (`Backed`); a
  store that may write has a main file if it has a backup (`Mained`). So a load that restores the
  backup over a main file with data restores the same data (`LoadKeepsMain`).

### 5.5 LibraryIndexProofs

| theorem | property |
|---|---|
| `TypeCorrect` | `TypeOK` |
| `Current` | `ShelfIsCurrent` |
| `NeverLost` | `IndexIsNeverLost` |
| `ArrivalsKept` | `ArrivalsAreKept`, while the counter of arrivals has not come round (`NewcomersFit`) |

For any finite set of paths. `Places` says which of the three files a step finds; `Written`, that what was
written, installed and is about to be reported is an index of what was walked; `BrokenTogether`, that only a
firmware of another format breaks an index, and then both. `Remembered` is the heart: until the mark is
cleared it stands for what no index knows, neither the live one nor the backup that a recovery may prefer to
it. Every step is then one that leaves the indices, moves one, marks,
changes the firmware, clears the mark or restarts.

`ArrivalsKept` has a hypothesis on the behaviour, stated in the theorem: a walk never meets as many new books as
there are numbers left (`PriorNext` plus the newcomers stays below `SeenLimit`). The counter (`nextFirstSeen`,
`LibraryBuilder.cpp:252`) is 16 bits wide and goes on from zero at its end, where two books could share a
number; TLC confirms that the hypothesis holds in every state of the run `library`. The argument is that a
reconciled index numbers its books one to one (`Numbered`): the books that keep their entry keep their number,
which is below the old counter, and the
newcomers take the numbers from there on, one each (`PriorIsNumbered`, `UnresolvedAreNew`,
`ReconciledIsNumbered`). `NumbersKept` carries it to the index that is written, installed, and recovered.

### 5.6 FileTransferProofs

| theorem | property |
|---|---|
| `TypeCorrect` | `TypeOK` |
| `NoTruncatedFileHolds` | `NoTruncatedFile` |
| `PromisesAreKeptHolds` | `PromisesAreKept` |
| `UploadHasItsOwnerHolds` | `UploadHasItsOwner`: the open upload belongs to a client that is connected and can end it |
| `LateDisconnectIsHarmlessHolds` | `LateDisconnectIsHarmless` |

`WritersAreSound`: the request that writes, and the open upload, have numbers of their own and find their
files as they left them, unless `spoiled`.

### 5.7 FirmwareUpdateProofs

| theorem | property |
|---|---|
| `TypeCorrect` | `TypeOK` |
| `NeverBrickedHolds` | `NeverBricked` |
| `SelectedIsWholeHolds` | `SelectedIsWhole`: as long as confirmations succeed, what `otadata` selects is whole and the bootloader never falls back |
| `ReportedBootsHolds` | `ReportedBoots` |
| `UpdatesOnlyMoveForwardHolds` | `UpdatesOnlyMoveForward`: with a digest in the manifest, an update over the network never goes back |
| `UpdateIsAtomicHolds` | `UpdateIsAtomic` |

For any number of updates and so any sequence number: the lemmas on `NewSeq` show that the entry written last
has the highest number and selects the slot written, for either parity. `IInv` says that the running slot is
whole, that each step of an
update has what the step before has checked (`JobIsSound`), and, while no confirmation failed, that an image
on trial was selected last, over entries that are confirmed and whole (`EntriesAreSound`). Once one has failed
only the
running slot is promised, and the bootloader's fallback finds it.

### 5.8 KOReaderSyncProofs

| theorem | property |
|---|---|
| `TypeCorrect` | `TypeOK` |
| `OneSync` | `HandoffServesOneSync` |
| `OpensAtPlace` | `OpensWhereItWasLeft` |
| `NotPutBack` | `ServerIsNotPutBack` |

For any set of books and settings, and any number of pages, faults and other devices' records. None of the four is
inductive.

* `TypeOK` needs `Shown`: the position the chooser applies was found on the server.
* `HandoffServesOneSync` needs `Handoffs`, which says who holds the record at each screen: the sync under way has an
  active record of its own book, pending until the outcome is known; a device that restarts has saved it and
  may resume it; the reader never has a record of its own book left. And it needs `OneRestart`: an activity that
  does not know of a restart follows none.
* `ServerIsNotPutBack` needs `Decisions`: an upload under way, *and a record that will be resumed as an
  upload*, was asked for or decided on a record that was not ahead. This is what a restart between decision and
  upload must not lose.
* `OpensWhereItWasLeft` needs `DueIsWhere`. `Where(b)` is where the next opening of `b` goes: to the record's position,
  when the record is about `b` and its outcome is to be applied, or else to the progress file. The invariant is that
  this is where `b` was left, for every book not in doubt, *whatever the record says of another book*; and that
  the progress file of a book that is being synchronised says it too, so that it does not matter whether the
  outcome keeps the file (`Keeps`) or not.

Every handler that ends a sync goes through `resumeReader()`, so one lemma, `ResumeKeeps`, proves eight
of the actions: cancelled, failed, uploaded, or applied.

### 5.9 What stays with TLC

* Liveness under fairness (`WaitReturns`, `RequestedUpdateIsDrawn`, `BootSettles`, `QueuesEmpty`, `SyncsEnd`,
  `SavesKeepSucceeding`, `TransfersReachTheShelf`, `ComesUpAgain`): out of
  the prover's reach, and so is anything about `ENABLED`.

Every other property a passing run checks is proved, under the hypotheses named above where there are any.

---

## 6. Where the code and its documents disagree

### 6.1 Runs that find a violation

Each checks one property, which states what a comment or a document says.

* **`boot_watchdog`** (`PanicBootEntersRecovery`). `main.cpp:601-602` keeps the boot's classification because
  `checkPanic()` clears the
  capture marker; but `BootRecovery::initialize()` asks the hardware again, after that (`HalSystem.cpp:119`,
  `BootRecovery.cpp:161`). After a watchdog reset with captured diagnostics recovery is not entered, and the same
  store is loaded and dies again.
* **`stats_touch`** (`SavedTimeSurvives` on a board with a touch screen). After a network session such a board
  goes on in place with
  the released, empty store (`main.cpp:276`); the next session that is saved replaces the file on the card.
* **`transfers_abort`** (`OnlyIncompleteUploadsAreDeleted`). `docs/webserver-endpoints.md:467`: "Incomplete
  WebSocket uploads are
  deleted on disconnect or error." An upload is aborted by name (`CrossPointWebServer.cpp:797-800`), and HTTP
  requests that run between its messages
  may have removed its file and put a complete one there, which is then deleted.

### 6.2 Properties that a module states and no run checks, and what was weakened

These are in the modules as definitions, each with the comment it comes from; they have no run of their own.
TLC finds all but the last violated.

* `ExcursionsDoNotPersist` (`KOReaderSync`). `EpubReaderActivity.cpp:498`: "A footnote excursion must not
  persist as the reading
  position." `launchKOReaderSync()` saves the page it is on and releases the book, so that `onExit()`, which
  would go back, has no book; a sync launched from a
  footnote, by the menu or at closing, leaves the footnote's page in the progress file, and an automatic
  upload sends it. Found in five states.
* `WaitSeesItsOwnRender` (`ActivityManager`). `ActivityManager.h:131`: "Trigger a render and block until it
  completes". The render task wakes the waiter after *any* render
  (`ActivityManager.cpp:119`), also one that was already drawing when the caller registered.
* `FailedCommitKeepsOne` (`FileReplacement`). `PluginEvents.cpp:342-344`: "a failed commit must
  not lose both the old file and the fresh download". A commit begins by removing the backup (line 346), which
  after a cut is the only old copy; found with `MaxFaults = 2`.
* `ProgressIsNeverTorn` (`FileReplacement`). `ProgressFile.h:12-16` promises that the file is renamed "only
  once that is fully
  written and closed"; the result of the close is not looked at (line 55).
* `FailuresRetainTheIndex` (`LibraryIndex`). `LibraryBuilderTest.cpp:295` tests that read, write, close and
  allocation failures retain the
  previous index; a folder that cannot be opened (`LibraryBuilder.cpp:433-437`) is walked as an empty one, its
  books leave the index and the mark is cleared.
* `MemoryCoversTheCard` (`ReadingStatsStore`) holds in `stats_crash` and is proved beside `SavedTimeSurvives`,
  which rests on it; it has no run of its own.

What was weakened, and why:

* `NothingIsLost` exempts the line after a cut one (`truncate()`'s result is dropped), and `DeliveredInOrder`
  an event passed over for want of a
  handler whose rewrite failed: a manifest that handles it again brings it back. (With two edits and two
  events this also passes; three and two are too many states.)
* `stats_crash` leaves out failed renames, removals and loads: with a failed load, for want of memory, the older backup
  replaces a good main file (`ReadingStatsStore.cpp:1817`); with a failed removal a reset comes undone (line 1652).
* `ResetIsFinal` exempts the removal of the last book (`Kept`): it leaves a main file without data, which the
  next boot takes for a damaged one and replaces by the
  backup (`ReadingStatsStore.cpp:1819`), although `CHANGELOG.md:329` says that resets remove the book entry.
* `NothingIsRetriedForever` allows one more act for each save of `state.json` that failed since the device was put to
  sleep: `main.cpp:824`, `863` and `1010` do not look at the result, so that the flag of the deck or the splash, or the
  count of attempts to open the book, stays on the card as it was. A save that fails in a way that
  loses the old file too acts like a boot that skips the store.
* `AfterACrashNothingResumes` exempts the silent restart after a boot that could not remove its `recovery.json`:
  `clearRecoveryState()` (`BootRecovery.cpp:145-147`) does not look at the result, the next boot is forced to Home
  again, and `main.cpp:960`, which opens the book of a silent restart, does not test `forceHomeBoot`. One boot
  that cannot read the file has the same effect on the next. No document says otherwise, so there is no run for it.
* `ReportedBoots` takes the card to stay where it is between the second validation and the opening of the same file
  (`FirmwareFlasher.cpp:290` and `298`; the validation closes what it has read, line 271): a card exchanged in that
  moment is flashed unchecked, and the update reports success. The exchange the property covers is the one while
  the user is asked.
* `UpdateIsAtomic` exempts an image on trial (`OnTrial`), which the bootloader's rollback leaves, and so
  does a cut in the middle of the confirmation, which rewrites its entry.
* `LoadableMovesOnlyByTheSave` allows progress and downloads a moment without a file, and JSON and flashcard files to vanish
  after a rename that failed.
* `ShelfIsCurrent` speaks of folders every walk could open. A mark held in memory only, because its file could
  not be created, is forgotten by a restart. After a change of the
  fold version there and back, a backup that could not be removed is the index that opens, and the recovery
  brings it up, without what has been shelved since.
* `PromisesAreKept` and `NoTruncatedFile` exempt transfers whose file a power cut, an unread result or another
  request has spoiled.
* `SelectedIsWhole` and `ComesUpAgain` exempt a device on which a confirmation failed: `main.cpp:625` does not
  look at the result of
  `esp_ota_mark_app_valid_cancel_rollback()`, and an update over the unconfirmed image erases the only entry
  there is to fall back to.
* `OpensWhereItWasLeft` exempts books in doubt: one whose footnote was saved last, one whose position or
  record could not be written, one whose record another book's sync has overwritten.

### 6.3 What a reader of the code may want to know

Met while modelling; none contradicts a property as it is stated in its module.

* *Plugin events*: a busy first plugin spends the budget of every drain in table order (`PluginEvents.cpp:404`).
* *File replacement*: a temporary file can be the only copy when neither rename nor copy worked, and the next
  save truncates it (`JsonSettingsIO.cpp:236`); a cut in the checked copy leaves a
  torn target that the loaders prefer (line 136); when the rename of the flashcards fails the temporary file
  is removed too (`FlashcardsStore.cpp:180`).
* *Reading statistics*: after a boot in recovery mode the main file may still be missing, with what was saved
  whole in the temporary file. An import then removes the backup, because there is no main file to refresh it from
  (`ReadingStatsStore.cpp:901-907`), and its save removes the temporary file before it writes; if that write
  fails nothing is left to load, although the log says that the import was rolled back.
* *Library index*: PUT, rename and MOVE leave no mark, although `LibraryBuilder.h:73-74` says that a
  successful transfer marks the index; a live index shorter than its header makes every recovery fail;
  an empty card is rebuilt at each entry.
* *Transfers*: `docs/webserver.md:99` says that uploads overwrite existing files; the code refuses them
  (`CrossPointWebServer.cpp:1698`, `3538`). `WebDAVHandler.cpp:79` writes to a temporary file "to avoid
  destroying the original on
  failed upload", but the original is removed before the rename, whose failure loses it. A COPY whose source
  cannot be read on answers success (line 650). An HTTP upload whose client leaves at the very end stays open
  and partial (1764). A MOVE onto a name that differs in case only removes its
  source on FAT. The results of `close()` are not read. A WebSocket client that vanishes holds the upload
  until the screen is left; after a power cut its partial file makes the retry fail.
* *Firmware*: the first confirmation is that of the Arduino core, before `setup()`
  (`agent-docs/stability-audit-2026-09.md:403-408`), so an image that crashes later is not rolled back.
  Images without
  a tag pass the device check. Without a digest, the version announced need not be that of the image. `IsUpdateNewer`
  orders versions as the code does, in which a release comes after every development build of its number: for
  those the order is not that of time (`agent-docs/stability-audit-2026-09.md:410-412`), so "never goes back" is about
  numbers, not dates.
* *KOReader sync*: an upload that the smart sync decided on and that the restart resumes is a PUSH_LOCAL,
  which does not compare again (`USER_GUIDE.md:543`): a newer position that another device has put there in
  between is overwritten. An automatic pull takes
  an older position without comparing. When the position of an applied sync cannot be written, the reader
  opens at the old progress. A record left by an interrupted sync turns automatic pulls off for all other
  books until its
  own book is opened, for ever if that book is gone; and the sync of another book overwrites a record not applied yet.

---

## 7. What is not modelled

The components that section 1.2 lists as not modelled. The repository has about 354 000 lines that are counted
as implementation, most of which are generated fonts, hyphenation tries, images and vendored
parsers and decoders; the modules cover the parts that keep state over failures and interleavings, which is a
small part of the lines and most of what a test hardly reaches.

Within the modelled components:

* *Activity manager*: what activities draw and do, memory allocation failures of a launch (the code returns
  before it changes anything), refresh
  modes, input.
* *Boot sequence*: the contents of stores and of the KOReader record (which `KOReaderSync` has), the clock,
  fonts, the frontlight, Home's own
  behaviour. A picker of firmware, a valid profile and the Back button are free choices.
* *Plugin events*: requests, tokens, variable substitution, HTTP; plugins that leave the
  subscription table keep their file, which nothing touches.
* *Reading statistics*: per-day accounting, the session log, streaks, manual corrections, pauses (in
  `ActivityManager`), export, the
  dated automatic backups. An import over a store that was not loaded gives up, once begun, what the user had been
  warned about.
* *KOReader sync*: `PULL_REMOTE`, which nothing launches; the alternate document hash and its second record;
  the mapping of XPaths to pages; bookmarks; the screens behind the list of networks
  (`UseNetworkList` is their outcome); a footnote inside a footnote;
  registration and authentication.
* *File replacement*: what is in the files; the CSS cache has a variant of its own.
* *Library index*: the caps on records and depth, the removal of duplicates, what is read out of a book. The
  arrival counter is modelled with its modulus, which the instance does not reach.
* *File transfers*: what SdFat does with a handle whose file was removed; out-of-memory outcomes of opening an
  upload; the fonts and plugin requests.
* *Firmware update*: the look-up of a release; a flash write that fails after all of it has landed.

---

## 8. Plan

Done: the activity manager with its abstract specification, every safety property of it proved; the boot
sequence and its proofs; the outbox and the proof of its delivery; the
statistics and file replacement with their proofs; the library index, file transfers and the firmware update with
their proofs; KOReader sync and its proofs.

Next, models:

1. `ReaderSession`: the dwell accounting of `onRenderComplete()`. Property: time is never counted twice nor
   while the reader is not on screen.
2. `FlashcardReview`: the queue and its resumption from a saved session.
3. The composition of `KOReaderSync` with `BootSequence`: the token of the silent restart and the record of
   the sync are armed together.

Next, proofs:

1. The models above, as they are written.
2. `SavedTimeSurvives` for two failures once the import keeps the temporary file; `ResetIsFinal` for a removal
   that fails once its result is looked at. Until then both are false, and the hypotheses stay.
