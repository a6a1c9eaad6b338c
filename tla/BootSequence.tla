---------------------------- MODULE BootSequence ----------------------------
(***************************************************************************)
(* setup() of src/src/main.cpp, with BootRecovery and the reset            *)
(* classification of HalSystem: what a boot reads from the RTC memory and   *)
(* from the SD card, which stores it skips after a crash, which one-shot    *)
(* tokens it consumes, and which activity it ends on.  Boots follow each    *)
(* other: data on the card may kill a stage, power may go at any step, and  *)
(* the user may sleep the device or trigger a silent restart in between.    *)
(***************************************************************************)
EXTENDS Naturals, Sequences

CONSTANTS
    BadData,     \* sets of pairs <<cause, stage>>: data a card may hold that kills a boot
    Deaths,      \* how the code dies: "panic", "watchdogCaptured", "watchdogSilent"
    Garbage,     \* what RTC_NOINIT memory may read as a stage after a cold boot
    MaxFaults,   \* bound: failures that are not caused by the data
    MaxActs      \* bound: things the user does

Stages == << "Settings", "Language", "KOReader", "OPDS", "UiTheme", "State",
             "DisplayAndFonts", "ReadingStats", "RecentBooks", "Favorites",
             "Flashcards", "Achievements", "RouteDecision" >>
StageNames == {Stages[i] : i \in DOMAIN Stages}
Never      == {"UiTheme", "DisplayAndFonts", "RouteDecision"}
Stores     == StageNames \ Never
Bits       == Stores \cup {"ForceHome"}
Recorded   == StageNames \cup {"None", "Completed"}
Targets    == {"none", "home", "reader", "elsewhere", "ota", "koreader"}

ASSUME BootAssumption ==
    /\ Deaths \subseteq {"panic", "watchdogCaptured", "watchdogSilent"}
    /\ Garbage \subseteq Recorded /\ Garbage # {}
    /\ MaxFaults \in Nat /\ MaxActs \in Nat
    /\ \A bad \in BadData : bad \subseteq
           (Stores \X StageNames) \cup ({"Book"} \X {"open", "paint"})

VARIABLES
    pc,      \* where setup() is, or what the device does after it
    pos,     \* the stage setup() is at, an index of Stages
    rtc,     \* RTC_NOINIT memory: the recorded stage, the capture marker, the silent token
    card,    \* the SD card: recovery.json's skip mask and state.json
    app,     \* APP_STATE in RAM
    boot,    \* what this boot has found out and decided
    reader,  \* the reader activity: "none", "opening", "entered" or "shown"
    bad,     \* the bad data on this card
    budget,  \* faults and user acts so far; and of the faults, the writes of state.json
             \* that failed since the device was last put to sleep
    seen     \* history: uses of each one-shot since it was armed, automatic openings
             \* of a book never shown, the stage in which bad data killed the last boot
             \* (none when that boot ended in sleep or in a loss of power), and whether
             \* recovery.json is left over from a boot that completed

vars == <<pc, pos, rtc, card, app, boot, reader, bad, budget, seen>>

-----------------------------------------------------------------------------
DefaultApp == [book |-> FALSE, loads |-> 0, fromReader |-> FALSE,
               bootScreen |-> TRUE, deck |-> FALSE]

FreshBoot(reason, wake) ==
    [reason |-> reason, wake |-> wake, back |-> FALSE, fromPanic |-> FALSE,
     target |-> "none", skips |-> {}, safe |-> FALSE, deck |-> FALSE,
     resume |-> "Splash", route |-> "none"]

\* HalSystem::isRebootFromPanic(): a watchdog counts only with captured diagnostics.
IsPanicReset(reason, captured) ==
    reason = "panic" \/ (reason = "watchdog" /\ captured)

OwnStageOnly(s) == IF s \in {"None", "Completed"} THEN {} ELSE ({s} \cap Stores) \cup {"ForceHome"}

\* getSkipMaskForStage()
SkipMaskForStage(s) ==
    CASE s \in {"UiTheme", "DisplayAndFonts"} -> {"Settings", "Language", "ForceHome"}
      [] s = "ReadingStats"  -> {"ReadingStats", "Achievements", "ForceHome"}
      [] s = "RouteDecision" -> {"ForceHome"}
      [] s \in {"None", "Completed"} -> {}
      [] OTHER -> {s, "ForceHome"}

AfterBackCheck == {"State", "ReadingStats", "RecentBooks", "Favorites",
                   "Flashcards", "Achievements"}

Skipped(s) == s \in boot.skips \/ (boot.safe /\ s \in AfterBackCheck)
ForceHome  == boot.safe \/ "ForceHome" \in boot.skips

\* A stage dies when data loaded in this boot is bad for it.
Fatal(s)      == \E c \in Stores : <<c, s>> \in bad /\ ~Skipped(c)
FatalBook(at) == <<"Book", at>> \in bad

Fault == budget.faults < MaxFaults /\ budget' = [budget EXCEPT !.faults = @ + 1]
MayAct == budget.acts < MaxActs
Acted  == [budget EXCEPT !.acts = @ + 1]
Act    == MayAct /\ budget' = Acted
NoAct  == UNCHANGED budget


\* APP_STATE.saveToFile(), whose result nobody looks at: when it fails, the card
\* keeps what it had.  "spent" is the budget without that failure.
SaveApp(a, spent) ==
    /\ app' = a
    /\ \/ card' = [card EXCEPT !.app = a] /\ budget' = spent
       \/ /\ budget.faults < MaxFaults /\ UNCHANGED card
          /\ budget' = [spent EXCEPT !.faults = @ + 1, !.unsaved = @ + 1]

NotSaved(a, spent) == app' = a /\ budget' = spent /\ UNCHANGED card

Here == Stages[pos]

-----------------------------------------------------------------------------
(* Before the stages.                                                      *)

TokenKept(token) == token

TokenAfterBoot(token) == "none"

BeginSetup ==
    /\ pc = "reset"
    /\ pc' = "begun"
    /\ boot' = [boot EXCEPT !.fromPanic = IsPanicReset(boot.reason, rtc.captured),
                            !.target = rtc.token]
    /\ rtc' = [rtc EXCEPT !.captured = IsPanicReset(boot.reason, @) /\ @,
                          !.token = TokenAfterBoot(@)]
    /\ UNCHANGED <<pos, card, app, reader, bad, budget, seen>>

\* The user holds Back while the device starts.
HoldBack ==
    /\ pc = "begun" /\ ~boot.back
    /\ Act
    /\ boot' = [boot EXCEPT !.back = TRUE]
    /\ UNCHANGED <<pc, pos, rtc, card, app, reader, bad, seen>>

\* Without a card setup() returns after a message; the recorded stage stays.
StorageFails ==
    /\ pc = "begun"
    /\ Fault
    /\ pc' = "cardError"
    /\ UNCHANGED <<pos, rtc, card, app, boot, reader, bad, seen>>

\* Once the report is written in full the marker is taken back.
CheckPanic ==
    /\ pc = "begun"
    /\ pc' = "checked"
    /\ \/ rtc' = [rtc EXCEPT !.captured = FALSE] /\ NoAct
       \/ rtc' = rtc /\ Fault
    /\ UNCHANGED <<pos, card, app, boot, reader, bad, seen>>

InitializeMask ==
    IF IsPanicReset(boot.reason, rtc.captured) THEN SkipMaskForStage(rtc.stage) ELSE {}

LatestOnly(saved, latest) == IF latest = {} THEN saved ELSE latest

MaskAfter(saved, latest) == saved \cup latest

\* A recovery.json that cannot be read counts as none.
InitializeRecovery ==
    /\ pc = "checked"
    /\ pc' = IF InitializeMask = {} THEN "stages" ELSE "saving"
    /\ \/ boot' = [boot EXCEPT !.skips = MaskAfter(card.skips, InitializeMask)] /\ NoAct
       \/ /\ card.skips # {} /\ Fault
          /\ boot' = [boot EXCEPT !.skips = MaskAfter({}, InitializeMask)]
    /\ rtc' = [rtc EXCEPT !.stage = IF InitializeMask = {} THEN "None" ELSE @]
    /\ UNCHANGED <<pos, card, app, reader, bad, seen>>

\* saveRecoveryState(): the temporary file is complete; the old file goes first.
RemoveOldRecovery ==
    /\ pc = "saving"
    /\ pc' = "renaming"
    /\ card' = [card EXCEPT !.skips = {}]
    /\ seen' = [seen EXCEPT !.leftover = FALSE]
    /\ UNCHANGED <<pos, rtc, app, boot, reader, bad, budget>>

RenameRecovery ==
    /\ pc = "renaming"
    /\ pc' = "stages"
    /\ card' = [card EXCEPT !.skips = boot.skips]
    /\ rtc' = [rtc EXCEPT !.stage = "None"]
    /\ UNCHANGED <<pos, app, boot, reader, bad, budget, seen>>

\* The write, the removal or the rename fails; the boot goes on with its mask.
SaveRecoveryFails ==
    /\ pc \in {"saving", "renaming"}
    /\ Fault
    /\ pc' = "stages"
    /\ rtc' = [rtc EXCEPT !.stage = "None"]
    /\ UNCHANGED <<pos, card, app, boot, reader, bad, seen>>

-----------------------------------------------------------------------------
(* The stages, in the order of setup().                                    *)

EnterStage ==
    /\ pc = "stages" /\ ~Skipped(Here)
    /\ pc' = "inStage"
    /\ rtc' = [rtc EXCEPT !.stage = Here]
    /\ UNCHANGED <<pos, card, app, boot, reader, bad, budget, seen>>

\* The decisions taken after the state stage, whether or not it was skipped.
PersistedSleepWake ==
    boot.wake = "PowerButton" /\ ~Skipped("State") /\ ~card.app.bootScreen

ResumeOf == IF boot.target # "none" THEN "Silent"
            ELSE IF PersistedSleepWake THEN "SplashlessWake" ELSE "Splash"

SkipStage ==
    /\ pc = "stages" /\ Skipped(Here)
    /\ pos' = pos + 1
    /\ boot' = IF Here = "State" THEN [boot EXCEPT !.resume = ResumeOf] ELSE boot
    /\ UNCHANGED <<pc, rtc, card, app, reader, bad, budget, seen>>

Leave == pc = "inStage" /\ ~Fatal(Here) /\ pc' = "stages" /\ pos' = pos + 1

LeavePlainStage ==
    /\ Leave
    /\ Here \notin Never \cup {"State"}
    /\ UNCHANGED <<rtc, card, app, boot, reader, bad, budget, seen>>

\* Back is read here, after the first four stores have been loaded.
LeaveUiTheme ==
    /\ Leave
    /\ Here = "UiTheme"
    /\ boot' = [boot EXCEPT !.safe = boot.back]
    /\ UNCHANGED <<rtc, card, app, reader, bad, budget, seen>>

\* Most boards sleep again after power from USB; all do when the press of the
\* power button was not held.
SleepAgain ==
    /\ pc = "inStage" /\ ~Fatal(Here)
    /\ Here = "UiTheme" /\ boot.wake \in {"AfterUSBPower", "PowerButton"}
    /\ pc' = "asleep"
    /\ UNCHANGED <<pos, rtc, card, app, boot, reader, bad, budget, seen>>

DeckConsumed(a) == [a EXCEPT !.deck = FALSE]

LeaveState ==
    /\ Leave
    /\ Here = "State"
    /\ boot' = [boot EXCEPT
                  !.deck = PersistedSleepWake /\ ~Skipped("Flashcards") /\ card.app.deck,
                  !.resume = ResumeOf]
    /\ IF card.app.deck THEN SaveApp(DeckConsumed(card.app), budget)
                        ELSE NotSaved(card.app, budget)
    /\ UNCHANGED <<rtc, reader, bad, seen>>

\* A splashless wake re-arms the splash before anything is painted.
SplashRearmed(a) == [a EXCEPT !.bootScreen = TRUE]

LeaveDisplayAndFonts ==
    /\ Leave
    /\ Here = "DisplayAndFonts"
    /\ IF boot.resume = "SplashlessWake"
       THEN /\ SaveApp(SplashRearmed(app), budget)
            /\ seen' = [seen EXCEPT !.splashless = @ + 1]
       ELSE UNCHANGED <<app, card, budget, seen>>
    /\ UNCHANGED <<rtc, boot, reader, bad>>

-----------------------------------------------------------------------------
(* The route.                                                              *)

OtaBoot      == boot.target = "ota" /\ ~ForceHome /\ ~boot.fromPanic
KOReaderBoot == boot.target = "koreader" /\ ~Skipped("KOReader") /\ ~ForceHome /\ ~boot.fromPanic

BootToHome(backNow) ==
    ForceHome \/ ~app.book \/ ~app.fromReader \/ backNow \/ app.loads > 0

Route(picker, validProfile, backNow) ==
    CASE picker -> "firmware"
      [] ~picker /\ boot.fromPanic /\ ~ForceHome -> "crashReport"
      [] OTHER ->
           IF OtaBoot THEN "ota"
           ELSE IF KOReaderBoot /\ validProfile THEN "koreader"
           ELSE IF boot.resume = "Silent"
                THEN IF boot.target = "reader" /\ app.book THEN "reader"
                     ELSE IF boot.target = "elsewhere" THEN "elsewhere" ELSE "home"
           ELSE IF boot.deck /\ ~ForceHome /\ ~backNow THEN "flashcards"
           ELSE IF BootToHome(backNow) THEN "home" ELSE "wakeReader"

\* A wake into the book forgets it and counts the attempt before it opens.
AppBeforeReader(a) == [a EXCEPT !.book = FALSE, !.loads = @ + 1]

\* A start on purpose, which is recorded on the way to Home or to the cards; a boot
\* after flashing, one of the "Other", is none.
UsefulStarts ==
    CASE boot.resume = "Silent" \/ ForceHome \/ boot.wake = "AfterUSBPower" -> {FALSE}
      [] boot.wake = "PowerButton" -> {TRUE}
      [] OTHER -> BOOLEAN

SaveOnTheWay(r, useful) ==
    CASE r = "wakeReader" -> SaveApp(AppBeforeReader(app), budget)
      [] r \in {"home", "flashcards"} /\ useful -> SaveApp(app, budget)
      [] OTHER -> NotSaved(app, budget)

DecideRoute ==
    /\ pc = "inStage" /\ ~Fatal(Here)
    /\ Here = "RouteDecision"
    /\ pc' = "routed"
    /\ \E picker \in {FALSE} \cup (IF boot.wake = "PowerButton" THEN {TRUE} ELSE {}),
          validProfile \in BOOLEAN, backNow \in {boot.back, TRUE}, useful \in UsefulStarts :
         LET r == Route(picker, validProfile, backNow)
             opens == r \in {"reader", "wakeReader"} IN
         /\ boot' = [boot EXCEPT !.route = IF opens THEN "reader" ELSE r]
         /\ reader' = IF opens THEN "opening" ELSE "none"
         /\ SaveOnTheWay(r, useful)
         /\ seen' = [seen EXCEPT
                       !.silent = IF boot.resume = "Silent" THEN @ + 1 ELSE @,
                       !.deck   = IF r = "flashcards" THEN @ + 1 ELSE @,
                       !.opens  = IF opens THEN @ + 1 ELSE @]
    /\ UNCHANGED <<pos, rtc, bad>>

\* onEnter() of the reader: inside setup() when no activity is shown yet,
\* in loop() once the splash screen has been.
ReaderMayEnter ==
    IF boot.resume = "Splash" THEN pc = "running" ELSE pc \in {"routed", "running"}

EnterReader ==
    /\ reader = "opening" /\ ReaderMayEnter /\ ~FatalBook("open")
    /\ reader' = "entered"
    /\ SaveApp([app EXCEPT !.book = TRUE], budget)
    /\ UNCHANGED <<pc, pos, rtc, boot, bad, seen>>

PaintReader ==
    /\ reader = "entered" /\ ~FatalBook("paint")
    /\ reader' = "shown"
    /\ seen' = [seen EXCEPT !.opens = 0]
    /\ UNCHANGED <<pc, pos, rtc, card, app, boot, bad, budget>>

RouteStageKept == "RouteDecision"

StageAfterBoot == "Completed"

\* clearRecoveryState(): a removal that fails leaves the file for the next boot.
ClearRecoveryState ==
    IF boot.skips = {} THEN UNCHANGED <<card, budget>>
    ELSE \/ card' = [card EXCEPT !.skips = {}] /\ NoAct
         \/ card.skips # {} /\ Fault /\ UNCHANGED card

MarkBootCompleted ==
    /\ pc = "routed"
    /\ reader = "opening" => boot.resume = "Splash"
    /\ pc' = "running"
    /\ rtc' = [rtc EXCEPT !.stage = StageAfterBoot]
    /\ ClearRecoveryState
    /\ seen' = [seen EXCEPT !.died = "None", !.leftover = (card'.skips # {})]
    /\ UNCHANGED <<pos, app, boot, reader, bad>>

-----------------------------------------------------------------------------
(* The device in use.                                                      *)

InUse == pc = "running" /\ reader \in {"none", "shown"}

OpenBook ==
    /\ InUse /\ reader = "none" /\ Act
    /\ boot' = [boot EXCEPT !.route = "reader"]
    /\ reader' = "opening"
    /\ seen' = [seen EXCEPT !.opens = 0]
    /\ UNCHANGED <<pc, pos, rtc, card, app, bad>>

AppAfterReader(a) == IF reader = "shown" THEN [a EXCEPT !.loads = 0] ELSE a

LeaveBook ==
    /\ InUse /\ reader = "shown" /\ MayAct
    /\ boot' = [boot EXCEPT !.route = "home"]
    /\ reader' = "none"
    /\ SaveApp(AppAfterReader(app), Acted)
    /\ UNCHANGED <<pc, pos, rtc, bad, seen>>

\* armSilentReboot(); the popup is drawn before ESP.restart() is called.  A reader
\* that is left saves, and so does the screen that asks for the reader.
ArmSilentReboot ==
    /\ InUse /\ MayAct
    /\ \E t \in Targets \ {"none"} :
         /\ rtc' = [rtc EXCEPT !.token = t]
         /\ IF t = "reader" THEN SaveApp([AppAfterReader(app) EXCEPT !.book = TRUE], Acted)
            ELSE IF reader = "shown" THEN SaveApp(AppAfterReader(app), Acted)
            ELSE NotSaved(app, Acted)
    /\ pc' = "restarting" /\ reader' = "none"
    /\ seen' = [seen EXCEPT !.silent = 0, !.opens = 0]
    /\ UNCHANGED <<pos, boot, bad>>

\* enterDeepSleep(): the sleep screen replaces the activity, whose onExit() may
\* save the state already; the state is saved for good after the screen is drawn.
EnterDeepSleep ==
    /\ InUse /\ MayAct
    /\ \E studying \in BOOLEAN :
         LET slept == [Acted EXCEPT !.unsaved = 0]
             a == [app EXCEPT !.fromReader = (reader = "shown"), !.bootScreen = FALSE,
                              !.deck = studying /\ reader = "none"] IN
         IF reader = "shown" THEN SaveApp(AppAfterReader(a), slept) ELSE NotSaved(a, slept)
    /\ pc' = "sleeping" /\ reader' = "none"
    /\ seen' = [seen EXCEPT !.splashless = 0, !.deck = 0, !.opens = 0]
    /\ UNCHANGED <<pos, rtc, boot, bad>>

StartDeepSleep ==
    /\ pc = "sleeping"
    /\ pc' = "asleep"
    /\ SaveApp(app, budget)
    /\ UNCHANGED <<pos, rtc, boot, reader, bad, seen>>

\* There is no card to save to.
SleepWithoutCard ==
    /\ pc = "cardError" /\ Act
    /\ pc' = "asleep"
    /\ UNCHANGED <<pos, rtc, card, app, boot, reader, bad, seen>>

-----------------------------------------------------------------------------
(* Resets.                                                                 *)

ResetInto(reason, wake) ==
    /\ pc' = "reset" /\ pos' = 1 /\ reader' = "none"
    /\ app' = DefaultApp
    /\ boot' = FreshBoot(reason, wake)
    /\ UNCHANGED <<card, bad>>

Restart ==
    /\ pc = "restarting"
    /\ ResetInto("software", "Other")
    /\ UNCHANGED <<rtc, budget, seen>>

WakeUp ==
    /\ pc = "asleep" /\ Act
    /\ ResetInto("deepSleep", "PowerButton")
    /\ seen' = [seen EXCEPT !.died = "None"]
    /\ UNCHANGED rtc

\* Power is gone: what the RTC memory holds afterwards is arbitrary, except that
\* it does not match a magic number.
PowerCut ==
    /\ pc # "reset" /\ Fault
    /\ \E wake \in {"PowerButton", "AfterUSBPower", "Other"} : ResetInto("powerOn", wake)
    /\ \E s \in Garbage : rtc' = [stage |-> s, captured |-> FALSE, token |-> "none"]
    /\ seen' = [seen EXCEPT !.died = "None"]

Dies(how, at) ==
    /\ ResetInto(IF how = "panic" THEN "panic" ELSE "watchdog", "Other")
    /\ rtc' = [rtc EXCEPT !.captured = @ \/ how # "watchdogSilent"]
    /\ seen' = [seen EXCEPT !.died = IF how = "watchdogSilent" THEN "None" ELSE at]

DieOfBadData ==
    /\ \/ pc = "inStage" /\ Fatal(Here)
       \/ reader = "opening" /\ ReaderMayEnter /\ FatalBook("open")
       \/ reader = "entered" /\ FatalBook("paint")
    /\ \E how \in Deaths : Dies(how, rtc.stage)
    /\ UNCHANGED budget

\* Any other crash, at any point.
Crash ==
    /\ pc \notin {"reset", "asleep"} /\ Fault
    /\ \E how \in Deaths : Dies(how, "None")

-----------------------------------------------------------------------------
TypeOK ==
    /\ pc \in {"reset", "begun", "cardError", "checked", "saving", "renaming", "stages",
               "inStage", "routed", "running", "restarting", "sleeping", "asleep"}
    /\ pos \in 1 .. Len(Stages)
    /\ rtc \in [stage : Recorded, captured : BOOLEAN, token : Targets]
    /\ card.skips \subseteq Bits
    /\ \A a \in {app, card.app} :
         a \in [book : BOOLEAN, loads : 0 .. 1, fromReader : BOOLEAN,
                bootScreen : BOOLEAN, deck : BOOLEAN]
    /\ boot.reason \in {"powerOn", "panic", "watchdog", "software", "deepSleep"}
    /\ boot.wake \in {"PowerButton", "AfterUSBPower", "Other"}
    /\ boot.target \in Targets /\ boot.skips \subseteq Bits
    /\ boot.resume \in {"Splash", "Silent", "SplashlessWake"}
    /\ reader \in {"none", "opening", "entered", "shown"}
    /\ bad \in BadData

Init ==
    /\ pc = "reset" /\ pos = 1 /\ reader = "none"
    /\ \E s \in Garbage : rtc = [stage |-> s, captured |-> FALSE, token |-> "none"]
    /\ card = [skips |-> {}, app |-> DefaultApp]
    /\ app = DefaultApp
    /\ \E wake \in {"PowerButton", "AfterUSBPower", "Other"} : boot = FreshBoot("powerOn", wake)
    /\ bad \in BadData
    /\ budget = [faults |-> 0, acts |-> 0, unsaved |-> 0]
    /\ seen = [silent |-> 0, splashless |-> 0, deck |-> 0, opens |-> 0,
               died |-> "None", leftover |-> FALSE]

Setup ==
    \/ BeginSetup \/ CheckPanic \/ InitializeRecovery \/ RemoveOldRecovery \/ RenameRecovery
    \/ EnterStage \/ SkipStage \/ LeavePlainStage \/ LeaveUiTheme \/ LeaveState
    \/ LeaveDisplayAndFonts \/ DecideRoute \/ EnterReader \/ PaintReader \/ MarkBootCompleted
    \/ StartDeepSleep \/ Restart \/ DieOfBadData

User == HoldBack \/ SleepAgain \/ OpenBook \/ LeaveBook \/ ArmSilentReboot \/ EnterDeepSleep
        \/ SleepWithoutCard \/ WakeUp

Failure == StorageFails \/ SaveRecoveryFails \/ PowerCut \/ Crash

Next == Setup \/ User \/ Failure

Spec == Init /\ [][Next]_vars
FairSpec == Spec /\ WF_vars(Setup)
-----------------------------------------------------------------------------
(* Properties.                                                             *)

\* Bad data never kills two boots in a row in the same stage, when the first death
\* is one the next boot can tell from a normal restart: the boot after a crash
\* leaves out what the crashed stage had loaded (BootRecovery::initialize and
\* getSkipMaskForStage).
CulpritIsSkipped ==
    [][DieOfBadData => rtc.stage # seen.died]_vars

\* A boot that follows a panic, or that must land on Home, does not resume what the
\* device was doing, whichever tokens were armed: no deck, update or sync is
\* started, and no book is opened (the order of the tests in setup()'s routing).
\* The one book is that of a silent restart in a boot that is forced to land on Home
\* only by a recovery.json that an earlier boot, which completed, could not remove
\* or read: main.cpp:960 does not look at forceHomeBoot.
AfterACrashNothingResumes ==
    [][DecideRoute /\ (boot.fromPanic \/ ForceHome)
         => /\ boot'.route \notin {"flashcards", "ota", "koreader"}
            /\ boot'.route = "reader" => boot.target = "reader" /\ seen.leftover]_vars

\* "Read-and-clear so a panic later in setup() doesn't loop", "consume before
\* opening the deck", "one-shot flag": a silent restart, a splashless wake and a
\* deck to resume each take effect in one boot, whatever crash or loss of power
\* follows.  The flags of state.json are consumed by a save nobody looks at: they act
\* once more at the most for each one that failed since they were armed.
OneShotsAreOneShot ==
    /\ seen.silent <= 1
    /\ seen.splashless <= 1 + budget.unsaved
    /\ seen.deck <= 1 + budget.unsaved

\* "Clear app state to avoid getting into a boot loop if the epub doesn't load":
\* a book that kills the device while it opens is opened automatically by two
\* boots at the most, a silent restart's and a wake's, and by one more for each
\* attempt that could not be counted on the card.
BookIsNotRetriedForever == seen.opens <= 2 + budget.unsaved

\* No way of coming back by itself to what the device was doing is taken again and
\* again by boots that end in a crash, as long as the card takes what they save.
NothingIsRetriedForever == OneShotsAreOneShot /\ BookIsNotRetriedForever

Settled == pc \in {"asleep", "cardError"} \/ InUse

\* Whatever data the recovery can leave out is bad, and whatever else fails a
\* bounded number of times, the boots end: the device is usable or asleep.
\* Only a watchdog that leaves no diagnostics can go on for ever: it is not taken for
\* a panic.
DieUnseen == DieOfBadData /\ seen'.died = "None"
BootSettles == <>[]Settled \/ []<><<DieUnseen>>_vars

\* "Panic detected during boot stage ...; enabling recovery mode": a boot that
\* setup() classifies as following a panic leaves out the data of the stage that
\* died.
PanicBootEntersRecovery ==
    (pc = "stages" /\ boot.fromPanic) => SkipMaskForStage(seen.died) \subseteq boot.skips
=============================================================================
