------------------------- MODULE BootSequenceProofs -------------------------
(***************************************************************************)
(* Proofs about BootSequence, for every set of bad data, every way to die  *)
(* and any number of failures and of things the user does.                 *)
(***************************************************************************)
EXTENDS BootSequence, TLAPS

Pcs == {"reset", "begun", "cardError", "checked", "saving", "renaming", "stages",
        "inStage", "routed", "running", "restarting", "sleeping", "asleep"}
Apps == [book : BOOLEAN, loads : 0 .. 1, fromReader : BOOLEAN, bootScreen : BOOLEAN,
         deck : BOOLEAN]
Routes == {"none", "firmware", "crashReport", "ota", "koreader", "reader", "elsewhere",
           "home", "flashcards"}

Reasons == {"powerOn", "panic", "watchdog", "software", "deepSleep"}
Wakes == {"PowerButton", "AfterUSBPower", "Other"}
Boots == [reason : Reasons, wake : Wakes, back : BOOLEAN, fromPanic : BOOLEAN,
          target : Targets, skips : SUBSET Bits, safe : BOOLEAN, deck : BOOLEAN,
          resume : {"Splash", "Silent", "SplashlessWake"}, route : Routes]
RtcMemories == [stage : Recorded, captured : BOOLEAN, token : Targets]
Cards == [skips : SUBSET Bits, app : Apps]
Budgets == [faults : Nat, acts : Nat, unsaved : Nat]
Histories == [silent : Nat, splashless : Nat, deck : Nat, opens : Nat, died : Recorded,
              leftover : BOOLEAN]

(* Whole records, where TypeOK looks at single fields.                       *)
Types ==
  /\ pc \in Pcs /\ pos \in 1 .. 13
  /\ rtc \in RtcMemories /\ card \in Cards /\ app \in Apps /\ boot \in Boots
  /\ reader \in {"none", "opening", "entered", "shown"}
  /\ bad \in BadData /\ budget \in Budgets /\ seen \in Histories

(* The boot has not been routed yet.                                         *)
InSetup == pc \in {"begun", "cardError", "checked", "saving", "renaming", "stages", "inStage"}

(* Where the boot has got to, and what it may hold there.                    *)
Places ==
  /\ pc = "reset" => boot.target = "none" /\ ~boot.fromPanic /\ pos = 1 /\ ~boot.safe
  /\ pc \in {"begun", "checked", "saving", "renaming"} => pos = 1 /\ ~boot.safe
  /\ pc \in {"reset", "begun", "checked", "saving", "renaming"} => boot.resume = "Splash"
  /\ (InSetup \/ pc \in {"reset", "restarting", "sleeping", "asleep"}) => reader = "none"
  /\ pc = "inStage" => rtc.stage = Here
  /\ pc = "routed" => rtc.stage = "RouteDecision"
  /\ boot.resume = "Silent" => boot.target # "none"
  /\ boot.deck => pc \notin {"reset", "begun", "checked", "saving", "renaming"}
  /\ boot.safe => pos > 5
  /\ pc = "inStage" => ~Skipped(Here)
  /\ (InSetup \/ pc = "reset") /\ (pos <= 6 \/ boot.safe) => ~app.book

(* A silent restart is armed by a device that came up in full, and its       *)
(* token is taken by the next boot, for which no stage is a culprit: what     *)
(* recovery.json still has is left over.                                     *)
OnlyLeftover(skips) == skips = {} \/ seen.leftover

TokenIsFresh ==
  /\ rtc.token # "none" =>
       /\ pc \in {"restarting", "reset"}
       /\ OnlyLeftover(card.skips) /\ rtc.stage = "Completed"
       /\ seen.silent = 0 /\ seen.opens = 0
  /\ InSetup /\ boot.target # "none" =>
       /\ seen.silent = 0 /\ seen.opens = 0
       /\ pc \notin {"saving", "renaming"}
       /\ pc \in {"begun", "checked"} => OnlyLeftover(card.skips) /\ rtc.stage = "Completed"
       /\ pc \in {"stages", "inStage"} => OnlyLeftover(boot.skips)
  /\ pc \in {"running", "restarting"} => OnlyLeftover(card.skips) /\ rtc.stage = "Completed"

(* The flags of state.json are armed only while each of their uses so far    *)
(* had a save that failed; the deck's is consumed a while before its use.    *)
FlagsAreFresh ==
  /\ ~card.app.bootScreen \/ ~app.bootScreen => seen.splashless <= budget.unsaved
  /\ (InSetup \/ pc = "reset") /\ boot.resume = "SplashlessWake" /\ pos <= 7 =>
       seen.splashless <= budget.unsaved
  /\ card.app.deck \/ app.deck => seen.deck <= budget.unsaved
  /\ InSetup /\ boot.deck =>
       /\ seen.deck <= budget.unsaved /\ ~app.deck
       /\ card.app.deck => seen.deck < budget.unsaved

WakeMayOpen(a) == a.fromReader /\ a.loads = 0

(* A wake opens the book only with no attempt counted, and counts its own,   *)
(* if the card takes it.                                                     *)
OpensAreCounted ==
  /\ reader = "shown" => seen.opens = 0
  /\ seen.opens <= 2 + budget.unsaved
  /\ WakeMayOpen(app) \/ WakeMayOpen(card.app) => seen.opens <= 1 + budget.unsaved

(* The one-shots have acted once at the most, but for saves that failed.     *)
ActedOnce ==
  /\ seen.silent <= 1
  /\ seen.splashless <= 1 + budget.unsaved /\ seen.deck <= 1 + budget.unsaved

IInv == Types /\ Places /\ TokenIsFresh /\ FlagsAreFresh /\ ActedOnce /\ OpensAreCounted

USE BootAssumption
-----------------------------------------------------------------------------
(* The stages.                                                             *)

LEMMA StagesAre ==
  /\ Len(Stages) = 13 /\ DOMAIN Stages = 1 .. 13
  /\ Stages[1] = "Settings" /\ Stages[2] = "Language" /\ Stages[3] = "KOReader"
  /\ Stages[4] = "OPDS" /\ Stages[5] = "UiTheme" /\ Stages[6] = "State"
  /\ Stages[7] = "DisplayAndFonts" /\ Stages[8] = "ReadingStats"
  /\ Stages[9] = "RecentBooks" /\ Stages[10] = "Favorites" /\ Stages[11] = "Flashcards"
  /\ Stages[12] = "Achievements" /\ Stages[13] = "RouteDecision"
  BY DEF Stages

LEMMA StageNamesAre ==
  StageNames = {"Settings", "Language", "KOReader", "OPDS", "UiTheme", "State",
                "DisplayAndFonts", "ReadingStats", "RecentBooks", "Favorites",
                "Flashcards", "Achievements", "RouteDecision"}
<1>1. StageNames = {Stages[i] : i \in 1 .. 13}
  BY StagesAre DEF StageNames
<1>2. 1 .. 13 = {1, 2, 3, 4, 5, 6, 7, 8, 9, 10, 11, 12, 13}
  OBVIOUS
<1> QED
  BY <1>1, <1>2, StagesAre

LEMMA StageIs == ASSUME NEW i \in 1 .. 13
                 PROVE  /\ Stages[i] \in StageNames
                        /\ Stages[i] = "UiTheme" <=> i = 5
                        /\ Stages[i] = "State" <=> i = 6
                        /\ Stages[i] = "DisplayAndFonts" <=> i = 7
                        /\ Stages[i] = "RouteDecision" <=> i = 13
<1>1. i \in {1, 2, 3, 4, 5, 6, 7, 8, 9, 10, 11, 12, 13}
  OBVIOUS
<1> QED
  BY <1>1, StagesAre, StageNamesAre

LEMMA StoresAre ==
  /\ Stores = {"Settings", "Language", "KOReader", "OPDS", "State", "ReadingStats",
               "RecentBooks", "Favorites", "Flashcards", "Achievements"}
  /\ Bits = Stores \cup {"ForceHome"}
  /\ Recorded = StageNames \cup {"None", "Completed"}
  BY StageNamesAre DEF Stores, Never, Bits, Recorded

LEMMA MaskIsBits == ASSUME NEW s \in Recorded PROVE SkipMaskForStage(s) \subseteq Bits
  BY StageNamesAre, StoresAre DEF SkipMaskForStage

LEMMA SkippedIs == ASSUME Types PROVE ~Skipped("RouteDecision") /\ ~Skipped("DisplayAndFonts")
  BY StoresAre DEF Types, Boots, Skipped, AfterBackCheck

(***************************************************************************)
(* The route, and the resets.                                              *)
(***************************************************************************)
LEMMA RouteIs ==
  ASSUME NEW picker, NEW validProfile, NEW backNow
  PROVE  LET r == Route(picker, validProfile, backNow) IN
         /\ r \in (Routes \cup {"wakeReader"}) \ {"none"}
         /\ r = "reader" => /\ boot.target = "reader" /\ boot.resume = "Silent" /\ app.book
         /\ r = "wakeReader" => /\ ~ForceHome /\ app.fromReader /\ ~(app.loads > 0)
                                /\ boot.resume # "Silent"
         /\ r \in {"flashcards", "ota", "koreader"} => ~ForceHome
         /\ r = "flashcards" => boot.deck /\ boot.resume # "Silent"
         /\ r \in {"flashcards", "ota", "koreader", "reader", "wakeReader"} =>
              ~boot.fromPanic \/ ForceHome
  BY DEF Route, Routes, OtaBoot, KOReaderBoot, BootToHome

(* What DecideRoute decides.                                                 *)
LEMMA Decided ==
  ASSUME DecideRoute
  PROVE  \E r \in (Routes \cup {"wakeReader"}) \ {"none"} :
         /\ boot' = [boot EXCEPT !.route = IF r \in {"reader", "wakeReader"} THEN "reader" ELSE r]
         /\ reader' = IF r \in {"reader", "wakeReader"} THEN "opening" ELSE "none"
         /\ IF r = "wakeReader" THEN SaveApp(AppBeforeReader(app), budget)
            ELSE SaveApp(app, budget) \/ NotSaved(app, budget)
         /\ seen' = [seen EXCEPT
                       !.silent = IF boot.resume = "Silent" THEN @ + 1 ELSE @,
                       !.deck   = IF r = "flashcards" THEN @ + 1 ELSE @,
                       !.opens  = IF r \in {"reader", "wakeReader"} THEN @ + 1 ELSE @]
         /\ r = "reader" => boot.target = "reader" /\ boot.resume = "Silent" /\ app.book
         /\ r = "wakeReader" => /\ ~ForceHome /\ app.fromReader /\ ~(app.loads > 0)
                                /\ boot.resume # "Silent"
         /\ r \in {"flashcards", "ota", "koreader"} => ~ForceHome
         /\ r = "flashcards" => boot.deck /\ boot.resume # "Silent"
         /\ r \in {"flashcards", "ota", "koreader", "reader", "wakeReader"} =>
              ~boot.fromPanic \/ ForceHome
<1>1. PICK picker \in {FALSE} \cup (IF boot.wake = "PowerButton" THEN {TRUE} ELSE {}),
           validProfile \in BOOLEAN, backNow \in {boot.back, TRUE}, useful \in UsefulStarts :
        LET r == Route(picker, validProfile, backNow)
            opens == r \in {"reader", "wakeReader"} IN
         /\ boot' = [boot EXCEPT !.route = IF opens THEN "reader" ELSE r]
         /\ reader' = IF opens THEN "opening" ELSE "none"
         /\ SaveOnTheWay(r, useful)
         /\ seen' = [seen EXCEPT
                       !.silent = IF boot.resume = "Silent" THEN @ + 1 ELSE @,
                       !.deck   = IF r = "flashcards" THEN @ + 1 ELSE @,
                       !.opens  = IF opens THEN @ + 1 ELSE @]
  BY DEF DecideRoute
<1>2. Route(picker, validProfile, backNow) \in (Routes \cup {"wakeReader"}) \ {"none"}
  BY RouteIs
<1> WITNESS Route(picker, validProfile, backNow) \in (Routes \cup {"wakeReader"}) \ {"none"}
<1> QED
  BY <1>1, <1>2, RouteIs DEF SaveOnTheWay

(* What is saved.                                                            *)
LEMMA AppUpdates ==
  ASSUME NEW a \in Apps, NEW b \in BOOLEAN, NEW c \in BOOLEAN, NEW n \in 0 .. 1
  PROVE  /\ [a EXCEPT !.deck = FALSE] \in Apps
         /\ [a EXCEPT !.bootScreen = TRUE] \in Apps
         /\ [a EXCEPT !.book = TRUE] \in Apps
         /\ [a EXCEPT !.loads = n] \in Apps
         /\ [a EXCEPT !.book = FALSE, !.loads = n] \in Apps
         /\ [a EXCEPT !.fromReader = b, !.bootScreen = FALSE, !.deck = c] \in Apps
  BY Zenon DEF Apps

LEMMA AppsAre ==
  ASSUME NEW a \in Apps
  PROVE  /\ DeckConsumed(a) \in Apps /\ SplashRearmed(a) \in Apps
         /\ AppAfterReader(a) \in Apps /\ [a EXCEPT !.book = TRUE] \in Apps
         /\ a.loads \in 0 .. 1
         /\ ~(a.loads > 0) => AppBeforeReader(a) \in Apps
<1>1. a.loads \in 0 .. 1 /\ 0 \in 0 .. 1
  BY DEF Apps
<1>2. ~(a.loads > 0) => a.loads + 1 \in 0 .. 1
  BY <1>1
<1> HIDE DEF Apps
<1> QED
  BY <1>1, <1>2, AppUpdates DEF DeckConsumed, SplashRearmed, AppAfterReader, AppBeforeReader

(* What is counted.                                                          *)
LEMMA BudgetIs ==
  ASSUME NEW b \in Budgets
  PROVE  /\ b.unsaved \in Nat
         /\ [b EXCEPT !.faults = @ + 1] \in Budgets
         /\ [b EXCEPT !.faults = @ + 1].unsaved = b.unsaved
         /\ [b EXCEPT !.acts = @ + 1] \in Budgets
         /\ [b EXCEPT !.acts = @ + 1].unsaved = b.unsaved
         /\ [b EXCEPT !.faults = @ + 1, !.unsaved = @ + 1] \in Budgets
         /\ [b EXCEPT !.faults = @ + 1, !.unsaved = @ + 1].unsaved = b.unsaved + 1
         /\ [b EXCEPT !.unsaved = 0] \in Budgets /\ [b EXCEPT !.unsaved = 0].unsaved = 0
<1>1. b.faults \in Nat /\ b.acts \in Nat /\ b.unsaved \in Nat
  BY DEF Budgets
<1>2. 0 \in Nat /\ b.faults + 1 \in Nat /\ b.acts + 1 \in Nat /\ b.unsaved + 1 \in Nat
  BY <1>1
<1> QED
  BY <1>1, <1>2, Zenon DEF Budgets

LEMMA CardIs ==
  ASSUME NEW c \in Cards, NEW a \in Apps
  PROVE  /\ [c EXCEPT !.app = a] \in Cards /\ [c EXCEPT !.app = a].app = a
         /\ [c EXCEPT !.app = a].skips = c.skips
  BY Zenon DEF Cards

LEMMA Saved ==
  ASSUME Types, NEW a \in Apps, NEW spent \in Budgets, SaveApp(a, spent) \/ NotSaved(a, spent)
  PROVE  /\ app' = a /\ app' \in Apps /\ card' \in Cards /\ budget' \in Budgets
         /\ card'.skips = card.skips /\ card'.app \in {a, card.app}
         /\ budget'.unsaved >= spent.unsaved
         /\ SaveApp(a, spent) => card'.app = a \/ budget'.unsaved = spent.unsaved + 1
<1>1. card \in Cards /\ spent.unsaved \in Nat
  BY BudgetIs DEF Types
<1>2. CASE card' = [card EXCEPT !.app = a] /\ budget' = spent /\ app' = a
  BY <1>1, <1>2, CardIs
<1>3. CASE /\ budget' = [spent EXCEPT !.faults = @ + 1, !.unsaved = @ + 1]
           /\ UNCHANGED card /\ app' = a
  <2>1. budget' \in Budgets /\ budget'.unsaved = spent.unsaved + 1
    BY <1>3, BudgetIs
  <2> QED
    BY <1>1, <1>3, <2>1
<1>4. CASE NotSaved(a, spent) /\ ~SaveApp(a, spent)
  BY <1>1, <1>4 DEF NotSaved
<1> QED
  BY <1>2, <1>3, <1>4 DEF SaveApp

LEMMA ActedIs == ASSUME Types
                 PROVE  /\ Acted \in Budgets /\ Acted.unsaved = budget.unsaved
                        /\ [Acted EXCEPT !.unsaved = 0] \in Budgets
                        /\ [Acted EXCEPT !.unsaved = 0].unsaved = 0
  BY BudgetIs DEF Acted, Types

(* The steps that save nothing.                                              *)
NoSave == \/ BeginSetup \/ HoldBack \/ StorageFails \/ CheckPanic \/ InitializeRecovery
          \/ RemoveOldRecovery \/ RenameRecovery \/ SaveRecoveryFails \/ EnterStage
          \/ SkipStage \/ LeavePlainStage \/ LeaveUiTheme \/ SleepAgain \/ PaintReader
          \/ MarkBootCompleted \/ OpenBook \/ SleepWithoutCard

LEMMA NoSaveIs ==
  ASSUME Types, NoSave
  PROVE  /\ UNCHANGED app /\ card'.app = card.app
         /\ budget' \in Budgets /\ budget'.unsaved = budget.unsaved
<1>1. budget' \in {budget, [budget EXCEPT !.faults = @ + 1], [budget EXCEPT !.acts = @ + 1]}
  BY DEF NoSave, BeginSetup, HoldBack, StorageFails, CheckPanic, InitializeRecovery,
         RemoveOldRecovery, RenameRecovery, SaveRecoveryFails, EnterStage, SkipStage,
         LeavePlainStage, LeaveUiTheme, SleepAgain, PaintReader, MarkBootCompleted,
         ClearRecoveryState, OpenBook, SleepWithoutCard, Act, Acted, NoAct, Fault
<1>2. UNCHANGED app /\ \/ UNCHANGED card
                       \/ \E s : card' = [card EXCEPT !.skips = s]
  BY DEF NoSave, BeginSetup, HoldBack, StorageFails, CheckPanic, InitializeRecovery,
         RemoveOldRecovery, RenameRecovery, SaveRecoveryFails, EnterStage, SkipStage,
         LeavePlainStage, LeaveUiTheme, SleepAgain, PaintReader, MarkBootCompleted,
         ClearRecoveryState, OpenBook, SleepWithoutCard
<1>3. card'.app = card.app
  BY <1>2, Zenon DEF Types, Cards
<1> QED
  BY <1>1, <1>2, <1>3, BudgetIs DEF Types

LEMMA ResetTypes ==
  ASSUME Types, NEW reason \in Reasons, NEW wake \in Wakes, ResetInto(reason, wake)
  PROVE  /\ pc' = "reset" /\ pos' = 1 /\ reader' = "none" /\ app' = DefaultApp
         /\ boot' = FreshBoot(reason, wake) /\ UNCHANGED <<card, bad>>
         /\ app' \in Apps /\ boot' \in Boots
<1>1. DefaultApp \in Apps
  BY DEF DefaultApp, Apps
<1>2. FreshBoot(reason, wake) \in Boots
  BY DEF FreshBoot, Boots, Targets, Routes
<1> QED
  BY <1>1, <1>2 DEF ResetInto

(* The ways a boot ends.                                                     *)
Reset == Restart \/ WakeUp \/ PowerCut \/ DieOfBadData \/ Crash

LEMMA ResetIs ==
  ASSUME Types, Reset
  PROVE  /\ \E reason \in Reasons, wake \in Wakes : ResetInto(reason, wake)
         /\ budget' \in Budgets /\ seen' \in Histories /\ rtc' \in RtcMemories
         /\ UNCHANGED budget.unsaved
         /\ UNCHANGED <<seen.silent, seen.splashless, seen.deck, seen.opens, seen.leftover>>
         /\ rtc'.token # "none" => rtc'.token = rtc.token /\ rtc'.stage = rtc.stage
<1> USE DEF Types, Reasons, Wakes
<1>1. CASE Restart
  BY <1>1 DEF Restart
<1>2. CASE WakeUp
  <2>1. seen' = [seen EXCEPT !.died = "None"] /\ budget' = [budget EXCEPT !.acts = @ + 1]
        /\ rtc' = rtc /\ ResetInto("deepSleep", "PowerButton")
    BY <1>2 DEF WakeUp, Act, Acted
  <2> QED
    BY <2>1, StoresAre DEF Histories, Budgets
<1>3. CASE PowerCut
  <2>1. PICK s \in Garbage : rtc' = [stage |-> s, captured |-> FALSE, token |-> "none"]
    BY <1>3 DEF PowerCut
  <2>2. rtc' \in RtcMemories /\ rtc'.token = "none"
    BY <2>1 DEF RtcMemories, Targets
  <2>3. seen' = [seen EXCEPT !.died = "None"] /\ budget' = [budget EXCEPT !.faults = @ + 1]
    BY <1>3 DEF PowerCut, Fault
  <2>4. seen' \in Histories /\ budget' \in Budgets /\ UNCHANGED budget.unsaved
        /\ UNCHANGED <<seen.silent, seen.splashless, seen.deck, seen.opens, seen.leftover>>
    BY <2>3, StoresAre DEF Histories, Budgets
  <2>5. \E wake \in Wakes : ResetInto("powerOn", wake)
    BY <1>3 DEF PowerCut
  <2> QED
    BY <2>2, <2>4, <2>5
<1>4. ASSUME NEW how \in Deaths, NEW at \in Recorded, Dies(how, at)
      PROVE  /\ \E reason \in Reasons, wake \in Wakes : ResetInto(reason, wake)
             /\ seen' \in Histories /\ rtc' \in RtcMemories
             /\ UNCHANGED <<seen.silent, seen.splashless, seen.deck, seen.opens, seen.leftover>>
             /\ rtc'.token = rtc.token /\ rtc'.stage = rtc.stage
  <2>1. ResetInto(IF how = "panic" THEN "panic" ELSE "watchdog", "Other")
    BY <1>4 DEF Dies
  <2>2. rtc' = [rtc EXCEPT !.captured = (rtc.captured \/ how # "watchdogSilent")]
    BY <1>4 DEF Dies
  <2>3. seen' = [seen EXCEPT !.died = IF how = "watchdogSilent" THEN "None" ELSE at]
    BY <1>4 DEF Dies
  <2>4. (rtc.captured \/ how # "watchdogSilent") \in BOOLEAN
    BY Zenon
  <2>5. rtc' \in RtcMemories /\ rtc'.token = rtc.token /\ rtc'.stage = rtc.stage
    BY <2>2, <2>4, Zenon DEF RtcMemories
  <2>6. seen' \in Histories /\ UNCHANGED <<seen.silent, seen.splashless, seen.deck, seen.opens, seen.leftover>>
    BY <2>3, StoresAre DEF Histories
  <2> QED
    BY <2>1, <2>5, <2>6
<1>5. CASE DieOfBadData
  <2>1. PICK how \in Deaths : Dies(how, rtc.stage)
    BY <1>5 DEF DieOfBadData
  <2>2. rtc.stage \in Recorded
    BY DEF RtcMemories
  <2>3. budget' = budget
    BY <1>5 DEF DieOfBadData
  <2> QED
    BY <1>4, <2>1, <2>2, <2>3
<1>6. CASE Crash
  <2>1. PICK how \in Deaths : Dies(how, "None")
    BY <1>6 DEF Crash
  <2>2. "None" \in Recorded
    BY StoresAre
  <2>3. budget' \in Budgets /\ UNCHANGED budget.unsaved
    BY <1>6 DEF Crash, Fault, Budgets
  <2> QED
    BY <1>4, <2>1, <2>2, <2>3
<1> QED
  BY <1>1, <1>2, <1>3, <1>5, <1>6 DEF Reset

(* What is left in memory and on the card when the device goes to sleep.     *)
LEMMA AsleepIs ==
  ASSUME Types, EnterDeepSleep
  PROVE  app' \in Apps /\ card' \in Cards /\ budget' \in Budgets
<1>1. PICK studying \in BOOLEAN :
        LET slept == [Acted EXCEPT !.unsaved = 0]
            a == [app EXCEPT !.fromReader = (reader = "shown"), !.bootScreen = FALSE,
                             !.deck = (studying /\ reader = "none")] IN
        IF reader = "shown" THEN SaveApp(AppAfterReader(a), slept) ELSE NotSaved(a, slept)
  BY DEF EnterDeepSleep
<1>2. (reader = "shown") \in BOOLEAN /\ (studying /\ reader = "none") \in BOOLEAN
  BY Zenon
<1> DEFINE a == [app EXCEPT !.fromReader = (reader = "shown"), !.bootScreen = FALSE,
                            !.deck = (studying /\ reader = "none")]
           slept == [Acted EXCEPT !.unsaved = 0]
<1>3. a \in Apps
  BY <1>2, Zenon DEF Apps, Types
<1>4. slept \in Budgets
  BY ActedIs
<1>5. SaveApp(AppAfterReader(a), slept) \/ NotSaved(a, slept)
  BY <1>1
<1> HIDE DEF a, slept
<1>6. AppAfterReader(a) \in Apps
  BY <1>3, AppsAre
<1> QED
  BY <1>3, <1>4, <1>5, <1>6, Saved

(* The saves of the device in use, and of a reader that has opened.          *)
LEMMA SavesAre ==
  ASSUME Types, EnterReader \/ LeaveBook \/ StartDeepSleep \/ ArmSilentReboot
  PROVE  /\ app' \in Apps /\ card' \in Cards /\ budget' \in Budgets
         /\ card'.skips = card.skips /\ card'.app \in {app', card.app}
         /\ app'.bootScreen = app.bootScreen /\ app'.deck = app.deck
         /\ app'.fromReader = app.fromReader
         /\ EnterReader \/ StartDeepSleep => app'.loads = app.loads
         /\ budget'.unsaved >= budget.unsaved
<1> DEFINE B(a) == [a EXCEPT !.book = TRUE]
           After == AppAfterReader(app)
<1>1. /\ app \in Apps /\ After \in Apps /\ B(app) \in Apps /\ B(After) \in Apps
      /\ budget \in Budgets
  BY AppsAre DEF Types
<1>2. \A a \in {app, After, B(app), B(After)} :
        /\ a.bootScreen = app.bootScreen /\ a.deck = app.deck /\ a.fromReader = app.fromReader
        /\ a \in {app, B(app)} => a.loads = app.loads
  BY <1>1 DEF AppAfterReader, Apps
<1>3. PICK a \in {app, After, B(app), B(After)}, spent \in {budget, Acted} :
        /\ SaveApp(a, spent) \/ NotSaved(a, spent)
        /\ EnterReader \/ StartDeepSleep => a \in {app, B(app)}
  <2> HIDE DEF After
  <2>1. CASE EnterReader
    <3>1. SaveApp(B(app), budget) /\ B(app) \in {app, B(app)}
      BY <2>1 DEF EnterReader
    <3> QED
      BY <3>1
  <2>2. CASE StartDeepSleep
    <3>1. SaveApp(app, budget)
      BY <2>2 DEF StartDeepSleep
    <3> QED
      BY <3>1
  <2>3. CASE LeaveBook /\ ~EnterReader /\ ~StartDeepSleep
    <3>1. SaveApp(After, Acted)
      BY <2>3 DEF LeaveBook, After
    <3> QED
      BY <2>3, <3>1
  <2>4. CASE ArmSilentReboot /\ ~EnterReader /\ ~StartDeepSleep
    <3>1. \/ SaveApp(B(After), Acted) \/ SaveApp(After, Acted) \/ NotSaved(app, Acted)
      BY <2>4 DEF ArmSilentReboot, After
    <3> QED
      BY <2>4, <3>1
  <2> QED
    BY <2>1, <2>2, <2>3, <2>4
<1>4. spent \in Budgets /\ spent.unsaved = budget.unsaved /\ a \in Apps
  BY <1>1, <1>3, ActedIs
<1>5. /\ app' = a /\ app' \in Apps /\ card' \in Cards /\ budget' \in Budgets
      /\ card'.skips = card.skips /\ card'.app \in {a, card.app}
      /\ budget'.unsaved >= spent.unsaved
  BY <1>3, <1>4, Saved
<1> HIDE DEF After, B
<1> QED
  BY <1>2, <1>3, <1>4, <1>5

(* The state stage takes the deck off what the card held, or off memory only. *)
LEMMA LoadedIs ==
  ASSUME Types, LeaveState
  PROVE  /\ app' \in Apps /\ card' \in Cards /\ budget' \in Budgets
         /\ card'.skips = card.skips /\ budget'.unsaved >= budget.unsaved
         /\ ~app'.deck /\ app'.bootScreen = card.app.bootScreen
         /\ app'.fromReader = card.app.fromReader /\ app'.loads = card.app.loads
         /\ card'.app \in {app', card.app}
         /\ card'.app.deck => budget'.unsaved > budget.unsaved
<1>1. card.app \in Apps /\ DeckConsumed(card.app) \in Apps /\ budget \in Budgets
  BY AppsAre DEF Types, Cards
<1>2. budget.unsaved \in Nat
  BY <1>1, BudgetIs
<1>3. CASE card.app.deck
  <2>1. SaveApp(DeckConsumed(card.app), budget)
    BY <1>3 DEF LeaveState
  <2>2. /\ ~DeckConsumed(card.app).deck
        /\ DeckConsumed(card.app).bootScreen = card.app.bootScreen
        /\ DeckConsumed(card.app).fromReader = card.app.fromReader
        /\ DeckConsumed(card.app).loads = card.app.loads
    BY <1>1 DEF DeckConsumed, Apps
  <2>3. /\ app' = DeckConsumed(card.app) /\ card' \in Cards /\ budget' \in Budgets
        /\ card'.skips = card.skips /\ card'.app \in {DeckConsumed(card.app), card.app}
        /\ budget'.unsaved >= budget.unsaved
        /\ card'.app = DeckConsumed(card.app) \/ budget'.unsaved = budget.unsaved + 1
    BY <1>1, <2>1, Saved
  <2> QED
    BY <1>1, <1>2, <2>2, <2>3
<1>4. CASE ~card.app.deck
  <2>1. NotSaved(card.app, budget)
    BY <1>4 DEF LeaveState
  <2> QED
    BY <1>1, <1>2, <1>4, <2>1, Saved
<1> QED
  BY <1>3, <1>4

(* The display stage arms the splash again on a splashless wake.             *)
LEMMA RearmedIs ==
  ASSUME Types, LeaveDisplayAndFonts
  PROVE  /\ app' \in Apps /\ card' \in Cards /\ budget' \in Budgets
         /\ card'.skips = card.skips /\ budget'.unsaved >= budget.unsaved
         /\ app'.book = app.book /\ app'.deck = app.deck /\ app'.fromReader = app.fromReader
         /\ app'.loads = app.loads /\ card'.app \in {app', card.app}
         /\ boot.resume = "SplashlessWake" =>
              /\ app'.bootScreen
              /\ ~card'.app.bootScreen => budget'.unsaved > budget.unsaved
         /\ boot.resume # "SplashlessWake" => UNCHANGED <<app, card, budget, seen>>
<1>1. app \in Apps /\ SplashRearmed(app) \in Apps /\ budget \in Budgets /\ card \in Cards
  BY AppsAre DEF Types
<1>2. budget.unsaved \in Nat
  BY <1>1, BudgetIs
<1>3. CASE boot.resume = "SplashlessWake"
  <2>1. SaveApp(SplashRearmed(app), budget)
    BY <1>3 DEF LeaveDisplayAndFonts
  <2>2. /\ SplashRearmed(app).bootScreen /\ SplashRearmed(app).deck = app.deck
        /\ SplashRearmed(app).book = app.book /\ SplashRearmed(app).fromReader = app.fromReader
        /\ SplashRearmed(app).loads = app.loads
    BY <1>1 DEF SplashRearmed, Apps
  <2>3. /\ app' = SplashRearmed(app) /\ card' \in Cards /\ budget' \in Budgets
        /\ card'.skips = card.skips /\ card'.app \in {SplashRearmed(app), card.app}
        /\ budget'.unsaved >= budget.unsaved
        /\ card'.app = SplashRearmed(app) \/ budget'.unsaved = budget.unsaved + 1
    BY <1>1, <2>1, Saved
  <2> QED
    BY <1>1, <1>2, <1>3, <2>2, <2>3
<1>4. CASE boot.resume # "SplashlessWake"
  BY <1>1, <1>2, <1>4 DEF LeaveDisplayAndFonts
<1> QED
  BY <1>3, <1>4

LEMMA TypesStep == ASSUME Types, Next PROVE Types'
<1> USE DEF Types, Pcs
<1>1. CASE BeginSetup
  <2>1. IsPanicReset(boot.reason, rtc.captured) \in BOOLEAN
        /\ (IsPanicReset(boot.reason, rtc.captured) /\ rtc.captured) \in BOOLEAN
    BY DEF IsPanicReset
  <2>2. boot' \in Boots
    BY <1>1, <2>1, Zenon DEF BeginSetup, Boots, RtcMemories
  <2>3. "none" \in Targets
    BY DEF Targets
  <2>4. rtc' \in RtcMemories
    BY <1>1, <2>1, <2>3, Zenon DEF BeginSetup, RtcMemories, TokenAfterBoot
  <2> QED
    BY <1>1, <2>2, <2>4 DEF BeginSetup
<1>2. CASE HoldBack
  <2>1. boot' \in Boots
    BY <1>2, Zenon DEF HoldBack, Boots
  <2> QED
    BY <1>2, <2>1, ActedIs DEF HoldBack, Act
<1>3. CASE StorageFails
  BY <1>3 DEF StorageFails, Fault, Budgets
<1>4. CASE CheckPanic
  <2>1. [rtc EXCEPT !.captured = FALSE] \in RtcMemories
    BY Zenon DEF RtcMemories
  <2>2. rtc' \in RtcMemories
    BY <1>4, <2>1, Zenon DEF CheckPanic
  <2> QED
    BY <1>4, <2>2 DEF CheckPanic, NoAct, Fault, Budgets
<1>5. CASE InitializeRecovery
  <2>1. /\ MaskAfter(card.skips, InitializeMask) \in SUBSET Bits
        /\ MaskAfter({}, InitializeMask) \in SUBSET Bits
    BY MaskIsBits DEF InitializeMask, MaskAfter, RtcMemories, Cards
  <2>2. boot' \in Boots
    BY <1>5, <2>1, Zenon DEF InitializeRecovery, Boots
  <2>3. rtc' \in RtcMemories
    BY <1>5, StoresAre DEF InitializeRecovery, RtcMemories
  <2> QED
    BY <1>5, <2>2, <2>3 DEF InitializeRecovery, NoAct, Fault, Budgets
<1>6. CASE RemoveOldRecovery \/ RenameRecovery \/ SaveRecoveryFails
  <2>1. budget' \in Budgets
    BY <1>6, NoSaveIs DEF NoSave
  <2>2. seen' \in Histories
    BY <1>6, Zenon DEF RemoveOldRecovery, RenameRecovery, SaveRecoveryFails, Histories
  <2> QED
    BY <1>6, <2>1, <2>2, StoresAre DEF RemoveOldRecovery, RenameRecovery, SaveRecoveryFails,
                                       Cards, Boots, RtcMemories
<1>7. CASE EnterStage
  BY <1>7, StageIs, StoresAre DEF EnterStage, Here, RtcMemories
<1>8. CASE SkipStage
  <2>1. ResumeOf \in {"Splash", "Silent", "SplashlessWake"}
    BY DEF ResumeOf
  <2>2. boot' \in Boots
    BY <1>8, <2>1 DEF SkipStage, Boots
  <2> QED
    BY <1>8, <2>2, StageIs, SkippedIs DEF SkipStage, Here
<1>9. CASE LeavePlainStage \/ LeaveUiTheme
  <2>1. [boot EXCEPT !.safe = boot.back] \in Boots
    BY Zenon DEF Boots
  <2> QED
    BY <1>9, <2>1, StageIs DEF LeavePlainStage, LeaveUiTheme, Leave, Here, Never
<1>10. CASE SleepAgain \/ SleepWithoutCard
  BY <1>10, ActedIs DEF SleepAgain, SleepWithoutCard, Act
<1>11. CASE LeaveState
  <2>1. ResumeOf \in {"Splash", "Silent", "SplashlessWake"}
    BY DEF ResumeOf
  <2>2. (PersistedSleepWake /\ ~Skipped("Flashcards") /\ card.app.deck) \in BOOLEAN
    BY DEF PersistedSleepWake
  <2>3. boot' \in Boots
    BY <1>11, <2>1, <2>2, Zenon DEF LeaveState, Boots
  <2>4. app' \in Apps /\ card' \in Cards /\ budget' \in Budgets
    BY <1>11, LoadedIs
  <2> QED
    BY <1>11, <2>3, <2>4, StageIs DEF LeaveState, Leave, Here
<1>12. CASE LeaveDisplayAndFonts
  <2>1. app' \in Apps /\ card' \in Cards /\ budget' \in Budgets
    BY <1>12, RearmedIs
  <2>2. seen' \in Histories
    BY <1>12 DEF LeaveDisplayAndFonts, Histories
  <2> QED
    BY <1>12, <2>1, <2>2, StageIs DEF LeaveDisplayAndFonts, Leave, Here
<1>13. CASE DecideRoute
  <2>1. app' \in Apps /\ card' \in Cards /\ budget' \in Budgets
    <3>1. PICK a \in Apps : SaveApp(a, budget) \/ NotSaved(a, budget)
      BY <1>13, AppsAre, Decided
    <3> QED
      BY <3>1, Saved
  <2>2. seen' \in Histories
    <3>1. PICK r \in (Routes \cup {"wakeReader"}) \ {"none"} :
            seen' = [seen EXCEPT
                       !.silent = IF boot.resume = "Silent" THEN @ + 1 ELSE @,
                       !.deck   = IF r = "flashcards" THEN @ + 1 ELSE @,
                       !.opens  = IF r \in {"reader", "wakeReader"} THEN @ + 1 ELSE @]
      BY <1>13, Decided
    <3>2. /\ (IF boot.resume = "Silent" THEN seen.silent + 1 ELSE seen.silent) \in Nat
          /\ (IF r = "flashcards" THEN seen.deck + 1 ELSE seen.deck) \in Nat
          /\ (IF r \in {"reader", "wakeReader"} THEN seen.opens + 1 ELSE seen.opens) \in Nat
      BY DEF Histories
    <3> QED
      BY <3>1, <3>2, Zenon DEF Histories
  <2>3. boot' \in Boots
    BY <1>13, Decided DEF Boots, Routes
  <2> QED
    BY <1>13, <2>1, <2>2, <2>3, Decided DEF DecideRoute
<1>14. CASE EnterReader \/ PaintReader
  <2>1. app' \in Apps /\ card' \in Cards /\ budget' \in Budgets
    BY <1>14, SavesAre DEF PaintReader
  <2> QED
    BY <1>14, <2>1 DEF EnterReader, PaintReader, Histories
<1>15. CASE MarkBootCompleted
  <2>1. card' \in Cards /\ budget' \in Budgets
    BY <1>15 DEF MarkBootCompleted, ClearRecoveryState, NoAct, Fault, Cards, Budgets
  <2>2. rtc' \in RtcMemories
    BY <1>15, StoresAre DEF MarkBootCompleted, StageAfterBoot, RtcMemories
  <2>3. seen' \in Histories
    <3>1. "None" \in Recorded /\ (card'.skips # {}) \in BOOLEAN
      BY StoresAre, Zenon
    <3> QED
      BY <1>15, <3>1, Zenon DEF MarkBootCompleted, Histories
  <2> QED
    BY <1>15, <2>1, <2>2, <2>3 DEF MarkBootCompleted
<1>16. CASE OpenBook \/ LeaveBook
  <2>1. app' \in Apps /\ card' \in Cards /\ budget' \in Budgets
    BY <1>16, SavesAre, ActedIs DEF OpenBook, Act
  <2> QED
    BY <1>16, <2>1 DEF OpenBook, LeaveBook, Boots, Routes, Histories
<1>17. CASE ArmSilentReboot
  <2>1. app' \in Apps /\ card' \in Cards /\ budget' \in Budgets
    BY <1>17, SavesAre
  <2>2. \E t \in Targets : rtc' = [rtc EXCEPT !.token = t]
    BY <1>17 DEF ArmSilentReboot
  <2>3. rtc' \in RtcMemories
    BY <2>2 DEF RtcMemories
  <2>4. seen' \in Histories
    BY <1>17 DEF ArmSilentReboot, Histories
  <2> QED
    BY <1>17, <2>1, <2>3, <2>4 DEF ArmSilentReboot
<1>18. CASE EnterDeepSleep
  <2>1. app' \in Apps /\ card' \in Cards /\ budget' \in Budgets
    BY <1>18, AsleepIs
  <2>2. seen' \in Histories
    BY <1>18 DEF EnterDeepSleep, Histories
  <2> QED
    BY <1>18, <2>1, <2>2 DEF EnterDeepSleep
<1>19. CASE StartDeepSleep
  BY <1>19, SavesAre DEF StartDeepSleep
<1>20. CASE Reset
  BY <1>20, ResetIs, ResetTypes
<1> QED
  BY <1>1, <1>2, <1>3, <1>4, <1>5, <1>6, <1>7, <1>8, <1>9, <1>10, <1>11, <1>12, <1>13,
     <1>14, <1>15, <1>16, <1>17, <1>18, <1>19, <1>20 DEF Next, Setup, User, Failure, Reset
-----------------------------------------------------------------------------
(***************************************************************************)
(* Where the boot has got to.                                              *)
(***************************************************************************)
LEMMA PlacesStep == ASSUME Types, Places, Next PROVE Places'
<1> USE DEF Types, Places, InSetup
<1>1. CASE BeginSetup
  BY <1>1 DEF BeginSetup, Boots
<1>2. CASE HoldBack
  BY <1>2 DEF HoldBack, Boots
<1>3. CASE StorageFails
  BY <1>3 DEF StorageFails
<1>4. CASE CheckPanic
  BY <1>4 DEF CheckPanic
<1>5. CASE InitializeRecovery
  BY <1>5 DEF InitializeRecovery, Boots
<1>6. CASE RemoveOldRecovery \/ RenameRecovery \/ SaveRecoveryFails
  BY <1>6 DEF RemoveOldRecovery, RenameRecovery, SaveRecoveryFails
<1>7. CASE EnterStage
  BY <1>7 DEF EnterStage, Skipped, Here, RtcMemories
<1>8. CASE SkipStage
  BY <1>8, StageIs DEF SkipStage, ResumeOf, Boots, Here
<1>9. CASE LeavePlainStage
  BY <1>9, StageIs, StagesAre DEF LeavePlainStage, Leave, Here, Never
<1>10. CASE LeaveUiTheme
  BY <1>10, StageIs DEF LeaveUiTheme, Leave, Here, Boots
<1>11. CASE SleepAgain \/ SleepWithoutCard
  BY <1>11 DEF SleepAgain, SleepWithoutCard
<1>12. CASE LeaveState
  <2>1. /\ pc = "inStage" /\ pc' = "stages" /\ pos = 6 /\ pos' = 7
        /\ UNCHANGED reader /\ reader = "none"
    BY <1>12, StageIs DEF LeaveState, Leave, Here
  <2>2. ~boot.safe
    BY <1>12, <2>1 DEF LeaveState, Skipped, AfterBackCheck, Here
  <2>3. boot'.safe = boot.safe /\ boot'.target = boot.target /\ boot'.resume = ResumeOf
    BY <1>12, Zenon DEF LeaveState, Boots
  <2>4. ResumeOf = "Silent" => boot.target # "none"
    BY DEF ResumeOf
  <2> QED
    BY <2>1, <2>2, <2>3, <2>4
<1>13. CASE LeaveDisplayAndFonts
  BY <1>13, RearmedIs, StageIs DEF LeaveDisplayAndFonts, Leave, Here
<1>14. CASE DecideRoute
  BY <1>14, Decided DEF DecideRoute, Boots, Here
<1>15. CASE EnterReader \/ PaintReader
  BY <1>15 DEF EnterReader, PaintReader
<1>16. CASE MarkBootCompleted
  BY <1>16 DEF MarkBootCompleted
<1>17. CASE OpenBook \/ LeaveBook
  BY <1>17 DEF OpenBook, LeaveBook, InUse, Boots
<1>18. CASE ArmSilentReboot
  BY <1>18 DEF ArmSilentReboot
<1>19. CASE EnterDeepSleep
  BY <1>19 DEF EnterDeepSleep
<1>20. CASE StartDeepSleep
  BY <1>20 DEF StartDeepSleep
<1>21. CASE Reset
  BY <1>21, ResetIs, ResetTypes DEF FreshBoot, DefaultApp
<1> QED
  BY <1>1, <1>2, <1>3, <1>4, <1>5, <1>6, <1>7, <1>8, <1>9, <1>10, <1>11, <1>12, <1>13,
     <1>14, <1>15, <1>16, <1>17, <1>18, <1>19, <1>20, <1>21
     DEF Next, Setup, User, Failure, Reset

(***************************************************************************)
(* The tokens and the flags.                                               *)
(***************************************************************************)
LEMMA TokenStep == ASSUME IInv, Next PROVE TokenIsFresh'
<1> USE DEF IInv, Types, Places, InSetup, TokenIsFresh, OnlyLeftover
<1>1. CASE BeginSetup
  BY <1>1 DEF BeginSetup, Boots, RtcMemories, TokenAfterBoot
<1>2. CASE HoldBack
  BY <1>2 DEF HoldBack, Boots
<1>3. CASE StorageFails
  BY <1>3 DEF StorageFails
<1>4. CASE CheckPanic
  BY <1>4 DEF CheckPanic, RtcMemories
<1>5. CASE InitializeRecovery
  BY <1>5 DEF InitializeRecovery, InitializeMask, SkipMaskForStage, MaskAfter, Boots, RtcMemories
<1>6. CASE RemoveOldRecovery \/ RenameRecovery \/ SaveRecoveryFails
  BY <1>6 DEF RemoveOldRecovery, RenameRecovery, SaveRecoveryFails, Cards, RtcMemories
<1>7. CASE EnterStage
  BY <1>7 DEF EnterStage, RtcMemories
<1>8. CASE SkipStage
  BY <1>8 DEF SkipStage, Boots
<1>9. CASE LeavePlainStage \/ LeaveUiTheme
  BY <1>9 DEF LeavePlainStage, LeaveUiTheme, Leave, Boots
<1>10. CASE SleepAgain \/ SleepWithoutCard
  BY <1>10 DEF SleepAgain, SleepWithoutCard
<1>11. CASE LeaveState
  BY <1>11, LoadedIs DEF LeaveState, Leave, Boots
<1>12. CASE LeaveDisplayAndFonts
  BY <1>12, RearmedIs DEF LeaveDisplayAndFonts, Leave, Histories
<1>13. CASE DecideRoute
  BY <1>13, Decided DEF DecideRoute, Boots, Cards, Histories
<1>14. CASE EnterReader \/ PaintReader
  BY <1>14, SavesAre DEF EnterReader, PaintReader, Histories
<1>15. CASE MarkBootCompleted
  <2>1. /\ pc = "routed" /\ pc' = "running" /\ rtc'.token = rtc.token
        /\ rtc'.stage = "Completed"
    BY <1>15 DEF MarkBootCompleted, StageAfterBoot, RtcMemories
  <2>2. card'.skips # {} => seen'.leftover
    BY <1>15 DEF MarkBootCompleted, Histories
  <2> QED
    BY <2>1, <2>2
<1>16. CASE OpenBook \/ LeaveBook
  BY <1>16, SavesAre DEF OpenBook, LeaveBook, InUse, Boots, Histories
<1>17. CASE ArmSilentReboot
  BY <1>17, SavesAre DEF ArmSilentReboot, InUse, RtcMemories, Histories
<1>18. CASE EnterDeepSleep
  BY <1>18 DEF EnterDeepSleep, InUse
<1>19. CASE StartDeepSleep
  BY <1>19 DEF StartDeepSleep
<1>20. CASE Reset
  BY <1>20, ResetIs, ResetTypes DEF FreshBoot
<1> QED
  BY <1>1, <1>2, <1>3, <1>4, <1>5, <1>6, <1>7, <1>8, <1>9, <1>10, <1>11, <1>12, <1>13,
     <1>14, <1>15, <1>16, <1>17, <1>18, <1>19, <1>20
     DEF Next, Setup, User, Failure, Reset

LEMMA FlagsStep == ASSUME IInv, Next PROVE FlagsAreFresh'
<1> USE DEF IInv, Types, Places, InSetup, FlagsAreFresh
<1>0. seen.splashless \in Nat /\ seen.deck \in Nat /\ budget.unsaved \in Nat
  BY BudgetIs DEF Histories
<1>1. CASE BeginSetup
  BY <1>1, NoSaveIs DEF NoSave, BeginSetup, Boots
<1>2. CASE HoldBack
  BY <1>2, NoSaveIs DEF NoSave, HoldBack, Boots
<1>3. CASE StorageFails
  BY <1>3, NoSaveIs DEF NoSave, StorageFails
<1>4. CASE CheckPanic
  BY <1>4, NoSaveIs DEF NoSave, CheckPanic
<1>5. CASE InitializeRecovery
  BY <1>5, NoSaveIs DEF NoSave, InitializeRecovery, Boots
<1>6. CASE RemoveOldRecovery \/ RenameRecovery \/ SaveRecoveryFails
  BY <1>6, NoSaveIs DEF NoSave, RemoveOldRecovery, RenameRecovery, SaveRecoveryFails, Histories
<1>7. CASE EnterStage
  BY <1>7, NoSaveIs DEF NoSave, EnterStage
<1>8. CASE SkipStage
  BY <1>8, NoSaveIs DEF NoSave, SkipStage, ResumeOf, PersistedSleepWake, Boots
<1>9. CASE LeavePlainStage \/ LeaveUiTheme
  BY <1>9, NoSaveIs DEF NoSave, LeavePlainStage, LeaveUiTheme, Leave, Boots
<1>10. CASE SleepAgain \/ SleepWithoutCard
  BY <1>10, NoSaveIs DEF NoSave, SleepAgain, SleepWithoutCard
<1>11. CASE LeaveState
  <2>1. UNCHANGED seen /\ boot'.resume = ResumeOf
        /\ boot'.deck = (PersistedSleepWake /\ ~Skipped("Flashcards") /\ card.app.deck)
    BY <1>11, Zenon DEF LeaveState, Boots
  <2>2. ResumeOf = "SplashlessWake" => ~card.app.bootScreen
    BY DEF ResumeOf, PersistedSleepWake
  <2>3. budget' \in Budgets /\ budget'.unsaved \in Nat
    <3>1. budget' \in Budgets
      BY <1>11, LoadedIs
    <3> QED
      BY <3>1 DEF Budgets
  <2>4. /\ ~app'.deck /\ app'.bootScreen = card.app.bootScreen
        /\ card'.app \in {app', card.app}
        /\ card'.app.deck => budget'.unsaved > budget.unsaved
        /\ budget'.unsaved >= budget.unsaved
    BY <1>11, LoadedIs
  <2>5. ~card.app.bootScreen => seen.splashless <= budget'.unsaved
    BY <1>0, <2>3, <2>4
  <2>6. card.app.deck => seen.deck <= budget.unsaved
    OBVIOUS
  <2>7. card'.app.deck => card'.app = card.app
    BY <2>4
  <2>8. card'.app.deck => seen.deck < budget'.unsaved
    BY <1>0, <2>3, <2>4, <2>6, <2>7
  <2>9. boot'.deck => seen.deck <= budget'.unsaved
    <3>1. boot'.deck => card.app.deck
      BY <2>1, Zenon
    <3> QED
      BY <1>0, <2>3, <2>4, <2>6, <3>1
  <2>10. ~card'.app.bootScreen \/ ~app'.bootScreen => seen.splashless <= budget'.unsaved
    BY <2>4, <2>5
  <2>11. boot'.resume = "SplashlessWake" => seen.splashless <= budget'.unsaved
    BY <2>1, <2>2, <2>5
  <2>12. card'.app.deck \/ app'.deck => seen.deck <= budget'.unsaved
    BY <1>0, <2>3, <2>4, <2>8
  <2> HIDE DEF IInv, Types, Places
  <2> QED
    BY <2>1, <2>4, <2>8, <2>9, <2>10, <2>11, <2>12, Zenon
<1>12. CASE LeaveDisplayAndFonts
  <2>1. /\ pc = "inStage" /\ pos' = 8 /\ UNCHANGED boot
        /\ boot.resume = "SplashlessWake" => seen.splashless <= budget.unsaved
    BY <1>12, StageIs DEF LeaveDisplayAndFonts, Leave, Here
  <2>2. /\ seen'.deck = seen.deck
        /\ seen'.splashless = IF boot.resume = "SplashlessWake" THEN seen.splashless + 1
                              ELSE seen.splashless
    BY <1>12 DEF LeaveDisplayAndFonts, Histories
  <2>3. budget'.unsaved \in Nat
    BY <1>12, RearmedIs, BudgetIs
  <2> QED
    BY <1>0, <1>12, <2>1, <2>2, <2>3, RearmedIs
<1>13. CASE DecideRoute
  <2>1. PICK r \in (Routes \cup {"wakeReader"}) \ {"none"} :
          /\ IF r = "wakeReader" THEN SaveApp(AppBeforeReader(app), budget)
             ELSE SaveApp(app, budget) \/ NotSaved(app, budget)
          /\ seen' = [seen EXCEPT
                       !.silent = IF boot.resume = "Silent" THEN @ + 1 ELSE @,
                       !.deck   = IF r = "flashcards" THEN @ + 1 ELSE @,
                       !.opens  = IF r \in {"reader", "wakeReader"} THEN @ + 1 ELSE @]
          /\ r = "flashcards" => boot.deck
          /\ r = "wakeReader" => ~(app.loads > 0)
    BY <1>13, Decided
  <2>2. /\ AppBeforeReader(app).bootScreen = app.bootScreen
        /\ AppBeforeReader(app).deck = app.deck
    BY DEF AppBeforeReader, Apps
  <2>3. PICK a \in Apps : /\ SaveApp(a, budget) \/ NotSaved(a, budget)
                          /\ a.bootScreen = app.bootScreen /\ a.deck = app.deck
    BY <2>1, <2>2, AppsAre
  <2>4. app' = a /\ card'.app \in {a, card.app} /\ budget'.unsaved >= budget.unsaved
        /\ budget' \in Budgets
    BY <2>3, Saved
  <2>5. /\ seen'.splashless = seen.splashless
        /\ seen'.deck = IF r = "flashcards" THEN seen.deck + 1 ELSE seen.deck
    BY <2>1 DEF Histories
  <2>6. pc = "inStage" /\ pc' = "routed"
    BY <1>13 DEF DecideRoute
  <2> QED
    BY <2>1, <2>3, <2>4, <2>5, <2>6 DEF Budgets, Histories
<1>14. CASE EnterReader \/ StartDeepSleep
  <2>1. UNCHANGED seen /\ pc' \in {pc, "asleep"}
    BY <1>14 DEF EnterReader, StartDeepSleep
  <2>2. ~InSetup
    BY <1>14 DEF EnterReader, StartDeepSleep, ReaderMayEnter
  <2>3. budget'.unsaved \in Nat
    BY <1>14, SavesAre, BudgetIs
  <2>4. ~InSetup'
    BY <2>1, <2>2
  <2>5. pc' # "reset"
    BY <1>14 DEF EnterReader, StartDeepSleep, ReaderMayEnter
  <2>6. /\ app'.bootScreen = app.bootScreen /\ app'.deck = app.deck
        /\ card'.app \in {app', card.app} /\ budget'.unsaved >= budget.unsaved
    BY <1>14, SavesAre
  <2>7. ~card'.app.bootScreen \/ ~app'.bootScreen => seen.splashless <= budget'.unsaved
    <3>1. ~card'.app.bootScreen \/ ~app'.bootScreen => seen.splashless <= budget.unsaved
      BY <2>6
    <3> QED
      BY <1>0, <2>3, <2>6, <3>1
  <2>8. card'.app.deck \/ app'.deck => seen.deck <= budget'.unsaved
    <3>1. card'.app.deck \/ app'.deck => seen.deck <= budget.unsaved
      BY <2>6
    <3> QED
      BY <1>0, <2>3, <2>6, <3>1
  <2> HIDE DEF IInv, Types, Places, InSetup
  <2> QED
    BY <2>1, <2>4, <2>5, <2>7, <2>8, Zenon
<1>15. CASE PaintReader \/ MarkBootCompleted \/ OpenBook
  BY <1>15, NoSaveIs DEF NoSave, PaintReader, MarkBootCompleted, OpenBook, InUse, Boots, Histories
<1>16. CASE LeaveBook \/ ArmSilentReboot
  <2>1. /\ pc' \in {"running", "restarting"}
        /\ seen'.splashless = seen.splashless /\ seen'.deck = seen.deck
    BY <1>16 DEF LeaveBook, ArmSilentReboot, InUse, Histories
  <2>2. budget'.unsaved \in Nat
    BY <1>16, SavesAre, BudgetIs
  <2> QED
    BY <1>0, <1>16, <2>1, <2>2, SavesAre
<1>17. CASE EnterDeepSleep
  <2>1. pc' = "sleeping" /\ seen'.splashless = 0 /\ seen'.deck = 0
    BY <1>17 DEF EnterDeepSleep, Histories
  <2>2. budget'.unsaved \in Nat
    BY <1>17, AsleepIs, BudgetIs
  <2> QED
    BY <2>1, <2>2
<1>18. CASE Reset
  BY <1>18, ResetIs, ResetTypes DEF FreshBoot, DefaultApp
<1> QED
  BY <1>1, <1>2, <1>3, <1>4, <1>5, <1>6, <1>7, <1>8, <1>9, <1>10, <1>11, <1>12, <1>13,
     <1>14, <1>15, <1>16, <1>17, <1>18
     DEF Next, Setup, User, Failure, Reset

LEMMA OpensStep == ASSUME IInv, Next PROVE OpensAreCounted'
<1> USE DEF IInv, Types, Places, InSetup, OpensAreCounted, WakeMayOpen
<1>0. seen.opens \in Nat /\ budget.unsaved \in Nat
  BY BudgetIs DEF Histories
<1>1. CASE NoSave
  <2>1. /\ seen'.opens \in {seen.opens, 0}
        /\ reader' = "shown" => reader = "shown" \/ seen'.opens = 0
    <3>1. CASE PaintReader \/ OpenBook
      BY <3>1 DEF PaintReader, OpenBook, Histories
    <3>2. CASE MarkBootCompleted \/ RemoveOldRecovery
      BY <3>2, Zenon DEF MarkBootCompleted, RemoveOldRecovery, Histories
    <3>3. CASE UNCHANGED <<seen, reader>>
      BY <3>3
    <3> QED
      BY <1>1, <3>1, <3>2, <3>3
         DEF NoSave, BeginSetup, HoldBack, StorageFails, CheckPanic, InitializeRecovery,
             RenameRecovery, SaveRecoveryFails, EnterStage, SkipStage, LeavePlainStage,
             LeaveUiTheme, Leave, SleepAgain, SleepWithoutCard
  <2>2. UNCHANGED app /\ card'.app = card.app /\ budget'.unsaved = budget.unsaved
    BY <1>1, NoSaveIs
  <2>3. seen'.opens <= 2 + budget'.unsaved
    BY <1>0, <2>1, <2>2
  <2>4. WakeMayOpen(app)' \/ WakeMayOpen(card.app)' => seen'.opens <= 1 + budget'.unsaved
    BY <1>0, <2>1, <2>2
  <2>5. reader' = "shown" => seen'.opens = 0
    BY <2>1
  <2> HIDE DEF IInv, Types, Places
  <2> QED
    BY <2>3, <2>4, <2>5, Zenon
<1>2. CASE LeaveState
  <2>1. UNCHANGED <<seen, reader>>
    BY <1>2 DEF LeaveState
  <2>2. budget'.unsaved \in Nat
    BY <1>2, LoadedIs, BudgetIs
  <2> QED
    BY <1>0, <1>2, <2>1, <2>2, LoadedIs
<1>3. CASE LeaveDisplayAndFonts
  <2>1. seen'.opens = seen.opens /\ UNCHANGED reader
    BY <1>3 DEF LeaveDisplayAndFonts, Histories
  <2>2. budget'.unsaved \in Nat
    BY <1>3, RearmedIs, BudgetIs
  <2> QED
    BY <1>0, <1>3, <2>1, <2>2, RearmedIs
<1>4. CASE DecideRoute
  <2>1. PICK r \in (Routes \cup {"wakeReader"}) \ {"none"} :
          /\ reader' = IF r \in {"reader", "wakeReader"} THEN "opening" ELSE "none"
          /\ IF r = "wakeReader" THEN SaveApp(AppBeforeReader(app), budget)
             ELSE SaveApp(app, budget) \/ NotSaved(app, budget)
          /\ seen' = [seen EXCEPT
                       !.silent = IF boot.resume = "Silent" THEN @ + 1 ELSE @,
                       !.deck   = IF r = "flashcards" THEN @ + 1 ELSE @,
                       !.opens  = IF r \in {"reader", "wakeReader"} THEN @ + 1 ELSE @]
          /\ r = "reader" => boot.target = "reader"
          /\ r = "wakeReader" => app.fromReader /\ ~(app.loads > 0)
    BY <1>4, Decided
  <2>2. seen'.opens = IF r \in {"reader", "wakeReader"} THEN seen.opens + 1 ELSE seen.opens
    BY <2>1 DEF Histories
  <2>3. seen.opens \in Nat /\ budget.unsaved \in Nat
    BY DEF Histories, Budgets
  <2>4. pc = "inStage" /\ reader' # "shown"
    BY <1>4, <2>1 DEF DecideRoute
  <2>5. CASE r = "wakeReader"
    <3>1. app.loads = 0 /\ AppBeforeReader(app) \in Apps /\ AppBeforeReader(app).loads = 1
      <4>1. app.loads \in 0 .. 1
        BY AppsAre
      <4>2. AppBeforeReader(app).loads = app.loads + 1
        BY Zenon DEF AppBeforeReader, Apps
      <4>3. app.loads = 0 /\ ~(app.loads > 0)
        BY <2>1, <2>5, <4>1
      <4>4. AppBeforeReader(app) \in Apps
        BY <4>3, AppsAre, Zenon
      <4>5. AppBeforeReader(app).loads = 1
        BY <4>2, <4>3
      <4> QED
        BY <4>3, <4>4, <4>5
    <3>2. /\ app' = AppBeforeReader(app) /\ budget' \in Budgets
          /\ budget'.unsaved >= budget.unsaved
          /\ card'.app = AppBeforeReader(app) \/ budget'.unsaved = budget.unsaved + 1
      BY <2>1, <2>5, <3>1, Saved
    <3> QED
      BY <2>1, <2>2, <2>3, <2>4, <2>5, <3>1, <3>2 DEF Budgets
  <2>6. CASE r # "wakeReader"
    <3>1. /\ app' = app /\ card'.app \in {app, card.app} /\ budget' \in Budgets
          /\ budget'.unsaved >= budget.unsaved
      BY <2>1, <2>6, Saved
    <3>2. r = "reader" => seen.opens = 0
      BY <2>1, <2>4 DEF TokenIsFresh
    <3> QED
      BY <2>2, <2>3, <2>4, <2>6, <3>1, <3>2 DEF Budgets
  <2> QED
    BY <2>5, <2>6
<1>5. CASE EnterReader \/ StartDeepSleep
  <2>1. UNCHANGED seen /\ reader' # "shown"
    BY <1>5 DEF EnterReader, StartDeepSleep
  <2>2. budget'.unsaved \in Nat
    BY <1>5, SavesAre, BudgetIs
  <2> QED
    BY <1>0, <1>5, <2>1, <2>2, SavesAre
<1>6. CASE LeaveBook \/ ArmSilentReboot
  <2>1. seen'.opens = 0 /\ reader' = "none"
    BY <1>6 DEF LeaveBook, ArmSilentReboot, Histories
  <2>2. budget'.unsaved \in Nat
    BY <1>6, SavesAre, BudgetIs
  <2> QED
    BY <2>1, <2>2
<1>7. CASE EnterDeepSleep
  <2>1. seen'.opens = 0 /\ reader' = "none"
    BY <1>7 DEF EnterDeepSleep, Histories
  <2>2. budget'.unsaved \in Nat
    BY <1>7, AsleepIs, BudgetIs
  <2> QED
    BY <2>1, <2>2
<1>8. CASE Reset
  BY <1>0, <1>8, ResetIs, ResetTypes DEF DefaultApp
<1> QED
  BY <1>1, <1>2, <1>3, <1>4, <1>5, <1>6, <1>7, <1>8
     DEF Next, Setup, User, Failure, Reset, NoSave

LEMMA ActedOnceStep == ASSUME IInv, Next PROVE ActedOnce'
<1> USE DEF IInv, Types, ActedOnce
<1>1. CASE DecideRoute
  <2>1. PICK r \in (Routes \cup {"wakeReader"}) \ {"none"} :
          /\ seen' = [seen EXCEPT
                       !.silent = IF boot.resume = "Silent" THEN @ + 1 ELSE @,
                       !.deck   = IF r = "flashcards" THEN @ + 1 ELSE @,
                       !.opens  = IF r \in {"reader", "wakeReader"} THEN @ + 1 ELSE @]
          /\ r = "flashcards" => boot.deck
    BY <1>1, Decided
  <2>2. pc = "inStage"
    BY <1>1 DEF DecideRoute
  <2>3. boot.resume = "Silent" => seen.silent = 0
    BY <2>2 DEF Places, TokenIsFresh, InSetup
  <2>4. r = "flashcards" => seen.deck <= budget.unsaved
    BY <2>1, <2>2 DEF FlagsAreFresh, InSetup
  <2>5. budget' \in Budgets /\ budget'.unsaved >= budget.unsaved
    <3>1. PICK a \in Apps : SaveApp(a, budget) \/ NotSaved(a, budget)
      BY <1>1, AppsAre, Decided
    <3> QED
      BY <3>1, Saved
  <2> QED
    BY <2>1, <2>3, <2>4, <2>5 DEF Histories, Budgets
<1>2. CASE LeaveDisplayAndFonts
  <2>1. boot.resume = "SplashlessWake" => seen.splashless <= budget.unsaved
    BY <1>2, StageIs DEF LeaveDisplayAndFonts, Leave, Here, FlagsAreFresh, InSetup
  <2>2. budget' \in Budgets /\ budget'.unsaved >= budget.unsaved
    BY <1>2, RearmedIs
  <2> QED
    BY <1>2, <2>1, <2>2 DEF LeaveDisplayAndFonts, Histories, Budgets
<1>3. CASE MarkBootCompleted
  BY <1>3, NoSaveIs DEF NoSave, MarkBootCompleted, Histories
<1>4. CASE ArmSilentReboot
  <2>1. budget' \in Budgets /\ budget'.unsaved >= budget.unsaved
    BY <1>4, SavesAre
  <2> QED
    BY <1>4, <2>1 DEF ArmSilentReboot, Histories, Budgets
<1>5. CASE EnterDeepSleep
  <2>1. seen'.splashless = 0 /\ seen'.deck = 0 /\ seen'.silent = seen.silent
    BY <1>5 DEF EnterDeepSleep, Histories
  <2>2. budget'.unsaved \in Nat
    BY <1>5, AsleepIs, BudgetIs
  <2> QED
    BY <2>1, <2>2
<1>6. CASE Reset
  BY <1>6, ResetIs
<1>7. CASE LeaveState \/ EnterReader \/ LeaveBook \/ StartDeepSleep
  <2>1. budget' \in Budgets /\ budget'.unsaved >= budget.unsaved
    BY <1>7, SavesAre, LoadedIs
  <2> QED
    BY <1>7, <2>1 DEF LeaveState, EnterReader, LeaveBook, StartDeepSleep, Histories, Budgets
<1>8. CASE NoSave /\ ~MarkBootCompleted
  BY <1>8, NoSaveIs DEF NoSave, BeginSetup, HoldBack, StorageFails, CheckPanic, InitializeRecovery,
              RemoveOldRecovery, RenameRecovery, SaveRecoveryFails, EnterStage, SkipStage,
              LeavePlainStage, LeaveUiTheme, SleepAgain, PaintReader, OpenBook,
              SleepWithoutCard, Histories
<1> QED
  BY <1>1, <1>2, <1>3, <1>4, <1>5, <1>6, <1>7, <1>8
     DEF Next, Setup, User, Failure, Reset, NoSave

LEMMA InitInvariant == Init => IInv
<1> SUFFICES ASSUME Init PROVE IInv
  OBVIOUS
<1>1. PICK wake \in Wakes : boot = FreshBoot("powerOn", wake)
  BY DEF Init, Wakes
<1>2. boot \in Boots
  BY <1>1 DEF FreshBoot, Boots, Reasons, Targets, Routes
<1>3. DefaultApp \in Apps
  BY DEF DefaultApp, Apps
<1>4. rtc \in RtcMemories /\ rtc.token = "none"
  BY DEF Init, RtcMemories, Targets
<1>5. card \in Cards /\ app \in Apps
  BY <1>3 DEF Init, Cards
<1>6. seen \in Histories /\ budget \in Budgets
  BY StoresAre DEF Init, Histories, Budgets
<1>7. Types
  BY <1>2, <1>4, <1>5, <1>6 DEF Init, Types, Pcs
<1>8. Places
  BY <1>1 DEF Init, Places, FreshBoot, InSetup, DefaultApp
<1> QED
  BY <1>1, <1>4, <1>7, <1>8
     DEF Init, IInv, TokenIsFresh, FlagsAreFresh, ActedOnce, OpensAreCounted, WakeMayOpen,
         DefaultApp, FreshBoot, InSetup

LEMMA NextInvariant == IInv /\ [Next]_vars => IInv'
<1>1. ASSUME IInv, Next PROVE IInv'
  BY <1>1, TypesStep, PlacesStep, TokenStep, FlagsStep, ActedOnceStep, OpensStep DEF IInv
<1>2. ASSUME IInv, UNCHANGED vars PROVE IInv'
  BY <1>2 DEF IInv, vars, Types, Places, TokenIsFresh, FlagsAreFresh, ActedOnce,
              OpensAreCounted, WakeMayOpen, OnlyLeftover, InSetup, Skipped, Here
<1> QED
  BY <1>1, <1>2

THEOREM Invariance == Spec => []IInv
  BY InitInvariant, NextInvariant, PTL DEF Spec

(***************************************************************************)
(* The state of a boot is well formed: each value is one the code can hold *)
(* in that variable, in RTC memory or in that file.                        *)
(***************************************************************************)
THEOREM TypeCorrect == Spec => []TypeOK
<1>1. IInv => TypeOK
  BY StagesAre DEF IInv, Types, TypeOK, Pcs, RtcMemories, Cards, Apps, Boots, Reasons, Wakes
<1> QED
  BY <1>1, Invariance, PTL

(***************************************************************************)
(* Each one-shot acts in one boot at the most, and a book that kills the   *)
(* device is opened by two boots at the most without the user asking, but  *)
(* for one more of each for every failed save of what consumes them.       *)
(***************************************************************************)
THEOREM NoRetryForever == Spec => []NothingIsRetriedForever
<1>1. IInv => NothingIsRetriedForever
  BY DEF IInv, Types, Histories, ActedOnce, OpensAreCounted, NothingIsRetriedForever,
         OneShotsAreOneShot, BookIsNotRetriedForever
<1> QED
  BY <1>1, Invariance, PTL

(***************************************************************************)
(* After a crash, or when the boot must land on Home, nothing is resumed   *)
(* but the book of a silent restart, and that only under a left over       *)
(* recovery.json.                                                          *)
(***************************************************************************)
LEMMA NothingResumed ==
  ASSUME IInv, DecideRoute, boot.fromPanic \/ ForceHome
  PROVE  /\ boot'.route \notin {"flashcards", "ota", "koreader"}
         /\ boot'.route = "reader" \/ reader' # "none" =>
              boot.target = "reader" /\ seen.leftover
<1>1. PICK r \in (Routes \cup {"wakeReader"}) \ {"none"} :
        /\ boot' = [boot EXCEPT !.route = IF r \in {"reader", "wakeReader"} THEN "reader" ELSE r]
        /\ reader' = IF r \in {"reader", "wakeReader"} THEN "opening" ELSE "none"
        /\ r = "reader" => boot.target = "reader" /\ boot.resume = "Silent" /\ app.book
        /\ r = "wakeReader" => ~ForceHome
        /\ r \in {"flashcards", "ota", "koreader"} => ~ForceHome
        /\ r \in {"flashcards", "ota", "koreader", "reader", "wakeReader"} =>
             ~boot.fromPanic \/ ForceHome
  BY Decided
<1>2. pc = "inStage"
  BY DEF DecideRoute
<1>3. ForceHome => boot.safe \/ boot.skips # {}
  BY DEF ForceHome
<1>4. r = "reader" => boot.target = "reader" /\ seen.leftover
  BY <1>1, <1>2, <1>3 DEF IInv, TokenIsFresh, OnlyLeftover, Places, InSetup
<1>5. r \notin {"wakeReader", "flashcards", "ota", "koreader"}
  BY <1>1
<1>6. boot'.route = r
  BY <1>1, <1>5 DEF IInv, Types, Boots
<1> QED
  BY <1>1, <1>4, <1>5, <1>6

THEOREM NoResumption == Spec => AfterACrashNothingResumes
<1>1. IInv /\ [Next]_vars =>
        [DecideRoute /\ (boot.fromPanic \/ ForceHome)
           => /\ boot'.route \notin {"flashcards", "ota", "koreader"}
              /\ boot'.route = "reader" => boot.target = "reader" /\ seen.leftover]_vars
  BY NothingResumed
<1> QED
  BY <1>1, Invariance, PTL DEF Spec, AfterACrashNothingResumes

-----------------------------------------------------------------------------
(***************************************************************************)
(* Which data killed a boot, as long as the next one can tell: no reset by *)
(* a watchdog passes for a captured one, which initialize() forgets, and   *)
(* what a stage without a store of its own dies of is left out for it.     *)
(***************************************************************************)
DeathsAreTold == "watchdogCaptured" \notin Deaths
CulpritsAreMasked ==
  \A b \in BadData : \A c \in Stores, s \in Never : <<c, s>> \in b => c \in SkipMaskForStage(s)

(* What a boot knows of the stage in which bad data killed the last one.     *)
CulpritIsKnown ==
  seen.died # "None" =>
    /\ pc \in {"reset", "begun", "checked"} => boot.reason = "panic" /\ rtc.stage = seen.died
    /\ pc = "reset" => rtc.token = "none"
    /\ boot.target = "none"
    /\ pc # "reset" => boot.fromPanic
    /\ pc \in {"saving", "renaming", "stages", "inStage"} =>
         SkipMaskForStage(seen.died) \subseteq boot.skips
    /\ reader = "none" /\ pc \notin {"running", "restarting", "sleeping"}

LEMMA CulpritStep ==
  ASSUME DeathsAreTold, IInv, CulpritIsKnown, Next PROVE CulpritIsKnown'
<1> USE DEF CulpritIsKnown
<1>1. boot \in Boots /\ seen \in Histories /\ rtc \in RtcMemories
  BY DEF IInv, Types
<1>2. CASE BeginSetup
  BY <1>1, <1>2 DEF BeginSetup, Boots, RtcMemories, IsPanicReset
<1>3. CASE HoldBack \/ StorageFails \/ CheckPanic
  BY <1>1, <1>3 DEF HoldBack, StorageFails, CheckPanic, Boots, RtcMemories
<1>4. CASE InitializeRecovery
  BY <1>1, <1>4 DEF InitializeRecovery, InitializeMask, MaskAfter, IsPanicReset, Boots
<1>5. CASE RemoveOldRecovery \/ RenameRecovery \/ SaveRecoveryFails
  BY <1>1, <1>5 DEF RemoveOldRecovery, RenameRecovery, SaveRecoveryFails, Histories
<1>6. CASE EnterStage \/ SkipStage \/ LeavePlainStage \/ LeaveUiTheme \/ LeaveState
  BY <1>1, <1>6 DEF EnterStage, SkipStage, LeavePlainStage, LeaveUiTheme, LeaveState, Leave, Boots
<1>7. CASE LeaveDisplayAndFonts
  BY <1>1, <1>7 DEF LeaveDisplayAndFonts, Leave, Histories
<1>8. CASE DecideRoute
  <2>1. seen.died # "None" => reader' = "none"
    BY <1>8, NothingResumed DEF DecideRoute
  <2>2. /\ seen'.died = seen.died /\ boot'.fromPanic = boot.fromPanic
        /\ boot'.target = boot.target
    BY <1>1, <1>8, Decided DEF Histories, Boots
  <2> QED
    BY <1>8, <2>1, <2>2 DEF DecideRoute
<1>9. CASE MarkBootCompleted
  BY <1>1, <1>9 DEF MarkBootCompleted, Histories
<1>10. CASE \/ EnterReader \/ PaintReader \/ OpenBook \/ LeaveBook \/ ArmSilentReboot
            \/ EnterDeepSleep \/ StartDeepSleep
  <2>1. seen.died = "None"
    BY <1>10 DEF EnterReader, PaintReader, OpenBook, LeaveBook, ArmSilentReboot, EnterDeepSleep,
       StartDeepSleep, InUse
  <2>2. seen'.died = seen.died
    BY <1>1, <1>10 DEF EnterReader, PaintReader, OpenBook, LeaveBook, ArmSilentReboot,
       EnterDeepSleep, StartDeepSleep, Histories
  <2> QED
    BY <2>1, <2>2
<1>11. CASE SleepAgain \/ SleepWithoutCard
  BY <1>11 DEF SleepAgain, SleepWithoutCard
<1>12. CASE Restart
  BY <1>12 DEF Restart
<1>13. CASE WakeUp \/ PowerCut
  BY <1>1, <1>13 DEF WakeUp, PowerCut, Histories
<1>14. CASE DieOfBadData \/ Crash
  <2>1. PICK how \in Deaths, at \in {rtc.stage, "None"} :
          Dies(how, at) /\ (at # "None" => at = rtc.stage /\ rtc.token = "none")
    <3>1. CASE DieOfBadData
      <4>1. pc \notin {"restarting", "reset"}
        BY <3>1 DEF DieOfBadData, IInv, Places, ReaderMayEnter
      <4> QED
        BY <3>1, <4>1 DEF DieOfBadData, IInv, TokenIsFresh
    <3>2. CASE Crash
      BY <3>2 DEF Crash
    <3> QED
      BY <1>14, <3>1, <3>2
  <2>2. how \in {"panic", "watchdogSilent"}
    BY BootAssumption DEF DeathsAreTold
  <2>3. /\ boot' = FreshBoot(IF how = "panic" THEN "panic" ELSE "watchdog", "Other")
        /\ pc' = "reset" /\ reader' = "none"
    BY <2>1 DEF Dies, ResetInto
  <2>4. rtc'.stage = rtc.stage /\ rtc'.token = rtc.token
    BY <1>1, <2>1, Zenon DEF Dies, RtcMemories
  <2>5. seen'.died = IF how = "watchdogSilent" THEN "None" ELSE at
    BY <1>1, <2>1 DEF Dies, Histories
  <2> QED
    BY <2>1, <2>2, <2>3, <2>4, <2>5 DEF FreshBoot
<1> QED
  BY <1>2, <1>3, <1>4, <1>5, <1>6, <1>7, <1>8, <1>9, <1>10, <1>11, <1>12, <1>13, <1>14
     DEF Next, Setup, User, Failure

(***************************************************************************)
(* Under these assumptions bad data never kills two boots in a row in the  *)
(* same stage.                                                             *)
(***************************************************************************)
THEOREM CulpritSkipped ==
  ASSUME DeathsAreTold, CulpritsAreMasked PROVE Spec => CulpritIsSkipped
<1>1. Init => CulpritIsKnown
  BY DEF Init, CulpritIsKnown
<1>2. IInv /\ CulpritIsKnown /\ [Next]_vars => CulpritIsKnown'
  <2>1. ASSUME IInv, CulpritIsKnown, UNCHANGED vars PROVE CulpritIsKnown'
    BY <2>1 DEF CulpritIsKnown, vars
  <2> QED
    BY <2>1, CulpritStep
<1>3. ASSUME IInv, CulpritIsKnown, DieOfBadData PROVE rtc.stage # seen.died
  <2>1. CASE pc = "inStage" /\ Fatal(Here)
    <3>1. rtc.stage = Here /\ ~Skipped(Here) /\ Here \in StageNames
      BY <2>1, <1>3, StageIs DEF IInv, Types, Places, Here
    <3>2. SUFFICES ASSUME Here = seen.died, seen.died # "None" PROVE FALSE
      BY <3>1, StageNamesAre
    <3>3. SkipMaskForStage(Here) \subseteq boot.skips
      BY <1>3, <2>1, <3>2 DEF CulpritIsKnown
    <3>4. CASE Here \in Stores
      <4>1. Here \in SkipMaskForStage(Here)
        BY <3>4, StoresAre DEF SkipMaskForStage
      <4> QED
        BY <3>1, <3>3, <4>1 DEF Skipped
    <3>5. CASE Here \in Never
      <4>1. PICK c \in Stores : <<c, Here>> \in bad /\ ~Skipped(c)
        BY <2>1 DEF Fatal
      <4>2. c \in SkipMaskForStage(Here)
        BY <1>3, <3>5, <4>1 DEF CulpritsAreMasked, IInv, Types
      <4> QED
        BY <3>3, <4>1, <4>2 DEF Skipped
    <3> QED
      BY <3>1, <3>4, <3>5 DEF Stores
  <2>2. CASE reader \in {"opening", "entered"}
    <3>1. seen.died = "None" /\ pc \in {"routed", "running"}
      BY <1>3, <2>2 DEF CulpritIsKnown, IInv, Types, Pcs, Places, InSetup
    <3>2. rtc.stage \in {"RouteDecision", "Completed"}
      BY <1>3, <3>1 DEF IInv, Places, TokenIsFresh
    <3> QED
      BY <3>1, <3>2
  <2> QED
    BY <1>3, <2>1, <2>2 DEF DieOfBadData
<1>4. IInv /\ CulpritIsKnown /\ [Next]_vars => [DieOfBadData => rtc.stage # seen.died]_vars
  BY <1>3
<1> QED
  BY <1>1, <1>2, <1>4, Invariance, PTL DEF Spec, CulpritIsSkipped
=============================================================================
