-------------------------- MODULE ActivityManager --------------------------
(***************************************************************************)
(* The screen manager of the firmware: src/src/activities/ActivityManager, *)
(* Activity and RenderLock.  Two FreeRTOS tasks share it.  The main task   *)
(* runs ActivityManager::loop() once per iteration of the Arduino loop,    *)
(* calls into the activities and carries out the navigation they request;  *)
(* the render task sleeps on its task notification and draws the current   *)
(* activity under the render lock.                                         *)
(*                                                                         *)
(* An activity is a heap object owned by exactly one of currentActivity,   *)
(* stackActivities and pendingActivity.  phase records its life:           *)
(*   "free"      not constructed, or destroyed after onExit()              *)
(*   "built"     constructed, waiting in pendingActivity                   *)
(*   "entering"  current, its onEnter() is running                         *)
(*   "entered"   its onEnter() has returned                                *)
(***************************************************************************)
EXTENDS Naturals, Sequences

CONSTANTS
  Activity,    \* the activity objects, an address is reused once freed
  Reader,      \* those whose isReaderActivity() holds
  StatsScreen, \* those named "ReadingStats"
  Exclusive,   \* those whose requiresExclusiveStorageLoop() holds
  Nil          \* a null pointer

ASSUME ActivityAssumption ==
  /\ Nil \notin Activity
  /\ Reader \subseteq Activity
  /\ StatsScreen \subseteq Activity \ Reader
  /\ Exclusive \subseteq Activity \ (Reader \cup StatsScreen)

VARIABLES
  currentActivity, stackActivities, pendingActivity, pendingAction,
  resultHandler,   \* the child whose result an activity waits for, or Nil
  phase,
  requestedUpdate, \* the deferred render request
  renderNotified,  \* the render task's notification count is not zero
  mainNotified,    \* the main task's notification count is not zero
  waiting,         \* waitingTaskHandle is the main task
  renderingMutex,  \* "none", "main" or "render": who holds the render lock
  sessionPaused,   \* READING_STATS paused by the statistics shortcut
  sleepScreen,     \* the screen goToSleep() is bringing up, or Nil
  mainPc,          \* where the main task is
  callback,        \* which callback of an activity it runs
  renderPc,        \* where the render task is
  rendering,       \* `this` of the render() call in progress, or Nil
  waiter,          \* the render task's local copy: somebody is to be woken
  owed,            \* history: the screen whose last request is not yet drawn
  sawOwnRender     \* history: a render began since the main task registered

managerVars == <<currentActivity, stackActivities, pendingActivity,
                 pendingAction, resultHandler, phase, sessionPaused, sleepScreen>>
mainVars == <<mainPc, callback>>
renderVars == <<renderPc, rendering, waiter>>
signalVars == <<requestedUpdate, renderNotified, mainNotified, waiting>>
historyVars == <<owed, sawOwnRender>>

vars == <<managerVars, mainVars, renderVars, signalVars, historyVars, renderingMutex>>

OrNil(S) == S \cup {Nil}
InStack == {stackActivities[i] : i \in 1..Len(stackActivities)}

(***************************************************************************)
(* setup() has created the render task and is about to route to the first  *)
(* screen.                                                                 *)
(***************************************************************************)
Init ==
  /\ currentActivity = Nil
  /\ stackActivities = <<>>
  /\ pendingActivity = Nil
  /\ pendingAction = "None"
  /\ resultHandler = [a \in Activity |-> Nil]
  /\ phase = [a \in Activity |-> "free"]
  /\ requestedUpdate = FALSE
  /\ renderNotified = FALSE
  /\ mainNotified = FALSE
  /\ waiting = FALSE
  /\ renderingMutex = "none"
  /\ sessionPaused = FALSE
  /\ sleepScreen = Nil
  /\ mainPc = "launch"
  /\ callback = "boot"
  /\ renderPc = "idle"
  /\ rendering = Nil
  /\ waiter = FALSE
  /\ owed = Nil
  /\ sawOwnRender = FALSE

-----------------------------------------------------------------------------
(* Navigation requests, made by code that runs on the main task.           *)

\* The objects in `gone` are destroyed and the object in `born` moves to `p`.
PhaseAfter(gone, born, p) ==
  [a \in Activity |-> IF a \in born THEN p ELSE IF a \in gone THEN "free" ELSE phase[a]]

HandlersWithout(gone) ==
  [a \in Activity |-> IF a \in gone THEN Nil ELSE resultHandler[a]]

\* replaceActivity() while there is a current activity: only noted.
ReplaceActivity(a) ==
  /\ pendingActivity' = a
  /\ pendingAction' = "Replace"
  /\ phase' = PhaseAfter({pendingActivity}, {a}, "built")
  /\ UNCHANGED <<currentActivity, stackActivities, resultHandler, sessionPaused>>

PushActivity(a) ==
  /\ pendingActivity' = a
  /\ pendingAction' = "Push"
  /\ phase' = PhaseAfter({pendingActivity}, {a}, "built")
  /\ UNCHANGED <<currentActivity, stackActivities>>

PopActivity ==
  /\ pendingActivity' = Nil
  /\ pendingAction' = "Pop"
  /\ phase' = PhaseAfter({pendingActivity}, {}, "free")
  /\ UNCHANGED <<currentActivity, stackActivities, resultHandler, sessionPaused>>

StartActivityForResult(a) ==
  /\ resultHandler' = [resultHandler EXCEPT ![currentActivity] = a]
  /\ PushActivity(a)

\* exitActivity() on each of `gone`: onExit(), then the object is deleted.  A
\* reader's onExit() ends its statistics session, paused or not.
SessionAfterExit(gone) == sessionPaused /\ gone \cap Reader = {}

\* Mutant: the handler forgets READING_STATS.resumeSession().
HandlerForgets(a) == FALSE

\* The handler the statistics shortcut armed resumes the session of a reader.
HandlerResumes(a) == a \in Reader /\ resultHandler[a] \in StatsScreen

OwedAfterExit(gone) == IF owed \in gone THEN Nil ELSE owed

\* Mutants: the stack outlives a replacement; a handler survives its use.
StackKept == stackActivities
HandlersKept(parent) == HandlersWithout({currentActivity})

\* A replacement drops every activity on the stack.
StackAfterReplace == <<>>

\* The handler is moved out of the parent before it is called.
HandlersAfterPop(parent) == HandlersWithout({currentActivity, parent})

\* A push moves the current activity to the stack.
PushedActivity == currentActivity

\* Mutants: the lock is not waited for; pendingAction is not reset; a release
\* guard swallows a queued transition too; the USB screen lacks its override.
LockIgnored == TRUE
AlwaysSwallowed == TRUE
NeverExclusive == FALSE

LockFree == renderingMutex = "none"
ActionDone == pendingAction' = "None"
MayBeSwallowed == pendingAction = "None"
requiresExclusiveStorageLoop == currentActivity \in Exclusive

-----------------------------------------------------------------------------
(* The main task between two calls of ActivityManager::loop() (main.cpp).  *)

EnterLoop ==
  /\ mainPc = "outer"
  /\ mainPc' = "loop"
  /\ UNCHANGED <<managerVars, callback, renderVars, signalVars, historyVars, renderingMutex>>

\* requestUpdate(): the deferred form sets a flag that loop() turns into a
\* notification, the immediate form notifies the render task at once.
RequestUpdate(immediate) ==
  /\ IF immediate
     THEN renderNotified' = TRUE /\ UNCHANGED requestedUpdate
     ELSE requestedUpdate' = TRUE /\ UNCHANGED renderNotified
  /\ owed' = currentActivity

isReaderActivity == ({currentActivity} \cup InStack) \cap Reader # {}

\* The charging icon has to change.
OuterRequestUpdate ==
  /\ mainPc = "outer"
  /\ ~isReaderActivity /\ ~requiresExclusiveStorageLoop
  /\ RequestUpdate(FALSE)
  /\ UNCHANGED <<managerVars, mainVars, renderVars, mainNotified, waiting, sawOwnRender, renderingMutex>>

\* The main loop ran into its power-button shortcut; it calls loop() itself.
OpenReadingStatsShortcut(a) ==
  /\ mainPc = "outer"
  /\ a \in StatsScreen /\ phase[a] = "free"
  /\ pendingAction = "None"
  /\ currentActivity # Nil /\ ~requiresExclusiveStorageLoop
  /\ ({currentActivity} \cup InStack) \cap StatsScreen = {}
  /\ sessionPaused' = (sessionPaused \/ currentActivity \in Reader)
  /\ StartActivityForResult(a)
  /\ mainPc' = "loop"
  /\ UNCHANGED <<sleepScreen, callback, renderVars, signalVars, historyVars, renderingMutex>>

\* enterDeepSleep() reaches goToSleep(), which also calls loop() itself.
GoToSleep(a) ==
  /\ mainPc = "outer"
  /\ phase[a] = "free" /\ a \notin Reader \cup StatsScreen \cup Exclusive
  /\ ~requiresExclusiveStorageLoop
  /\ sleepScreen' = a
  /\ ReplaceActivity(a)
  /\ mainPc' = "loop"
  /\ UNCHANGED <<callback, renderVars, signalVars, historyVars, renderingMutex>>

\* The device is powered down: the next thing that runs is a boot, from Init.
StayAsleep ==
  /\ mainPc = "asleep"
  /\ UNCHANGED vars

-----------------------------------------------------------------------------
(* ActivityManager::loop()                                                 *)

ReturnFromLoop == mainPc' = IF sleepScreen = Nil THEN "outer" ELSE "asleep"

\* A suppressed button release.
LoopSwallowed ==
  /\ mainPc = "loop"
  /\ MayBeSwallowed
  /\ ReturnFromLoop
  /\ UNCHANGED <<managerVars, callback, renderVars, signalVars, historyVars, renderingMutex>>

BeginCallback(kind) ==
  /\ mainPc' = "callback"
  /\ callback' = kind

LoopExclusive ==
  /\ mainPc = "loop"
  /\ requiresExclusiveStorageLoop
  /\ BeginCallback("exclusive")
  /\ UNCHANGED <<managerVars, renderVars, signalVars, historyVars, renderingMutex>>

MayHandleInput ==
  /\ mainPc = "loop"
  /\ ~requiresExclusiveStorageLoop
  /\ currentActivity # Nil
  /\ pendingAction = "None"

\* The home gesture queues Home and returns without processing it.
LoopGoHome(a) ==
  /\ MayHandleInput
  /\ phase[a] = "free" /\ a \notin Reader \cup StatsScreen \cup Exclusive
  /\ ReplaceActivity(a)
  /\ ReturnFromLoop
  /\ UNCHANGED <<sleepScreen, callback, renderVars, signalVars, historyVars, renderingMutex>>

\* Unless the activity handles it: the screens that do so close themselves.
LoopHandleHomeGesture ==
  /\ MayHandleInput
  /\ currentActivity \notin Reader
  /\ PopActivity
  /\ ReturnFromLoop
  /\ UNCHANGED <<sleepScreen, callback, renderVars, signalVars, historyVars, renderingMutex>>

\* The gesture that opens the frontlight panel queues it and returns as well.
LoopOpenPanel(a) ==
  /\ MayHandleInput
  /\ phase[a] = "free" /\ a \notin Reader \cup StatsScreen \cup Exclusive
  /\ PushActivity(a)
  /\ ReturnFromLoop
  /\ UNCHANGED <<resultHandler, sessionPaused, sleepScreen, callback, renderVars,
                 signalVars, historyVars, renderingMutex>>

LoopActivity ==
  /\ MayHandleInput
  /\ BeginCallback("loop")
  /\ UNCHANGED <<managerVars, renderVars, signalVars, historyVars, renderingMutex>>

LoopPending ==
  /\ mainPc = "loop"
  /\ ~requiresExclusiveStorageLoop
  /\ currentActivity = Nil \/ pendingAction # "None"
  /\ mainPc' = "drain"
  /\ UNCHANGED <<managerVars, callback, renderVars, signalVars, historyVars, renderingMutex>>

\* A transition is applied under the render lock.
BeginTransition ==
  /\ mainPc = "drain"
  /\ pendingAction = "Pop" \/ pendingActivity # Nil
  /\ pendingAction # "None"
  /\ LockFree
  /\ renderingMutex' = "main"
  /\ mainPc' = "transition"
  /\ UNCHANGED <<managerVars, callback, renderVars, signalVars, historyVars>>

\* The popped activity was the last one: goHome() runs without the lock.
PopLast ==
  /\ mainPc = "transition" /\ pendingAction = "Pop"
  /\ stackActivities = <<>>
  /\ currentActivity' = Nil
  /\ phase' = PhaseAfter({currentActivity}, {}, "free")
  /\ resultHandler' = HandlersWithout({currentActivity})
  /\ sessionPaused' = SessionAfterExit({currentActivity})
  /\ ActionDone
  /\ renderingMutex' = "none"
  /\ mainPc' = "launch"
  /\ callback' = "enter"
  /\ owed' = OwedAfterExit({currentActivity})
  /\ UNCHANGED <<stackActivities, pendingActivity, sleepScreen, renderVars, signalVars, sawOwnRender>>

\* The parent is current again; its handler, if any, gets the child's result
\* after the lock has been released, otherwise it is simply redrawn.
PopToParent ==
  /\ mainPc = "transition" /\ pendingAction = "Pop"
  /\ stackActivities # <<>>
  /\ LET n == Len(stackActivities)
         parent == stackActivities[n]
     IN /\ currentActivity' = parent
        /\ stackActivities' = SubSeq(stackActivities, 1, n - 1)
        /\ phase' = PhaseAfter({currentActivity}, {}, "free")
        /\ resultHandler' = HandlersAfterPop(parent)
        /\ IF resultHandler[parent] # Nil
           THEN /\ BeginCallback("handler")
                /\ sessionPaused' = (SessionAfterExit({currentActivity}) /\ ~HandlerResumes(parent))
                /\ owed' = OwedAfterExit({currentActivity})
                /\ UNCHANGED requestedUpdate
           ELSE /\ mainPc' = "drain"
                /\ requestedUpdate' = TRUE
                /\ owed' = parent
                /\ sessionPaused' = SessionAfterExit({currentActivity})
                /\ UNCHANGED callback
  /\ ActionDone
  /\ renderingMutex' = "none"
  /\ UNCHANGED <<pendingActivity, sleepScreen, renderVars, renderNotified,
                 mainNotified, waiting, sawOwnRender>>

\* replaceActivity() without a current activity: Home after the last pop, or
\* the first screen after a boot.  onEnter() runs, and no lock is taken.
LaunchNow(a) ==
  /\ mainPc = "launch"
  /\ phase[a] = "free" /\ a \notin StatsScreen
  /\ callback = "enter" => a \notin Reader \cup Exclusive
  /\ currentActivity' = a
  /\ phase' = PhaseAfter({}, {a}, "entering")
  /\ mainPc' = "callback"
  /\ UNCHANGED <<stackActivities, pendingActivity, pendingAction, resultHandler,
                 sessionPaused, sleepScreen, callback, renderVars, signalVars,
                 historyVars, renderingMutex>>

ApplyReplace ==
  /\ mainPc = "transition" /\ pendingAction = "Replace"
  /\ LET gone == {currentActivity} \cup InStack
     IN /\ phase' = PhaseAfter(gone, {pendingActivity}, "entering")
        /\ resultHandler' = HandlersWithout(gone)
        /\ sessionPaused' = SessionAfterExit(gone)
        /\ owed' = OwedAfterExit(gone)
  /\ stackActivities' = StackAfterReplace

ApplyPush ==
  /\ mainPc = "transition" /\ pendingAction = "Push"
  /\ phase' = PhaseAfter({}, {pendingActivity}, "entering")
  /\ stackActivities' = Append(stackActivities, PushedActivity)
  /\ UNCHANGED <<resultHandler, sessionPaused, owed>>

\* The new activity is current and unlocked before its onEnter() runs.
Launch ==
  /\ ApplyReplace \/ ApplyPush
  /\ currentActivity' = pendingActivity
  /\ pendingActivity' = Nil
  /\ ActionDone
  /\ renderingMutex' = "none"
  /\ BeginCallback("enter")
  /\ UNCHANGED <<sleepScreen, renderVars, signalVars, sawOwnRender>>

\* Mutant: the exclusive-storage branch returns without flushing.
FlushUnlessExclusive == requestedUpdate /\ mainPc # "flush"

UpdateFlushed == requestedUpdate

\* The last statement of loop() (and of its exclusive-storage branch).
FlushUpdate ==
  /\ mainPc = "flush" \/ (mainPc = "drain" /\ pendingAction = "None")
  /\ requestedUpdate' = FALSE
  /\ renderNotified' = (renderNotified \/ UpdateFlushed)
  /\ ReturnFromLoop
  /\ UNCHANGED <<managerVars, callback, renderVars, mainNotified, waiting, historyVars, renderingMutex>>

-----------------------------------------------------------------------------
(* Activity callbacks: onEnter(), loop() and result handlers.              *)

\* Callers queue one navigation per callback; only a replacement may overrule
\* it.  The sleep screen, and the exclusive screens while they start, queue none.
MayNavigate ==
  /\ mainPc = "callback"
  /\ currentActivity # sleepScreen
  /\ ~(callback \in {"enter", "boot"} /\ currentActivity \in Exclusive)

\* Menus and settings open the statistics too; a reader leaves it to the shortcut.
CallbackStartForResult(a) ==
  /\ MayNavigate /\ pendingAction = "None"
  /\ phase[a] = "free" /\ a \notin Reader \cup Exclusive
  /\ currentActivity \in Reader => a \notin StatsScreen
  /\ StartActivityForResult(a)
  /\ UNCHANGED <<sessionPaused, sleepScreen, mainVars, renderVars, signalVars,
                 historyVars, renderingMutex>>

CallbackFinish ==
  /\ MayNavigate /\ pendingAction = "None"
  /\ PopActivity
  /\ UNCHANGED <<sleepScreen, mainVars, renderVars, signalVars, historyVars, renderingMutex>>

CallbackReplace(a) ==
  /\ MayNavigate
  /\ phase[a] = "free"
  /\ ReplaceActivity(a)
  /\ UNCHANGED <<sleepScreen, mainVars, renderVars, signalVars, historyVars, renderingMutex>>

CallbackRequestUpdate(immediate) ==
  /\ mainPc = "callback"
  /\ RequestUpdate(immediate)
  /\ UNCHANGED <<managerVars, mainVars, renderVars, mainNotified, waiting, sawOwnRender, renderingMutex>>

\* An activity takes the render lock around its own shared state.
CallbackLock ==
  /\ mainPc = "callback" /\ LockFree
  /\ renderingMutex' = "main"
  /\ mainPc' = "locked"
  /\ UNCHANGED <<managerVars, callback, renderVars, signalVars, historyVars>>

CallbackUnlock ==
  /\ mainPc = "locked"
  /\ renderingMutex' = "none"
  /\ mainPc' = "callback"
  /\ UNCHANGED <<managerVars, callback, renderVars, signalVars, historyVars>>

\* Mutant: the render task is not notified.
NotifyNobody == UNCHANGED renderNotified

NotifyRenderTask == renderNotified' = TRUE

\* requestUpdateAndWait(): register, notify the render task, block.
WaitRegister ==
  /\ mainPc = "callback"
  /\ ~waiting /\ renderingMutex # "main"
  /\ waiting' = TRUE
  /\ sawOwnRender' = FALSE
  /\ mainPc' = "register"
  /\ UNCHANGED <<managerVars, callback, renderVars, requestedUpdate, renderNotified,
                 mainNotified, owed, renderingMutex>>

WaitNotify ==
  /\ mainPc = "register"
  /\ NotifyRenderTask
  /\ owed' = currentActivity
  /\ mainPc' = "wait"
  /\ UNCHANGED <<managerVars, callback, renderVars, requestedUpdate, mainNotified,
                 waiting, sawOwnRender, renderingMutex>>

WaitReturn ==
  /\ mainPc = "wait" /\ mainNotified
  /\ mainNotified' = FALSE
  /\ mainPc' = "callback"
  /\ UNCHANGED <<managerVars, callback, renderVars, requestedUpdate, renderNotified,
                 waiting, historyVars, renderingMutex>>

\* After a handler without a navigation of its own the parent is redrawn.
CallbackReturn ==
  /\ mainPc = "callback"
  /\ phase' = [phase EXCEPT ![currentActivity] = "entered"]
  /\ IF callback = "handler" /\ pendingAction = "None"
     THEN RequestUpdate(FALSE)
     ELSE UNCHANGED <<requestedUpdate, renderNotified, owed>>
  /\ mainPc' = CASE callback = "boot" -> "outer"
                 [] callback = "exclusive" -> "flush"
                 [] OTHER -> "drain"
  /\ UNCHANGED <<currentActivity, stackActivities, pendingActivity, pendingAction,
                 resultHandler, sessionPaused, sleepScreen, callback, renderVars,
                 mainNotified, waiting, sawOwnRender, renderingMutex>>

-----------------------------------------------------------------------------
(* The render task: renderTaskLoop()                                       *)

WaiterTaken == waiting' = FALSE

\* ulTaskNotifyTake(pdTRUE) takes every notification sent so far at once.
RenderTake ==
  /\ renderPc = "idle" /\ renderNotified
  /\ renderNotified' = FALSE
  /\ renderPc' = "woken"
  /\ UNCHANGED <<managerVars, mainVars, rendering, waiter, requestedUpdate,
                 mainNotified, waiting, historyVars, renderingMutex>>

\* currentActivity is read only once the lock is held.
RenderBegin ==
  /\ renderPc = "woken" /\ LockFree
  /\ renderingMutex' = "render"
  /\ rendering' = currentActivity
  /\ renderPc' = IF currentActivity = Nil THEN "drawn" ELSE "drawing"
  /\ owed' = IF owed = currentActivity THEN Nil ELSE owed
  /\ sawOwnRender' = (sawOwnRender \/ waiting)
  /\ UNCHANGED <<managerVars, mainVars, waiter, signalVars>>

\* A render() that has to be repeated asks for it while it draws.
RenderRequestsAgain ==
  /\ renderPc = "drawing"
  /\ requestedUpdate' = TRUE
  /\ owed' = rendering
  /\ UNCHANGED <<managerVars, mainVars, renderVars, renderNotified, mainNotified,
                 waiting, sawOwnRender, renderingMutex>>

RenderEnd ==
  /\ renderPc = "drawing"
  /\ renderPc' = "drawn"
  /\ rendering' = Nil
  /\ UNCHANGED <<managerVars, mainVars, waiter, signalVars, historyVars, renderingMutex>>

RenderTakeWaiter ==
  /\ renderPc = "drawn"
  /\ waiter' = waiting
  /\ WaiterTaken
  /\ renderPc' = "signal"
  /\ UNCHANGED <<managerVars, mainVars, rendering, requestedUpdate, renderNotified,
                 mainNotified, historyVars, renderingMutex>>

\* The waiter is notified, then the lock goes out of scope.
RenderSignal ==
  /\ renderPc = "signal"
  /\ mainNotified' = (mainNotified \/ waiter)
  /\ waiter' = FALSE
  /\ renderPc' = "unlock"
  /\ UNCHANGED <<managerVars, mainVars, rendering, requestedUpdate, renderNotified,
                 waiting, historyVars, renderingMutex>>

RenderUnlock ==
  /\ renderPc = "unlock"
  /\ renderingMutex' = "none"
  /\ renderPc' = "idle"
  /\ UNCHANGED <<managerVars, mainVars, rendering, waiter, signalVars, historyVars>>

-----------------------------------------------------------------------------
LoopProceeds == LoopExclusive \/ LoopActivity \/ LoopPending

CallbackRequest ==
  \/ CallbackFinish \/ CallbackLock \/ WaitRegister
  \/ \E immediate \in BOOLEAN : CallbackRequestUpdate(immediate)
  \/ \E a \in Activity : CallbackStartForResult(a) \/ CallbackReplace(a)

OuterRequest ==
  \/ OuterRequestUpdate
  \/ \E a \in Activity : OpenReadingStatsShortcut(a) \/ GoToSleep(a)

MainProgress ==
  \/ EnterLoop \/ BeginTransition \/ PopLast \/ PopToParent \/ Launch
  \/ FlushUpdate \/ CallbackUnlock \/ WaitNotify \/ WaitReturn
  \/ \E a \in Activity : LaunchNow(a)

MainStep ==
  \/ MainProgress \/ LoopProceeds \/ LoopSwallowed \/ CallbackReturn
  \/ CallbackRequest \/ OuterRequest \/ LoopHandleHomeGesture \/ StayAsleep
  \/ \E a \in Activity : LoopGoHome(a) \/ LoopOpenPanel(a)

RenderProgress ==
  RenderTake \/ RenderEnd \/ RenderTakeWaiter \/ RenderSignal \/ RenderUnlock

RenderStep == RenderProgress \/ RenderBegin \/ RenderRequestsAgain

Next == MainStep \/ RenderStep

Spec == Init /\ [][Next]_vars

(***************************************************************************)
(* Both tasks keep being scheduled.  A callback is finite straight-line    *)
(* code, a suppressed release or a gesture is one event, and the main loop *)
(* gives up the CPU with the lock free (delay() or yield()) in every       *)
(* iteration: hence strong fairness where another choice may intervene.    *)
(***************************************************************************)
Fairness ==
  /\ WF_vars(MainProgress)
  /\ SF_vars(LoopProceeds)
  /\ SF_vars(CallbackReturn)
  /\ WF_vars(RenderProgress)
  /\ SF_vars(RenderBegin)

FairSpec == Spec /\ Fairness

-----------------------------------------------------------------------------
(* Properties.                                                             *)

Live == {"entering", "entered"}

FlagsOK ==
  /\ requestedUpdate \in BOOLEAN /\ renderNotified \in BOOLEAN
  /\ mainNotified \in BOOLEAN /\ waiting \in BOOLEAN /\ waiter \in BOOLEAN
  /\ sessionPaused \in BOOLEAN /\ sawOwnRender \in BOOLEAN

TypeOK ==
  /\ currentActivity \in OrNil(Activity)
  /\ stackActivities \in Seq(Activity)
  /\ pendingActivity \in OrNil(Activity)
  /\ pendingAction \in {"None", "Push", "Pop", "Replace"}
  /\ resultHandler \in [Activity -> OrNil(Activity)]
  /\ phase \in [Activity -> {"free", "built", "entering", "entered"}]
  /\ sleepScreen \in OrNil(Activity)
  /\ mainPc \in {"outer", "loop", "drain", "transition", "launch", "callback", "locked",
                 "register", "wait", "flush", "asleep"}
  /\ callback \in {"boot", "enter", "loop", "handler", "exclusive"}
  /\ renderPc \in {"idle", "woken", "drawing", "drawn", "signal", "unlock"}
  /\ rendering \in OrNil(Activity)
  /\ renderingMutex \in {"none", "main", "render"}
  /\ owed \in OrNil(Activity)
  /\ FlagsOK

(***************************************************************************)
(* The render task never draws an activity that the main task has          *)
(* destroyed or moved away: while render() runs, its `this` is the current *)
(* activity and its onExit() has not run (ActivityManager.cpp:104-117).    *)
(***************************************************************************)
DrawsOnlyTheCurrent ==
  rendering # Nil => rendering = currentActivity /\ phase[rendering] \in Live

(***************************************************************************)
(* Every activity object has exactly one owner and none leaks: it is the   *)
(* current one, the pending one or on the stack once, or it is gone; what  *)
(* waits on the stack has been entered, and what is pending never was, so  *)
(* onExit() is called exactly once for each onEnter().                     *)
(***************************************************************************)
OneOwner ==
  /\ \A a \in Activity :
       /\ phase[a] = "built" <=> a = pendingActivity
       /\ phase[a] \in Live <=> a = currentActivity \/ a \in InStack
  /\ \A i, j \in 1..Len(stackActivities) :
       i # j => stackActivities[i] # stackActivities[j]
  /\ \A i \in 1..Len(stackActivities) :
       /\ stackActivities[i] # currentActivity
       /\ phase[stackActivities[i]] = "entered"

(***************************************************************************)
(* The `while (pendingAction != None)` of loop() always has something to   *)
(* do: a push or a replacement has an activity to launch, and nothing else *)
(* is left in pendingActivity.  Without it the main task spins for ever.   *)
(***************************************************************************)
PendingIsComplete ==
  pendingAction \in {"Push", "Replace"} <=> pendingActivity # Nil

(***************************************************************************)
(* A wake-up is never left over: the main task is registered, about to be  *)
(* woken, or notified in at most one way and only inside                   *)
(* requestUpdateAndWait(), so that the next call does not return at once.  *)
(***************************************************************************)
WakeIsForTheWaiter ==
  /\ waiting \/ waiter \/ mainNotified => mainPc \in {"register", "wait"}
  /\ ~(waiting /\ waiter) /\ ~(waiting /\ mainNotified) /\ ~(waiter /\ mainNotified)

(***************************************************************************)
(* When goToSleep() returns, everything else has been torn down and the    *)
(* sleep screen is up: the device is then put to sleep                     *)
(* (ActivityManager.cpp:131-133, 437-440, main.cpp:497-526).               *)
(***************************************************************************)
SleepScreenAlone ==
  mainPc = "asleep" =>
    /\ currentActivity = sleepScreen /\ phase[sleepScreen] = "entered"
    /\ stackActivities = <<>> /\ pendingAction = "None"

(***************************************************************************)
(* Whenever the main loop is between two iterations with a reader on       *)
(* screen and nothing queued, reading time is being counted: the pause the *)
(* statistics shortcut made has been undone (ActivityManager.cpp:342-356). *)
(***************************************************************************)
SessionRunsWhileReading ==
  mainPc = "outer" /\ currentActivity \in Reader /\ pendingAction = "None"
    => ~sessionPaused

(***************************************************************************)
(* A result handler runs only when the very child it was passed with has   *)
(* just been popped: a handler armed for one child never gets the result   *)
(* of another, and none runs twice (ActivityManager.cpp:192-222,           *)
(* Activity.cpp:17-20).                                                    *)
(***************************************************************************)
ResultsReachTheirHandler ==
  [][(mainPc = "transition" /\ mainPc' = "callback" /\ callback' = "handler")
       => currentActivity = resultHandler[currentActivity']]_vars

(***************************************************************************)
(* Once an activity that owns the raw SD card has been entered, nothing    *)
(* but a restart takes it off the screen, whatever navigation is queued    *)
(* (ActivityManager.cpp:135-144).                                          *)
(***************************************************************************)
ExclusiveIsNeverLeft ==
  [][(currentActivity \in Exclusive)
       => UNCHANGED <<currentActivity, stackActivities>>]_vars

(***************************************************************************)
(* The manager implements the stack of screens: the current activity is    *)
(* the top of it, and no step of either task changes the stack while a     *)
(* screen is being drawn.                                                  *)
(***************************************************************************)
Screens ==
  INSTANCE ScreenStack WITH
    screens <- IF currentActivity = Nil THEN stackActivities
               ELSE Append(stackActivities, currentActivity),
    drawing <- rendering

ImplementsScreenStack == Screens!Spec

(***************************************************************************)
(* requestUpdateAndWait() returns (ActivityManager.cpp:536-564).           *)
(***************************************************************************)
WaitReturns == mainPc \in {"register", "wait"} ~> mainPc = "callback"

(***************************************************************************)
(* A requested update is not lost: the screen it was requested for is      *)
(* drawn by a render() that begins after the request, unless another       *)
(* screen replaces it or the device goes to sleep first                    *)
(* (ActivityManager.cpp:224-227, 272-278).                                 *)
(***************************************************************************)
RequestedUpdateIsDrawn ==
  \A a \in Activity : owed = a ~> (owed # a \/ currentActivity # a \/ mainPc = "asleep")

(***************************************************************************)
(* "Trigger a render and block until it completes"                         *)
(* (ActivityManager.h:131): a render began after the caller registered.    *)
(***************************************************************************)
WaitSeesItsOwnRender ==
  [][mainPc = "wait" /\ mainPc' = "callback" => sawOwnRender]_vars
=============================================================================
