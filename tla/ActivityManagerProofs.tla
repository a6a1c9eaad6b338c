----------------------- MODULE ActivityManagerProofs -----------------------
(***************************************************************************)
(* Proofs about ActivityManager for every set of activities.               *)
(*                                                                         *)
(* The inductive invariant adds to the properties what makes them survive  *)
(* a step: who holds the render lock is determined by where the two tasks  *)
(* are, so that the main task changes the current activity only while the  *)
(* render task is outside render().                                        *)
(*                                                                         *)
(* The second half proves from it that the manager implements ScreenStack, *)
(* that results reach the handler that was armed for them, that the device *)
(* goes to sleep behind the sleep screen only, and that a pause of the     *)
(* reading session is undone.                                              *)
(***************************************************************************)
EXTENDS ActivityManager, SequenceTheorems, TLAPS

\* Each task holds the render lock exactly between two of its steps.
LockHeld ==
  /\ renderingMutex = "main" <=> mainPc \in {"transition", "locked"}
  /\ renderingMutex = "render" <=> renderPc \in {"drawing", "drawn", "signal", "unlock"}
  /\ rendering # Nil <=> renderPc = "drawing"

\* There is a current activity except while the first one is being launched.
MainPlace ==
  /\ currentActivity = Nil <=> mainPc = "launch"
  /\ mainPc = "launch" => stackActivities = <<>>
  /\ mainPc = "transition" => pendingAction # "None"

\* A callback of an activity that is still entering is its own onEnter().
EnterIsFinished ==
  currentActivity # Nil /\ mainPc \notin {"callback", "locked", "register", "wait"}
    => phase[currentActivity] = "entered"

IInv ==
  /\ TypeOK
  /\ LockHeld
  /\ MainPlace
  /\ EnterIsFinished
  /\ OneOwner
  /\ PendingIsComplete
  /\ DrawsOnlyTheCurrent
  /\ WakeIsForTheWaiter

(***************************************************************************)
(* Initially nothing has been constructed and nobody holds the lock.       *)
(***************************************************************************)
LEMMA InitIInv == Init => IInv
<1> SUFFICES ASSUME Init PROVE IInv
  OBVIOUS
<1> USE DEF Init
<1>1. TypeOK
  <2>1. stackActivities \in Seq(Activity)
    OBVIOUS
  <2>4. FlagsOK
    BY Zenon DEF FlagsOK
  <2>2. phase \in [Activity -> {"free", "built", "entering", "entered"}]
    OBVIOUS
  <2>3. resultHandler \in [Activity -> OrNil(Activity)]
    BY DEF OrNil
  <2> QED
    BY <2>1, <2>2, <2>3, <2>4 DEF TypeOK, OrNil
<1>2. InStack = {} /\ Len(stackActivities) = 0
  BY DEF InStack
<1>3. OneOwner
  BY <1>2, ActivityAssumption DEF OneOwner, Live
<1>4. LockHeld /\ MainPlace /\ EnterIsFinished /\ PendingIsComplete /\ DrawsOnlyTheCurrent /\ WakeIsForTheWaiter
  BY DEF LockHeld, MainPlace, EnterIsFinished, PendingIsComplete, DrawsOnlyTheCurrent,
     WakeIsForTheWaiter
<1> QED
  BY <1>1, <1>3, <1>4 DEF IInv

(***************************************************************************)
(* Ownership depends only on the manager's own variables.                  *)
(***************************************************************************)
LEMMA NothingChangesHands ==
  ASSUME IInv, UNCHANGED managerVars
  PROVE  OneOwner' /\ PendingIsComplete'
BY DEF IInv, OneOwner, PendingIsComplete, InStack, Live, managerVars

(***************************************************************************)
(* The steps of the render task own neither an activity nor a queue of the *)
(* manager: they move the render task and the signals between the tasks.   *)
(***************************************************************************)
LEMMA RenderSteps == IInv /\ RenderStep => IInv'
<1> SUFFICES ASSUME IInv, RenderStep PROVE IInv'
  OBVIOUS
<1> USE DEF RenderStep, RenderProgress, RenderBegin, RenderTake, RenderEnd, RenderTakeWaiter,
            RenderSignal, RenderUnlock, RenderRequestsAgain, managerVars, mainVars
<1>1. OneOwner' /\ PendingIsComplete' /\ MainPlace' /\ EnterIsFinished'
  BY NothingChangesHands DEF IInv, MainPlace, EnterIsFinished
<1>2. FlagsOK'
  <2> USE DEF IInv, TypeOK, FlagsOK, renderVars, signalVars, historyVars
  <2>1. CASE RenderTake
    BY <2>1, Zenon
  <2>2. CASE RenderBegin
    BY <2>2, Zenon
  <2>3. CASE RenderEnd
    BY <2>3, Zenon
  <2>4. CASE RenderUnlock
    BY <2>4, Zenon
  <2>5. CASE RenderRequestsAgain
    BY <2>5, Zenon
  <2>6. CASE RenderTakeWaiter
    BY <2>6, Zenon DEF WaiterTaken
  <2>7. CASE RenderSignal
    BY <2>7, Zenon
  <2> QED
    BY <2>1, <2>2, <2>3, <2>4, <2>5, <2>6, <2>7
<1>3. TypeOK'
  <2>1. /\ renderPc' \in {"idle", "woken", "drawing", "drawn", "signal", "unlock"}
        /\ renderingMutex' \in {"none", "main", "render"}
        /\ rendering' \in OrNil(Activity) /\ owed' \in OrNil(Activity)
    BY DEF IInv, TypeOK, OrNil, renderVars, historyVars
  <2> QED
    BY <1>2, <2>1 DEF IInv, TypeOK
<1>4. LockHeld'
  BY DEF IInv, TypeOK, LockHeld, LockFree, renderVars
<1>5. DrawsOnlyTheCurrent'
  BY DEF IInv, TypeOK, OrNil, LockHeld, DrawsOnlyTheCurrent, OneOwner, Live, renderVars
<1>6. WakeIsForTheWaiter'
  BY DEF IInv, TypeOK, FlagsOK, WakeIsForTheWaiter, WaiterTaken, renderVars, signalVars
<1> QED
  BY <1>1, <1>3, <1>4, <1>5, <1>6 DEF IInv

(***************************************************************************)
(* The steps of the main task that touch no activity and queue nothing.    *)
(***************************************************************************)
QuietMainStep ==
  \/ EnterLoop \/ OuterRequestUpdate \/ LoopSwallowed \/ LoopProceeds \/ BeginTransition
  \/ FlushUpdate \/ CallbackLock \/ CallbackUnlock \/ WaitRegister \/ WaitNotify \/ WaitReturn
  \/ \E immediate \in BOOLEAN : CallbackRequestUpdate(immediate)

LEMMA QuietMainSteps == IInv /\ QuietMainStep => IInv'
<1> SUFFICES ASSUME IInv, QuietMainStep PROVE IInv'
  OBVIOUS
<1> USE DEF QuietMainStep, EnterLoop, OuterRequestUpdate, LoopSwallowed, LoopProceeds,
            LoopExclusive, LoopActivity, LoopPending, BeginTransition, FlushUpdate,
            CallbackLock, CallbackUnlock, WaitRegister, WaitNotify, WaitReturn,
            CallbackRequestUpdate, MayHandleInput, ReturnFromLoop, BeginCallback,
            managerVars, mainVars
<1>1. OneOwner' /\ PendingIsComplete'
  BY NothingChangesHands
<1>7. MainPlace' /\ EnterIsFinished'
  BY DEF IInv, TypeOK, MainPlace, EnterIsFinished
<1>2. FlagsOK'
  <2> USE DEF IInv, TypeOK, FlagsOK, renderVars, signalVars, historyVars
  <2>1. CASE EnterLoop
    BY <2>1, Zenon
  <2>2. CASE LoopSwallowed
    BY <2>2, Zenon
  <2>3. CASE LoopProceeds
    BY <2>3, Zenon
  <2>4. CASE BeginTransition
    BY <2>4, Zenon
  <2>5. CASE CallbackLock
    BY <2>5, Zenon
  <2>6. CASE CallbackUnlock
    BY <2>6, Zenon
  <2>7. CASE FlushUpdate
    BY <2>7, Zenon
  <2>8. CASE OuterRequestUpdate
    BY <2>8, Zenon DEF RequestUpdate
  <2>9. ASSUME NEW immediate \in BOOLEAN, CallbackRequestUpdate(immediate) PROVE FlagsOK'
    BY <2>9, Zenon DEF RequestUpdate
  <2>10. CASE WaitRegister
    BY <2>10, Zenon
  <2>11. CASE WaitNotify
    BY <2>11, Zenon DEF NotifyRenderTask
  <2>12. CASE WaitReturn
    BY <2>12, Zenon
  <2> QED
    BY <2>1, <2>2, <2>3, <2>4, <2>5, <2>6, <2>7, <2>8, <2>9, <2>10, <2>11, <2>12
<1>3. TypeOK'
  <2>1. /\ mainPc' \in {"outer", "loop", "drain", "transition", "launch", "callback", "locked",
                        "register", "wait", "flush", "asleep"}
        /\ callback' \in {"boot", "enter", "loop", "handler", "exclusive"}
        /\ renderingMutex' \in {"none", "main", "render"}
        /\ UNCHANGED renderVars
    BY DEF IInv, TypeOK
  <2>2. owed' \in OrNil(Activity)
    BY DEF IInv, TypeOK, RequestUpdate, historyVars
  <2> QED
    BY <1>2, <2>1, <2>2 DEF IInv, TypeOK, renderVars
<1>4. LockHeld'
  BY DEF IInv, TypeOK, LockHeld, LockFree, renderVars
<1>5. DrawsOnlyTheCurrent'
  BY DEF IInv, DrawsOnlyTheCurrent, Live, renderVars
<1>6. WakeIsForTheWaiter'
  BY DEF IInv, WakeIsForTheWaiter, RequestUpdate, renderVars, signalVars
<1> QED
  BY <1>1, <1>3, <1>4, <1>5, <1>6, <1>7 DEF IInv

(***************************************************************************)
(* While the screens stay, their owners do: only what is pending changes.  *)
(***************************************************************************)
LEMMA NothingOpensOrCloses ==
  ASSUME stackActivities \in Seq(Activity), OneOwner,
         UNCHANGED <<currentActivity, stackActivities>>,
         \A b \in Activity : phase'[b] = "built" <=> b = pendingActivity',
         \A b \in Activity : phase[b] \in Live => phase'[b] = phase[b],
         \A b \in Activity : phase'[b] \in Live => phase[b] \in Live
  PROVE  OneOwner'
<1>1. \A b \in Activity : phase'[b] \in Live <=> b = currentActivity' \/ b \in InStack'
  BY DEF OneOwner, InStack
<1>2. \A i \in 1..Len(stackActivities) : phase'[stackActivities[i]] = "entered"
  BY DEF OneOwner, Live
<1> QED
  BY <1>1, <1>2 DEF OneOwner

(***************************************************************************)
(* Queuing a navigation constructs at most one activity, the pending one,  *)
(* and destroys the one that was pending: nothing else changes hands.      *)
(***************************************************************************)
LEMMA QueuedActivity ==
  ASSUME IInv, NEW a \in Activity, phase[a] = "free",
         UNCHANGED <<currentActivity, stackActivities, rendering>>,
         pendingActivity' = a, pendingAction' \in {"Push", "Replace"},
         phase' = PhaseAfter({pendingActivity}, {a}, "built")
  PROVE  /\ pendingActivity' \in OrNil(Activity)
         /\ phase' \in [Activity -> {"free", "built", "entering", "entered"}]
         /\ OneOwner' /\ PendingIsComplete' /\ DrawsOnlyTheCurrent'
         /\ \A b \in Activity : phase[b] \in Live => phase'[b] = phase[b]
<1> USE DEF IInv, TypeOK
<1>1. phase' \in [Activity -> {"free", "built", "entering", "entered"}]
  BY DEF PhaseAfter
<1>2. \A b \in Activity : phase[b] \in Live => phase'[b] = phase[b]
  BY DEF OneOwner, PhaseAfter, Live
<1>3. \A b \in Activity : phase'[b] \in Live => phase[b] \in Live
  BY DEF PhaseAfter, Live
<1>4. \A b \in Activity : phase'[b] = "built" <=> b = a
  BY DEF OneOwner, PhaseAfter
<1>6. OneOwner'
  BY <1>2, <1>3, <1>4, NothingOpensOrCloses
<1>7. PendingIsComplete'
  BY ActivityAssumption DEF PendingIsComplete
<1>8. DrawsOnlyTheCurrent'
  BY <1>2 DEF DrawsOnlyTheCurrent, OrNil
<1> QED
  BY <1>1, <1>2, <1>6, <1>7, <1>8 DEF OrNil

LEMMA QueuedPop ==
  ASSUME IInv, UNCHANGED <<currentActivity, stackActivities, rendering>>, PopActivity
  PROVE  /\ pendingActivity' \in OrNil(Activity)
         /\ phase' \in [Activity -> {"free", "built", "entering", "entered"}]
         /\ OneOwner' /\ PendingIsComplete' /\ DrawsOnlyTheCurrent'
         /\ \A b \in Activity : phase[b] \in Live => phase'[b] = phase[b]
<1> USE DEF IInv, TypeOK, PopActivity
<1>1. phase' \in [Activity -> {"free", "built", "entering", "entered"}]
  BY DEF PhaseAfter
<1>2. \A b \in Activity : phase[b] \in Live => phase'[b] = phase[b]
  BY DEF OneOwner, PhaseAfter, Live
<1>3. \A b \in Activity : phase'[b] \in Live => phase[b] \in Live
  BY DEF PhaseAfter, Live
<1>4. \A b \in Activity : phase'[b] # "built" /\ b # pendingActivity'
  BY ActivityAssumption DEF OneOwner, PhaseAfter
<1>6. OneOwner'
  BY <1>2, <1>3, <1>4, NothingOpensOrCloses
<1>7. PendingIsComplete'
  BY DEF PendingIsComplete
<1>8. DrawsOnlyTheCurrent'
  BY <1>2 DEF DrawsOnlyTheCurrent, OrNil
<1> QED
  BY <1>1, <1>2, <1>6, <1>7, <1>8 DEF OrNil

(***************************************************************************)
(* Every step that queues a navigation.                                    *)
(***************************************************************************)
RequestStep(a) ==
  \/ OpenReadingStatsShortcut(a) \/ GoToSleep(a) \/ LoopGoHome(a) \/ LoopOpenPanel(a)
  \/ CallbackStartForResult(a) \/ CallbackReplace(a)

LEMMA RequestSteps ==
  ASSUME IInv, NEW a \in Activity, RequestStep(a) \/ CallbackFinish \/ LoopHandleHomeGesture
  PROVE  IInv'
<1> USE DEF RequestStep, OpenReadingStatsShortcut, GoToSleep, LoopGoHome, LoopOpenPanel,
            LoopHandleHomeGesture,
            CallbackStartForResult, CallbackReplace, CallbackFinish, MayHandleInput,
            ReturnFromLoop, StartActivityForResult, PushActivity, ReplaceActivity, mainVars
<1>1. UNCHANGED <<currentActivity, stackActivities, renderVars, signalVars, historyVars, renderingMutex>>
  BY DEF PopActivity
<1>2. /\ pendingActivity' \in OrNil(Activity)
      /\ phase' \in [Activity -> {"free", "built", "entering", "entered"}]
      /\ OneOwner' /\ PendingIsComplete' /\ DrawsOnlyTheCurrent'
      /\ \A b \in Activity : phase[b] \in Live => phase'[b] = phase[b]
  <2>1. CASE RequestStep(a)
    BY <1>1, <2>1, QueuedActivity DEF renderVars, MayNavigate
  <2>2. CASE CallbackFinish \/ LoopHandleHomeGesture
    BY <1>1, <2>2, QueuedPop DEF renderVars
  <2> QED
    BY <2>1, <2>2
<1>3. FlagsOK'
  <2>1. sessionPaused' \in BOOLEAN
    <3>1. CASE OpenReadingStatsShortcut(a)
      BY <3>1, Zenon
    <3>2. CASE ~OpenReadingStatsShortcut(a)
      BY <3>2 DEF IInv, TypeOK, FlagsOK, PopActivity
    <3> QED
      BY <3>1, <3>2
  <2> QED
    BY <1>1, <2>1 DEF IInv, TypeOK, FlagsOK, renderVars, signalVars, historyVars
<1>4. TypeOK'
  <2>1. pendingAction' \in {"None", "Push", "Pop", "Replace"}
    BY DEF PopActivity
  <2>2. resultHandler' \in [Activity -> OrNil(Activity)]
    BY DEF IInv, TypeOK, OrNil, PopActivity
  <2>3. sleepScreen' \in OrNil(Activity)
    BY DEF IInv, TypeOK, OrNil
  <2>4. /\ mainPc' \in {"outer", "loop", "drain", "transition", "launch", "callback", "locked",
                        "register", "wait", "flush", "asleep"}
        /\ callback' = callback
    BY DEF IInv, TypeOK
  <2> QED
    BY <1>1, <1>2, <1>3, <2>1, <2>2, <2>3, <2>4 DEF IInv, TypeOK, renderVars, historyVars
<1>5. LockHeld'
  BY <1>1 DEF IInv, LockHeld, renderVars
<1>6. MainPlace'
  BY <1>1 DEF IInv, MainPlace, MayNavigate
<1>8. EnterIsFinished'
  <2>1. currentActivity # Nil /\ phase[currentActivity] = "entered"
          => phase'[currentActivity] = "entered"
    BY <1>2 DEF IInv, TypeOK, OrNil, Live
  <2> QED
    BY <1>1, <2>1 DEF IInv, EnterIsFinished, MayNavigate
<1>7. WakeIsForTheWaiter'
  BY <1>1 DEF IInv, WakeIsForTheWaiter, renderVars, signalVars
<1> QED
  BY <1>2, <1>4, <1>5, <1>6, <1>7, <1>8 DEF IInv

(***************************************************************************)
(* What a stack holds after its last element has been taken off, and after *)
(* an element has been put on it.                                          *)
(***************************************************************************)
LEMMA StackPopped ==
  ASSUME NEW S, NEW s \in Seq(S), s # <<>>
  PROVE  LET t == SubSeq(s, 1, Len(s) - 1)
         IN  /\ t \in Seq(S)
             /\ Len(s) \in Nat \ {0} /\ Len(t) = Len(s) - 1
             /\ \A i \in 1..Len(t) : t[i] = s[i]
<1>1. Len(s) \in Nat \ {0} /\ \A i \in 1..Len(s) - 1 : s[i] \in S
  BY EmptySeq, ElementOfSeq
<1> DEFINE m == Len(s) - 1
           t == SubSeq(s, 1, m)
<1>2. m \in Int /\ \A i \in 1..m : s[i] \in S
  BY <1>1
<1>3. /\ t \in Seq(S)
      /\ Len(t) = IF 1 <= m THEN m - 1 + 1 ELSE 0
      /\ \A i \in 1..(m - 1 + 1) : t[i] = s[1 + i - 1]
  <2> HIDE DEF m
  <2> QED
    BY <1>2, SubSeqProperties
<1>4. Len(t) = m
  <2>1. m \in Nat
    BY <1>1
  <2> HIDE DEF t, m
  <2> QED
    BY <2>1, <1>3
<1>5. \A i \in 1..m : t[i] = s[i]
  BY <1>1, <1>3
<1> QED
  BY <1>1, <1>3, <1>4, <1>5

LEMMA StackPushed ==
  ASSUME NEW S, NEW s \in Seq(S), NEW e \in S
  PROVE  LET t == Append(s, e)
         IN  /\ t \in Seq(S)
             /\ Len(s) \in Nat /\ Len(t) = Len(s) + 1
             /\ \A i \in 1..Len(s) : t[i] = s[i]
             /\ t[Len(s) + 1] = e
OBVIOUS

(***************************************************************************)
(* While the main task holds the lock, or has no current activity, nothing *)
(* is being drawn.                                                         *)
(***************************************************************************)
LEMMA NothingDrawn ==
  ASSUME IInv, mainPc \in {"transition", "launch"}
  PROVE  rendering = Nil
BY DEF IInv, TypeOK, LockHeld, MainPlace, DrawsOnlyTheCurrent

(***************************************************************************)
(* The last screen is closed.                                              *)
(***************************************************************************)
LEMMA PopLastStep == IInv /\ PopLast => IInv'
<1> SUFFICES ASSUME IInv, PopLast PROVE IInv'
  OBVIOUS
<1> USE DEF PopLast
<1>1. rendering = Nil /\ pendingActivity = Nil
  BY NothingDrawn DEF IInv, PendingIsComplete
<1>2. FlagsOK'
  BY Zenon DEF IInv, TypeOK, FlagsOK, SessionAfterExit, renderVars, signalVars, historyVars
<1>3. TypeOK'
  <2>1. /\ phase' \in [Activity -> {"free", "built", "entering", "entered"}]
        /\ resultHandler' \in [Activity -> OrNil(Activity)]
        /\ owed' \in OrNil(Activity)
    BY DEF IInv, TypeOK, PhaseAfter, HandlersWithout, OwedAfterExit, OrNil
  <2> QED
    BY <1>2, <2>1 DEF IInv, TypeOK, ActionDone, OrNil, renderVars
<1>4. OneOwner'
  <2>1. InStack = {} /\ InStack' = {} /\ Len(stackActivities') = 0
    BY DEF InStack
  <2> QED
    BY <2>1, <1>1, ActivityAssumption DEF IInv, TypeOK, OneOwner, PhaseAfter, Live
<1>5. PendingIsComplete'
  BY <1>1 DEF PendingIsComplete, ActionDone
<1>6. LockHeld' /\ MainPlace' /\ EnterIsFinished' /\ DrawsOnlyTheCurrent'
  BY <1>1 DEF IInv, LockHeld, MainPlace, EnterIsFinished, DrawsOnlyTheCurrent, renderVars
<1>7. WakeIsForTheWaiter'
  BY DEF IInv, WakeIsForTheWaiter, renderVars, signalVars
<1> QED
  BY <1>3, <1>4, <1>5, <1>6, <1>7 DEF IInv

(***************************************************************************)
(* The top screen is closed and its parent is current again.               *)
(***************************************************************************)
LEMMA PopToParentStep == IInv /\ PopToParent => IInv'
<1> SUFFICES ASSUME IInv, PopToParent PROVE IInv'
  OBVIOUS
<1> DEFINE n == Len(stackActivities)
           parent == stackActivities[n]
<1>1. rendering = Nil /\ pendingActivity = Nil
  BY NothingDrawn DEF IInv, PendingIsComplete, PopToParent
<1>2. /\ n \in Nat \ {0} /\ parent \in Activity
      /\ \A i \in 1..n : stackActivities[i] \in Activity
      /\ stackActivities' \in Seq(Activity) /\ Len(stackActivities') = n - 1
      /\ \A i \in 1..(n - 1) : stackActivities'[i] = stackActivities[i]
  <2>1. stackActivities \in Seq(Activity) /\ stackActivities # <<>>
    BY DEF IInv, TypeOK, PopToParent
  <2>2. n \in Nat \ {0} /\ \A i \in 1..n : stackActivities[i] \in Activity
    BY <2>1, StackPopped, ElementOfSeq
  <2> QED
    BY <2>1, <2>2, StackPopped DEF PopToParent
<1>3. /\ currentActivity' = parent
      /\ phase' = PhaseAfter({currentActivity}, {}, "free")
      /\ resultHandler' = HandlersWithout({currentActivity, parent})
      /\ UNCHANGED <<pendingActivity, sleepScreen, renderVars, renderNotified, mainNotified, waiting>>
      /\ pendingAction' = "None" /\ renderingMutex' = "none"
      /\ mainPc' \in {"callback", "drain"}
  BY DEF PopToParent, HandlersAfterPop, ActionDone, BeginCallback
<1>4. FlagsOK'
  <2>1. sessionPaused' \in BOOLEAN
    <3>1. CASE resultHandler[parent] # Nil
      BY <3>1, Zenon DEF PopToParent
    <3>2. CASE resultHandler[parent] = Nil
      BY <3>2, Zenon DEF PopToParent, SessionAfterExit
    <3> QED
      BY <3>1, <3>2
  <2>2. requestedUpdate' \in BOOLEAN /\ sawOwnRender' \in BOOLEAN
    BY DEF IInv, TypeOK, FlagsOK, PopToParent
  <2> QED
    BY <1>3, <2>1, <2>2 DEF IInv, TypeOK, FlagsOK, renderVars
<1>5. TypeOK'
  <2>1. /\ phase' \in [Activity -> {"free", "built", "entering", "entered"}]
        /\ resultHandler' \in [Activity -> OrNil(Activity)]
    BY <1>3 DEF IInv, TypeOK, PhaseAfter, HandlersWithout, OrNil
  <2>2. owed' \in OrNil(Activity) /\ callback' \in {"boot", "enter", "loop", "handler", "exclusive"}
    BY <1>2 DEF IInv, TypeOK, PopToParent, BeginCallback, OwedAfterExit, OrNil
  <2> QED
    BY <1>2, <1>3, <1>4, <2>1, <2>2 DEF IInv, TypeOK, OrNil, renderVars
<1>6. OneOwner'
  <2> USE <1>2, <1>3 DEF IInv, OneOwner, Live
  <2>1. \A i \in 1..n : phase'[stackActivities[i]] = "entered"
    BY DEF PhaseAfter
  <2>2. \A a \in Activity : phase'[a] \in Live <=> a # currentActivity /\ phase[a] \in Live
    BY DEF PhaseAfter
  <2>3. InStack = InStack' \cup {parent}
    <3>1. \A i \in 1..n : i = n \/ i \in 1..(n - 1)
      OBVIOUS
    <3> QED
      BY <3>1 DEF InStack
  <2>4. \A a \in Activity : phase'[a] \in Live <=> a = currentActivity' \/ a \in InStack'
    <3>1. currentActivity \notin InStack
      BY DEF InStack
    <3> QED
      BY <2>2, <2>3, <3>1
  <2>5. \A a \in Activity : phase'[a] = "built" <=> a = pendingActivity'
    BY <1>1 DEF PhaseAfter, TypeOK
  <2>6. ASSUME NEW i \in 1..Len(stackActivities')
        PROVE  stackActivities'[i] # currentActivity' /\ phase'[stackActivities'[i]] = "entered"
    <3>1. i \in 1..n /\ i # n /\ stackActivities'[i] = stackActivities[i]
      OBVIOUS
    <3>2. stackActivities[i] # stackActivities[n]
      BY <3>1
    <3> QED
      BY <2>1, <3>1, <3>2
  <2>7. \A i, j \in 1..Len(stackActivities') : i # j => stackActivities'[i] # stackActivities'[j]
    OBVIOUS
  <2> QED
    BY <2>4, <2>5, <2>6, <2>7
<1>7. PendingIsComplete'
  BY <1>1, <1>3 DEF PendingIsComplete
<1>10. EnterIsFinished'
  BY <1>2, <1>3 DEF IInv, EnterIsFinished, OneOwner, PhaseAfter
<1>8. LockHeld' /\ MainPlace' /\ DrawsOnlyTheCurrent'
  BY <1>1, <1>2, <1>3, ActivityAssumption
     DEF IInv, LockHeld, MainPlace, DrawsOnlyTheCurrent, renderVars, PopToParent
<1>9. WakeIsForTheWaiter'
  BY <1>3 DEF IInv, WakeIsForTheWaiter, renderVars, PopToParent
<1> QED
  BY <1>5, <1>6, <1>7, <1>8, <1>9, <1>10 DEF IInv

(***************************************************************************)
(* A queued activity is launched, in place of every screen or on top.      *)
(***************************************************************************)
LEMMA LaunchStep == IInv /\ Launch => IInv'
<1> SUFFICES ASSUME IInv, Launch PROVE IInv'
  OBVIOUS
<1> DEFINE n == Len(stackActivities)
<1>1. /\ rendering = Nil /\ pendingActivity \in Activity
      /\ mainPc = "transition" /\ currentActivity \in Activity
      /\ phase[pendingActivity] = "built"
  <2>1. mainPc = "transition" /\ pendingAction \in {"Push", "Replace"}
    BY DEF Launch, ApplyReplace, ApplyPush
  <2>2. pendingActivity \in Activity /\ currentActivity \in Activity
    BY <2>1 DEF IInv, TypeOK, OrNil, MainPlace, PendingIsComplete
  <2> QED
    BY <2>1, <2>2, NothingDrawn DEF IInv, OneOwner
<1>2. /\ currentActivity' = pendingActivity /\ pendingActivity' = Nil
      /\ pendingAction' = "None" /\ renderingMutex' = "none"
      /\ mainPc' = "callback" /\ callback' = "enter"
      /\ UNCHANGED <<sleepScreen, renderVars, signalVars, sawOwnRender>>
  BY DEF Launch, ActionDone, BeginCallback
<1>3. /\ n \in Nat /\ \A i \in 1..n : stackActivities[i] \in Activity
      /\ stackActivities \in Seq(Activity)
  BY ElementOfSeq, LenProperties DEF IInv, TypeOK
<1>4. CASE ApplyReplace
  <2>1. /\ phase' = PhaseAfter({currentActivity} \cup InStack, {pendingActivity}, "entering")
        /\ resultHandler' = HandlersWithout({currentActivity} \cup InStack)
        /\ owed' = OwedAfterExit({currentActivity} \cup InStack)
        /\ stackActivities' = <<>> /\ Len(stackActivities') = 0
    BY <1>4 DEF ApplyReplace, StackAfterReplace
  <2>2. FlagsOK'
    <3>1. sessionPaused' \in BOOLEAN
      BY <1>4, Zenon DEF ApplyReplace, SessionAfterExit
    <3> QED
      BY <1>2, <3>1 DEF IInv, TypeOK, FlagsOK, renderVars, signalVars
  <2>3. TypeOK'
    <3>1. /\ phase' \in [Activity -> {"free", "built", "entering", "entered"}]
          /\ resultHandler' \in [Activity -> OrNil(Activity)]
          /\ owed' \in OrNil(Activity)
      BY <2>1 DEF IInv, TypeOK, PhaseAfter, HandlersWithout, OwedAfterExit, OrNil
    <3> QED
      BY <1>1, <1>2, <2>1, <2>2, <3>1, EmptySeq DEF IInv, TypeOK, OrNil, renderVars
  <2>4. OneOwner'
    <3>1. \A a \in Activity : phase'[a] \in Live <=> a = pendingActivity
      BY <2>1 DEF IInv, OneOwner, PhaseAfter, Live
    <3>2. \A a \in Activity : phase'[a] # "built"
      BY <2>1 DEF IInv, OneOwner, PhaseAfter, Live
    <3>3. InStack' = {}
      BY <2>1 DEF InStack
    <3>4. \A i \in 1..Len(stackActivities') : FALSE
      BY <2>1
    <3> QED
      BY <1>2, <3>1, <3>2, <3>3, <3>4, ActivityAssumption DEF OneOwner
  <2> QED
    BY <2>3, <2>4, <1>1, <1>2, ActivityAssumption
       DEF IInv, LockHeld, MainPlace, EnterIsFinished, PendingIsComplete,
           DrawsOnlyTheCurrent, WakeIsForTheWaiter, renderVars, signalVars
<1>5. CASE ApplyPush
  <2>1. /\ phase' = PhaseAfter({}, {pendingActivity}, "entering")
        /\ UNCHANGED <<resultHandler, sessionPaused, owed>>
        /\ stackActivities' \in Seq(Activity) /\ Len(stackActivities') = n + 1
        /\ \A i \in 1..n : stackActivities'[i] = stackActivities[i]
        /\ stackActivities'[n + 1] = currentActivity
    BY <1>1, <1>3, <1>5, StackPushed DEF ApplyPush, PushedActivity
  <2>2. FlagsOK'
    BY <1>2, <2>1 DEF IInv, TypeOK, FlagsOK, renderVars, signalVars
  <2>3. TypeOK'
    <3>1. phase' \in [Activity -> {"free", "built", "entering", "entered"}]
      BY <2>1 DEF IInv, TypeOK, PhaseAfter
    <3> QED
      BY <1>1, <1>2, <2>1, <2>2, <3>1 DEF IInv, TypeOK, OrNil, renderVars
  <2>4. OneOwner'
    <3>1. \A a \in Activity : phase'[a] = IF a = pendingActivity THEN "entering" ELSE phase[a]
      BY <2>1 DEF PhaseAfter
    <3>2. \A a \in Activity : phase'[a] # "built"
      BY <3>1 DEF IInv, OneOwner
    <3>3. InStack' = InStack \cup {currentActivity}
      <4>1. \A i \in 1..(n + 1) : i \in 1..n \/ i = n + 1
        BY <1>3
      <4>2. 1..n \subseteq 1..(n + 1) /\ n + 1 \in 1..(n + 1)
        BY <1>3
      <4> QED
        BY <2>1, <4>1, <4>2 DEF InStack
    <3>4. \A a \in Activity : phase'[a] \in Live <=> a = currentActivity' \/ a \in InStack'
      BY <1>1, <1>2, <3>1, <3>3 DEF IInv, OneOwner, Live
    <3>5. ASSUME NEW i \in 1..(n + 1)
          PROVE  stackActivities'[i] # pendingActivity /\ phase'[stackActivities'[i]] = "entered"
      <4>1. phase[currentActivity] = "entered" /\ currentActivity # pendingActivity
        BY <1>1, ActivityAssumption DEF IInv, EnterIsFinished
      <4>2. CASE i = n + 1
        <5>1. stackActivities'[i] = currentActivity
          BY <2>1, <4>2
        <5> QED
          BY <1>1, <3>1, <4>1, <5>1
      <4>3. CASE i \in 1..n
        <5>1. stackActivities'[i] = stackActivities[i] /\ stackActivities[i] \in Activity
          BY <1>3, <2>1, <4>3
        <5>2. phase[stackActivities[i]] = "entered"
          BY <4>3 DEF IInv, OneOwner
        <5> QED
          BY <1>1, <3>1, <5>1, <5>2
      <4> QED
        BY <1>3, <4>2, <4>3
    <3>6. \A i, j \in 1..(n + 1) : i # j => stackActivities'[i] # stackActivities'[j]
      <4>1. \A i \in 1..(n + 1) : i \in 1..n \/ i = n + 1
        BY <1>3
      <4> QED
        BY <2>1, <4>1 DEF IInv, OneOwner
    <3> QED
      BY <1>1, <1>2, <2>1, <3>2, <3>4, <3>5, <3>6, ActivityAssumption DEF OneOwner
  <2> QED
    BY <2>3, <2>4, <1>1, <1>2, ActivityAssumption
       DEF IInv, LockHeld, MainPlace, EnterIsFinished, PendingIsComplete,
           DrawsOnlyTheCurrent, WakeIsForTheWaiter, renderVars, signalVars
<1> QED
  BY <1>4, <1>5 DEF Launch

(***************************************************************************)
(* The first screen, or Home after the last one was closed, is launched    *)
(* although the lock is not taken: nothing is current, nothing is drawn.   *)
(***************************************************************************)
LEMMA LaunchNowStep == ASSUME IInv, NEW a \in Activity, LaunchNow(a) PROVE IInv'
<1> USE DEF LaunchNow
<1>1. rendering = Nil /\ currentActivity = Nil /\ stackActivities = <<>>
  BY NothingDrawn DEF IInv, MainPlace
<1>2. FlagsOK'
  BY DEF IInv, TypeOK, FlagsOK, renderVars, signalVars, historyVars
<1>3. phase' = [b \in Activity |-> IF b = a THEN "entering" ELSE phase[b]]
  BY DEF PhaseAfter
<1>4. TypeOK'
  <2>1. phase' \in [Activity -> {"free", "built", "entering", "entered"}]
    BY <1>3 DEF IInv, TypeOK
  <2>2. /\ currentActivity' \in OrNil(Activity) /\ mainPc' = "callback"
        /\ UNCHANGED <<stackActivities, pendingActivity, pendingAction, resultHandler, sleepScreen,
                       callback, renderPc, rendering, owed, renderingMutex>>
    BY DEF OrNil, renderVars, historyVars
  <2> HIDE DEF LaunchNow
  <2> QED
    BY <1>2, <2>1, <2>2 DEF IInv, TypeOK
<1>5. OneOwner'
  <2>1. InStack = {} /\ InStack' = {} /\ \A i \in 1..Len(stackActivities') : FALSE
    BY <1>1 DEF InStack
  <2>2. \A b \in Activity : phase'[b] = "built" <=> b = pendingActivity'
    BY <1>3 DEF IInv, OneOwner
  <2>3. \A b \in Activity : phase'[b] \in Live <=> b = a
    BY <1>1, <1>3, <2>1, ActivityAssumption DEF IInv, OneOwner, Live
  <2> QED
    BY <2>1, <2>2, <2>3 DEF OneOwner
<1> QED
  BY <1>1, <1>4, <1>5, ActivityAssumption
     DEF IInv, LockHeld, MainPlace, EnterIsFinished, PendingIsComplete, DrawsOnlyTheCurrent,
         WakeIsForTheWaiter, renderVars, signalVars

LEMMA CallbackReturnStep == IInv /\ CallbackReturn => IInv'
<1> SUFFICES ASSUME IInv, CallbackReturn PROVE IInv'
  OBVIOUS
<1> USE DEF CallbackReturn
<1>1. /\ currentActivity \in Activity /\ phase[currentActivity] \in Live
      /\ phase' = [phase EXCEPT ![currentActivity] = "entered"]
      /\ UNCHANGED <<currentActivity, stackActivities, pendingActivity, pendingAction,
                     renderVars, mainNotified, waiting, renderingMutex>>
  BY DEF IInv, TypeOK, OrNil, MainPlace, OneOwner
<1>2. FlagsOK'
  <2>1. requestedUpdate' \in BOOLEAN /\ renderNotified' \in BOOLEAN
    <3>1. CASE callback = "handler" /\ pendingAction = "None"
      BY <3>1, Zenon DEF IInv, TypeOK, FlagsOK, RequestUpdate
    <3>2. CASE ~(callback = "handler" /\ pendingAction = "None")
      BY <3>2, Zenon DEF IInv, TypeOK, FlagsOK
    <3> QED
      BY <3>1, <3>2
  <2> QED
    BY <2>1 DEF IInv, TypeOK, FlagsOK, renderVars
<1>3. TypeOK'
  <2>1. owed' \in OrNil(Activity)
    BY DEF IInv, TypeOK, RequestUpdate
  <2>2. phase' \in [Activity -> {"free", "built", "entering", "entered"}]
    BY <1>1 DEF IInv, TypeOK
  <2> QED
    BY <1>2, <2>1, <2>2 DEF IInv, TypeOK, renderVars
<1>4. OneOwner'
  <2> USE <1>1 DEF IInv, OneOwner, TypeOK
  <2>1. \A b \in Activity : phase'[b] = "built" <=> phase[b] = "built"
    BY DEF Live
  <2>2. \A b \in Activity : phase'[b] \in Live <=> phase[b] \in Live
    BY DEF Live
  <2>3. InStack' = InStack
    BY DEF InStack
  <2>4. \A i \in 1..Len(stackActivities) : phase'[stackActivities[i]] = "entered"
    OBVIOUS
  <2> QED
    BY <2>1, <2>2, <2>3, <2>4
<1>5. LockHeld' /\ MainPlace' /\ PendingIsComplete'
  BY <1>1 DEF IInv, LockHeld, MainPlace, PendingIsComplete, renderVars
<1>6. EnterIsFinished' /\ DrawsOnlyTheCurrent'
  BY <1>1 DEF IInv, TypeOK, EnterIsFinished, DrawsOnlyTheCurrent, Live, renderVars
<1>7. WakeIsForTheWaiter'
  BY DEF IInv, WakeIsForTheWaiter, renderVars
<1> QED
  BY <1>3, <1>4, <1>5, <1>6, <1>7 DEF IInv

(***************************************************************************)
(* Every step of either task preserves the inductive invariant.            *)
(***************************************************************************)
LEMMA NextIInv == IInv /\ [Next]_vars => IInv'
<1> SUFFICES ASSUME IInv, [Next]_vars PROVE IInv'
  OBVIOUS
<1>1. CASE UNCHANGED vars
  <2>1. UNCHANGED managerVars
    BY <1>1 DEF vars
  <2>2. OneOwner' /\ PendingIsComplete'
    BY <2>1, NothingChangesHands
  <2>3. /\ TypeOK' /\ LockHeld' /\ MainPlace' /\ EnterIsFinished'
        /\ DrawsOnlyTheCurrent' /\ WakeIsForTheWaiter'
    BY <1>1 DEF IInv, TypeOK, FlagsOK, LockHeld, MainPlace, EnterIsFinished,
       DrawsOnlyTheCurrent, WakeIsForTheWaiter, vars, managerVars, mainVars, renderVars,
       signalVars, historyVars
  <2> QED
    BY <2>2, <2>3 DEF IInv
<1>2. CASE RenderStep
  BY <1>2, RenderSteps
<1>3. CASE MainStep
  <2>1. CASE QuietMainStep
    BY <2>1, QuietMainSteps
  <2>2. ASSUME NEW a \in Activity, RequestStep(a) PROVE IInv'
    BY <2>2, RequestSteps
  <2>3. CASE PopLast \/ PopToParent
    BY <2>3, PopLastStep, PopToParentStep
  <2>4. CASE Launch \/ CallbackReturn
    BY <2>4, LaunchStep, CallbackReturnStep
  <2>5. ASSUME NEW a \in Activity, LaunchNow(a) PROVE IInv'
    BY <2>5, LaunchNowStep
  <2>6. CASE StayAsleep
    BY <2>6, <1>1 DEF StayAsleep
  <2>7. CASE CallbackFinish \/ LoopHandleHomeGesture
    <3>1. currentActivity \in Activity
      BY <2>7 DEF CallbackFinish, LoopHandleHomeGesture, MayHandleInput, MayNavigate, IInv,
         TypeOK, OrNil, MainPlace
    <3> QED
      BY <2>7, <3>1, RequestSteps
  <2> QED
    BY <1>3, <2>1, <2>2, <2>3, <2>4, <2>5, <2>6, <2>7
       DEF MainStep, MainProgress, LoopProceeds, CallbackRequest, OuterRequest,
           QuietMainStep, RequestStep
<1> QED
  BY <1>1, <1>2, <1>3 DEF Next

(***************************************************************************)
(* The inductive invariant holds in every reachable state.                 *)
(***************************************************************************)
THEOREM Invariance == Spec => []IInv
BY InitIInv, NextIInv, PTL DEF Spec

(***************************************************************************)
(* Every variable keeps its type, for any set of activities.               *)
(***************************************************************************)
THEOREM TypeCorrect == Spec => []TypeOK
BY Invariance, PTL DEF IInv

(***************************************************************************)
(* render() is never running on an activity the main task has destroyed or *)
(* moved off the screen.                                                   *)
(***************************************************************************)
THEOREM NoUseAfterFree == Spec => []DrawsOnlyTheCurrent
BY Invariance, PTL DEF IInv

(***************************************************************************)
(* Every activity has one owner, none leaks and none is exited twice.      *)
(***************************************************************************)
THEOREM Ownership == Spec => []OneOwner
BY Invariance, PTL DEF IInv

(***************************************************************************)
(* loop() never spins on a push or a replacement with nothing to launch.   *)
(***************************************************************************)
THEOREM TransitionsAreComplete == Spec => []PendingIsComplete
BY Invariance, PTL DEF IInv

(***************************************************************************)
(* No wake-up outlives the call of requestUpdateAndWait() it answers.      *)
(***************************************************************************)
THEOREM NoStrayWakeUp == Spec => []WakeIsForTheWaiter
BY Invariance, PTL DEF IInv

-----------------------------------------------------------------------------
(***************************************************************************)
(* An exclusive screen is current only while it is being entered, with no  *)
(* navigation queued, or inside the branch of loop() that applies none;    *)
(* and it never waits on the stack.                                        *)
(***************************************************************************)
ExclusivePlace ==
  /\ InStack \cap Exclusive = {}
  /\ mainPc = "launch" => callback \in {"boot", "enter"} /\ pendingAction = "None"
  /\ currentActivity \in Exclusive =>
       /\ mainPc # "transition"
       /\ mainPc = "drain" => pendingAction = "None"
       /\ mainPc \in {"callback", "locked", "register", "wait"} =>
            \/ callback \in {"enter", "boot"} /\ pendingAction = "None"
            \/ callback = "exclusive"

LEMMA ExclusiveStep == IInv /\ ExclusivePlace /\ [Next]_vars => ExclusivePlace'
<1> SUFFICES ASSUME IInv, ExclusivePlace, [Next]_vars PROVE ExclusivePlace'
  OBVIOUS
<1>1. UNCHANGED stackActivities => InStack' = InStack
  BY DEF InStack
<1>2. CASE RenderStep \/ UNCHANGED vars
  BY <1>1, <1>2 DEF ExclusivePlace, RenderStep, RenderProgress, RenderBegin, RenderTake,
     RenderEnd, RenderTakeWaiter, RenderSignal, RenderUnlock, RenderRequestsAgain, vars,
     managerVars, mainVars
<1>3. CASE QuietMainStep
  BY <1>1, <1>3 DEF ExclusivePlace, QuietMainStep, EnterLoop, OuterRequestUpdate,
     LoopSwallowed, LoopProceeds, LoopExclusive, LoopActivity, LoopPending, BeginTransition,
     FlushUpdate, CallbackLock, CallbackUnlock, WaitRegister, WaitNotify, WaitReturn,
     CallbackRequestUpdate, MayHandleInput, ReturnFromLoop, BeginCallback,
     requiresExclusiveStorageLoop, managerVars, mainVars
<1>4. ASSUME NEW a \in Activity, RequestStep(a) PROVE ExclusivePlace'
  BY <1>1, <1>4 DEF ExclusivePlace, RequestStep, OpenReadingStatsShortcut, GoToSleep,
     LoopGoHome, LoopOpenPanel, CallbackStartForResult, CallbackReplace, MayHandleInput,
     MayNavigate, ReturnFromLoop, requiresExclusiveStorageLoop, StartActivityForResult,
     PushActivity, ReplaceActivity, mainVars
<1>5. CASE CallbackFinish \/ LoopHandleHomeGesture
  BY <1>1, <1>5 DEF ExclusivePlace, CallbackFinish, LoopHandleHomeGesture, PopActivity,
     MayNavigate, MayHandleInput, ReturnFromLoop, requiresExclusiveStorageLoop, mainVars
<1>6. CASE CallbackReturn
  BY <1>1, <1>6 DEF ExclusivePlace, CallbackReturn
<1>7. CASE PopLast
  BY <1>1, <1>7, ActivityAssumption DEF ExclusivePlace, PopLast, ActionDone
<1>8. CASE PopToParent
  <2> DEFINE n == Len(stackActivities)
  <2>1. /\ stackActivities \in Seq(Activity) /\ stackActivities # <<>>
        /\ stackActivities' = SubSeq(stackActivities, 1, n - 1)
        /\ currentActivity' = stackActivities[n]
        /\ mainPc' \in {"callback", "drain"}
    BY <1>8 DEF IInv, TypeOK, PopToParent, BeginCallback
  <2>2. /\ n \in Nat \ {0} /\ Len(stackActivities') = n - 1
        /\ \A i \in 1..Len(stackActivities') : stackActivities'[i] = stackActivities[i]
    BY <2>1, StackPopped
  <2>3. InStack' \subseteq InStack /\ currentActivity' \in InStack
    BY <2>1, <2>2 DEF InStack
  <2> QED
    BY <2>1, <2>3 DEF ExclusivePlace
<1>9. CASE Launch
  <2>1. /\ mainPc = "transition" /\ stackActivities \in Seq(Activity) /\ currentActivity \in Activity
        /\ mainPc' = "callback" /\ callback' = "enter" /\ pendingAction' = "None"
    BY <1>9 DEF IInv, TypeOK, OrNil, MainPlace, Launch, ApplyReplace, ApplyPush, BeginCallback,
       ActionDone
  <2>2. InStack' \subseteq InStack \cup {currentActivity}
    <3>1. CASE stackActivities' = <<>>
      BY <3>1 DEF InStack
    <3>2. CASE stackActivities' = Append(stackActivities, currentActivity)
      <4>1. /\ Len(stackActivities) \in Nat /\ Len(stackActivities') = Len(stackActivities) + 1
            /\ \A i \in 1..Len(stackActivities) : stackActivities'[i] = stackActivities[i]
            /\ stackActivities'[Len(stackActivities) + 1] = currentActivity
        BY <2>1, <3>2, StackPushed
      <4> QED
        BY <4>1 DEF InStack
    <3> QED
      BY <1>9, <3>1, <3>2 DEF Launch, ApplyReplace, ApplyPush, StackAfterReplace, PushedActivity
  <2> QED
    BY <2>1, <2>2 DEF ExclusivePlace
<1>10. ASSUME NEW a \in Activity, LaunchNow(a) PROVE ExclusivePlace'
  BY <1>1, <1>10 DEF ExclusivePlace, LaunchNow
<1>11. CASE StayAsleep
  BY <1>2, <1>11 DEF StayAsleep
<1> QED
  BY <1>2, <1>3, <1>4, <1>5, <1>6, <1>7, <1>8, <1>9, <1>10, <1>11
     DEF Next, MainStep, MainProgress, LoopProceeds, CallbackRequest, OuterRequest,
         QuietMainStep, RequestStep

(***************************************************************************)
(* No navigation takes an exclusive screen off the display.                *)
(***************************************************************************)
THEOREM ExclusiveStays == Spec => ExclusiveIsNeverLeft
<1>1. Init => ExclusivePlace
  BY ActivityAssumption DEF Init, ExclusivePlace, InStack
<1>2. IInv /\ ExclusivePlace /\ [Next]_vars
        => [(currentActivity \in Exclusive) => UNCHANGED <<currentActivity, stackActivities>>]_vars
  <2> SUFFICES ASSUME IInv, ExclusivePlace, Next, currentActivity \in Exclusive
               PROVE  UNCHANGED <<currentActivity, stackActivities>>
    OBVIOUS
  <2>1. mainPc \notin {"transition", "launch"}
    BY ActivityAssumption DEF IInv, ExclusivePlace, MainPlace
  <2> QED
    BY <2>1
       DEF Next, MainStep, MainProgress, LoopProceeds, CallbackRequest, OuterRequest, RenderStep,
           RenderProgress, RenderBegin, RenderTake, RenderEnd, RenderTakeWaiter, RenderSignal,
           RenderUnlock, RenderRequestsAgain, EnterLoop, OuterRequestUpdate, LoopSwallowed,
           LoopExclusive, LoopActivity, LoopPending, BeginTransition, FlushUpdate, CallbackLock,
           CallbackUnlock, WaitRegister, WaitNotify, WaitReturn, CallbackRequestUpdate,
           OpenReadingStatsShortcut, GoToSleep, LoopGoHome, LoopOpenPanel,
           LoopHandleHomeGesture, CallbackStartForResult,
           CallbackReplace, CallbackFinish, CallbackReturn, PopLast, PopToParent, Launch,
           ApplyReplace, ApplyPush, LaunchNow, StayAsleep, StartActivityForResult, PushActivity,
           ReplaceActivity, PopActivity, vars, managerVars
<1> QED
  BY <1>1, <1>2, Invariance, ExclusiveStep, PTL DEF Spec, ExclusiveIsNeverLeft

-----------------------------------------------------------------------------

(***************************************************************************)
(* The steps that leave the screens, and what is being drawn, alone.       *)
(***************************************************************************)
StillStep ==
  \/ QuietMainStep \/ CallbackFinish \/ LoopHandleHomeGesture \/ CallbackReturn \/ StayAsleep
  \/ \E a \in Activity : RequestStep(a)
  \/ RenderTake \/ RenderTakeWaiter \/ RenderSignal \/ RenderUnlock \/ RenderRequestsAgain

LEMMA StillStepsShowTheSame ==
  StillStep => UNCHANGED <<currentActivity, stackActivities, rendering>>
BY DEF StillStep, QuietMainStep, EnterLoop, OuterRequestUpdate, LoopSwallowed, LoopProceeds,
   LoopExclusive, LoopActivity, LoopPending, BeginTransition, FlushUpdate, CallbackLock,
   CallbackUnlock, WaitRegister, WaitNotify, WaitReturn, CallbackRequestUpdate, RequestStep,
   OpenReadingStatsShortcut, GoToSleep, LoopGoHome, LoopOpenPanel, CallbackStartForResult,
   CallbackReplace, CallbackFinish, LoopHandleHomeGesture, CallbackReturn, StayAsleep,
   StartActivityForResult, PushActivity, ReplaceActivity, PopActivity, RenderTake,
   RenderTakeWaiter, RenderSignal, RenderUnlock, RenderRequestsAgain, vars, managerVars,
   renderVars

(***************************************************************************)
(* Every other step opens, closes or draws a screen.                       *)
(***************************************************************************)
LEMMA NextSplit ==
  [Next]_vars =>
    \/ StillStep \/ UNCHANGED vars \/ RenderBegin \/ RenderEnd
    \/ PopLast \/ PopToParent \/ Launch
    \/ \E a \in Activity : LaunchNow(a)
BY DEF Next, MainStep, MainProgress, LoopProceeds, CallbackRequest, OuterRequest,
   RenderStep, RenderProgress, StillStep, QuietMainStep, RequestStep

-----------------------------------------------------------------------------
(* The refinement.  Shows is what ScreenStack sees of the two owners.      *)

Shows == IF currentActivity = Nil THEN stackActivities
         ELSE Append(stackActivities, currentActivity)

(***************************************************************************)
(* The steps of the stack of screens, in terms of Shows.                   *)
(***************************************************************************)
LEMMA ScreenSteps ==
  /\ Shows = <<>> /\ rendering = Nil => Screens!Init
  /\ Shows' = Shows /\ rendering' = rendering => UNCHANGED Screens!screenVars
  /\ \A a \in Activity : Shows = <<>> /\ Shows' = <<a>> /\ rendering' = rendering => Screens!Next
  /\ \A a \in Activity :
       /\ rendering = Nil /\ rendering' = Nil /\ Shows # <<>>
       /\ a \notin {Shows[i] : i \in 1..Len(Shows)}
       /\ Shows' = Append(Shows, a) \/ Shows' = <<a>>
       => Screens!Next
  /\ /\ rendering = Nil /\ rendering' = Nil /\ Shows # <<>>
     /\ Shows' = SubSeq(Shows, 1, Len(Shows) - 1)
     => Screens!Next
  /\ /\ rendering = Nil /\ Shows # <<>> /\ rendering' = Shows[Len(Shows)] /\ Shows' = Shows
     => Screens!Next
  /\ rendering # Nil /\ rendering' = Nil /\ Shows' = Shows => Screens!Next
BY DEF Shows, Screens!Init, Screens!Next, Screens!screenVars, Screens!Show, Screens!Open,
   Screens!Close, Screens!StartOver, Screens!StartDrawing, Screens!StopDrawing, Screens!Top,
   Screens!Shown

(***************************************************************************)
(* Taking off what was put on a stack, and putting back what was taken.    *)
(***************************************************************************)
LEMMA PushedThenPopped ==
  ASSUME NEW S, NEW s \in Seq(S), NEW e \in S
  PROVE  SubSeq(Append(s, e), 1, Len(s)) = s
<1> DEFINE t == Append(s, e)
           u == SubSeq(t, 1, Len(t) - 1)
<1>1. /\ t \in Seq(S) /\ Len(s) \in Nat /\ Len(t) = Len(s) + 1
      /\ \A i \in 1..Len(s) : t[i] = s[i]
  BY StackPushed
<1>2. t # <<>>
  BY <1>1, EmptySeq
<1>3. u \in Seq(S) /\ Len(u) = Len(s) /\ \A i \in 1..Len(u) : u[i] = t[i]
  <2> HIDE DEF t
  <2>1. u \in Seq(S) /\ Len(u) = Len(t) - 1 /\ \A i \in 1..Len(u) : u[i] = t[i]
    BY <1>1, <1>2, StackPopped
  <2> QED
    BY <1>1, <2>1
<1>4. u = s
  <2> HIDE DEF u, t
  <2> QED
    BY <1>1, <1>3, SeqEqual
<1>5. Len(t) - 1 = Len(s)
  <2> HIDE DEF t
  <2> QED
    BY <1>1
<1> QED
  BY <1>4, <1>5

LEMMA PoppedThenPushed ==
  ASSUME NEW S, NEW s \in Seq(S), s # <<>>
  PROVE  Append(SubSeq(s, 1, Len(s) - 1), s[Len(s)]) = s
<1> DEFINE u == SubSeq(s, 1, Len(s) - 1)
           t == Append(u, s[Len(s)])
<1>1. /\ u \in Seq(S) /\ Len(s) \in Nat \ {0} /\ Len(u) = Len(s) - 1
      /\ \A i \in 1..Len(u) : u[i] = s[i]
  BY StackPopped
<1>2. s[Len(s)] \in S
  BY <1>1, ElementOfSeq
<1>3. /\ t \in Seq(S) /\ Len(t) = Len(u) + 1
      /\ \A i \in 1..Len(u) : t[i] = u[i]
      /\ t[Len(u) + 1] = s[Len(s)]
  <2> HIDE DEF u
  <2> QED
    BY <1>1, <1>2, StackPushed
<1> HIDE DEF t, u
<1>4. Len(t) = Len(s) /\ \A i \in 1..Len(t) : t[i] = s[i]
  <2>1. Len(t) = Len(s)
    BY <1>1, <1>3
  <2>2. ASSUME NEW i \in 1..Len(t) PROVE t[i] = s[i]
    <3>1. i \in 1..Len(u) \/ i = Len(u) + 1
      BY <1>1, <1>3
    <3> QED
      BY <1>1, <1>3, <3>1
  <2> QED
    BY <2>1, <2>2
<1>5. t = s
  BY <1>3, <1>4, SeqEqual
<1> QED
  BY <1>5 DEF t, u

(***************************************************************************)
(* What is shown while there is a current activity.                        *)
(***************************************************************************)
LEMMA ShownWithCurrent ==
  ASSUME TypeOK, currentActivity # Nil
  PROVE  LET n == Len(stackActivities)
         IN  /\ Shows = Append(stackActivities, currentActivity)
             /\ n \in Nat /\ Len(Shows) = n + 1 /\ Shows # <<>>
             /\ Shows[n + 1] = currentActivity
             /\ \A i \in 1..n : Shows[i] = stackActivities[i]
             /\ SubSeq(Shows, 1, n) = stackActivities
<1> DEFINE n == Len(stackActivities)
<1>1. stackActivities \in Seq(Activity) /\ currentActivity \in Activity
  BY DEF TypeOK, OrNil
<1>2. Shows = Append(stackActivities, currentActivity)
  BY DEF Shows
<1>3. /\ Shows \in Seq(Activity) /\ n \in Nat /\ Len(Shows) = n + 1
      /\ \A i \in 1..n : Shows[i] = stackActivities[i]
      /\ Shows[n + 1] = currentActivity
  BY <1>1, <1>2, StackPushed
<1>4. Shows # <<>>
  BY <1>3, EmptySeq
<1>5. SubSeq(Shows, 1, n) = stackActivities
  BY <1>1, <1>2, PushedThenPopped
<1> QED
  BY <1>2, <1>3, <1>4, <1>5

(***************************************************************************)
(* Each step of the two tasks is a step of the stack of screens, or none.  *)
(***************************************************************************)
LEMMA RefinementStep ==
  IInv /\ IInv' /\ [Next]_vars => [Screens!Next]_(Screens!screenVars)
<1> SUFFICES ASSUME IInv, IInv', [Next]_vars
             PROVE  Screens!Next \/ UNCHANGED Screens!screenVars
  OBVIOUS
<1>0. TypeOK /\ TypeOK' /\ (currentActivity = Nil <=> mainPc = "launch")
  BY DEF IInv, MainPlace
<1>1. CASE UNCHANGED <<currentActivity, stackActivities, rendering>>
  <2>1. Shows' = Shows
    BY <1>1 DEF Shows
  <2> QED
    BY <1>1, <2>1, ScreenSteps
<1>2. CASE RenderBegin
  <2>1. Shows' = Shows /\ rendering = Nil /\ rendering' = currentActivity
    BY <1>2 DEF RenderBegin, IInv, LockHeld, Shows, managerVars
  <2>2. CASE currentActivity = Nil
    BY <2>1, <2>2, ScreenSteps
  <2>3. CASE currentActivity # Nil
    <3>1. Shows # <<>> /\ rendering' = Shows[Len(Shows)]
      BY <1>0, <2>1, <2>3, ShownWithCurrent
    <3> QED
      BY <2>1, <3>1, ScreenSteps
  <2> QED
    BY <2>2, <2>3
<1>3. CASE RenderEnd
  <2>1. Shows' = Shows /\ rendering # Nil /\ rendering' = Nil
    BY <1>3 DEF RenderEnd, IInv, LockHeld, Shows, managerVars
  <2> QED
    BY <2>1, ScreenSteps
<1>4. CASE PopLast
  <2>1. /\ rendering = Nil /\ rendering' = Nil /\ currentActivity # Nil
        /\ stackActivities = <<>> /\ Shows' = stackActivities
    BY <1>0, <1>4, NothingDrawn DEF PopLast, renderVars, Shows
  <2>2. Shows # <<>> /\ SubSeq(Shows, 1, Len(Shows) - 1) = stackActivities
    <3> DEFINE n == Len(stackActivities)
    <3>1. /\ n \in Nat /\ Len(Shows) = n + 1 /\ Shows # <<>>
          /\ SubSeq(Shows, 1, n) = stackActivities
      BY <1>0, <2>1, ShownWithCurrent
    <3>2. n = Len(Shows) - 1
      <4> HIDE DEF n
      <4> QED
        BY <3>1
    <3> QED
      BY <3>1, <3>2
  <2> QED
    BY <2>1, <2>2, ScreenSteps
<1>5. CASE PopToParent
  <2> DEFINE n == Len(stackActivities)
  <2>1. /\ rendering = Nil /\ rendering' = Nil /\ currentActivity # Nil
        /\ stackActivities # <<>> /\ stackActivities \in Seq(Activity)
        /\ currentActivity' = stackActivities[n]
        /\ stackActivities' = SubSeq(stackActivities, 1, n - 1)
        /\ mainPc' \in {"callback", "drain"}
    BY <1>0, <1>5, NothingDrawn DEF PopToParent, renderVars, TypeOK, BeginCallback
  <2>2. Shows' = stackActivities
    <3>1. currentActivity' # Nil
      BY <1>5, <2>1 DEF IInv, MainPlace
    <3>2. Shows' = Append(stackActivities', currentActivity')
      BY <3>1 DEF Shows
    <3> QED
      BY <2>1, <3>2, PoppedThenPushed
  <2>3. Shows # <<>> /\ SubSeq(Shows, 1, Len(Shows) - 1) = stackActivities
    <3>1. /\ n \in Nat /\ Len(Shows) = n + 1 /\ Shows # <<>>
          /\ SubSeq(Shows, 1, n) = stackActivities
      BY <1>0, <2>1, ShownWithCurrent
    <3> QED
      BY <3>1
  <2> QED
    BY <2>1, <2>2, <2>3, ScreenSteps
<1>6. CASE Launch
  <2>1. /\ rendering = Nil /\ rendering' = Nil /\ currentActivity # Nil
        /\ pendingActivity \in Activity /\ phase[pendingActivity] = "built"
        /\ currentActivity' = pendingActivity
    <3>1. mainPc = "transition" /\ pendingAction \in {"Push", "Replace"}
      BY <1>6 DEF Launch, ApplyReplace, ApplyPush
    <3>2. pendingActivity \in Activity
      BY <3>1 DEF IInv, TypeOK, OrNil, PendingIsComplete
    <3> QED
      BY <1>0, <1>6, <3>1, <3>2, NothingDrawn DEF IInv, OneOwner, Launch, renderVars
  <2>2. Shows # <<>> /\ pendingActivity \notin {Shows[i] : i \in 1..Len(Shows)}
    <3> DEFINE n == Len(stackActivities)
    <3>1. /\ n \in Nat /\ Len(Shows) = n + 1 /\ Shows # <<>>
          /\ Shows[n + 1] = currentActivity /\ \A i \in 1..n : Shows[i] = stackActivities[i]
      BY <1>0, <2>1, ShownWithCurrent
    <3>2. pendingActivity # currentActivity
      BY <1>0, <2>1 DEF IInv, OneOwner, Live
    <3>3. \A i \in 1..n : pendingActivity # stackActivities[i]
      BY <2>1 DEF IInv, OneOwner
    <3>4. \A i \in 1..(n + 1) : i \in 1..n \/ i = n + 1
      BY <3>1
    <3> QED
      BY <3>1, <3>2, <3>3, <3>4
  <2>3. Shows' = Append(stackActivities', pendingActivity)
    BY <2>1, ActivityAssumption DEF Shows
  <2>4. CASE stackActivities' = <<>>
    <3>1. Shows' = <<pendingActivity>>
      BY <2>3, <2>4
    <3> QED
      BY <2>1, <2>2, <3>1, ScreenSteps
  <2>5. CASE stackActivities' = Append(stackActivities, currentActivity)
    <3>1. Shows' = Append(Shows, pendingActivity)
      BY <1>0, <2>1, <2>3, <2>5, ShownWithCurrent
    <3> QED
      BY <2>1, <2>2, <3>1, ScreenSteps
  <2> QED
    BY <1>6, <2>4, <2>5 DEF Launch, ApplyReplace, ApplyPush, StackAfterReplace, PushedActivity
<1>7. ASSUME NEW a \in Activity, LaunchNow(a) PROVE Screens!Next
  <2>1. /\ Shows = <<>> /\ rendering' = rendering
        /\ currentActivity' = a /\ stackActivities' = <<>>
    BY <1>7 DEF LaunchNow, IInv, MainPlace, Shows, renderVars
  <2>2. Shows' = <<a>>
    BY <2>1, ActivityAssumption DEF Shows
  <2> QED
    BY <2>1, <2>2, ScreenSteps
<1> QED
  BY <1>1, <1>2, <1>3, <1>4, <1>5, <1>6, <1>7, NextSplit, StillStepsShowTheSame
     DEF vars, managerVars, renderVars

(***************************************************************************)
(* The manager implements the stack of screens: whatever the two tasks do, *)
(* the rest of the firmware sees screens opened, closed and drawn one at a *)
(* time.                                                                   *)
(***************************************************************************)
THEOREM Refinement == Spec => ImplementsScreenStack
<1>1. Init => Screens!Init
  <2> SUFFICES ASSUME Init PROVE Screens!Init
    OBVIOUS
  <2>1. Shows = <<>> /\ rendering = Nil
    BY DEF Init, Shows
  <2> QED
    BY <2>1, ScreenSteps
<1> QED
  BY <1>1, RefinementStep, Invariance, PTL DEF Spec, ImplementsScreenStack, Screens!Spec

-----------------------------------------------------------------------------
(***************************************************************************)
(* A handler is armed for the activity directly above: the one that is     *)
(* about to be pushed, the one on screen, or the next one on the stack.  A *)
(* queued replacement destroys everybody, armed or not.                    *)
(***************************************************************************)
ChildOf(i) == IF i = Len(stackActivities) THEN currentActivity ELSE stackActivities[i + 1]

HandlerPlace ==
  /\ \A a \in Activity : phase[a] \notin Live => resultHandler[a] = Nil
  /\ currentActivity # Nil =>
       \/ resultHandler[currentActivity] = Nil
       \/ pendingAction = "Replace"
       \/ pendingAction = "Push" /\ resultHandler[currentActivity] = pendingActivity
  /\ \A i \in 1..Len(stackActivities) :
       resultHandler[stackActivities[i]] \in {Nil, ChildOf(i)}

(***************************************************************************)
(* The steps that leave the handlers and what they depend on alone.        *)
(***************************************************************************)
LEMMA IdleSteps ==
  ASSUME QuietMainStep \/ StayAsleep \/ RenderStep \/ UNCHANGED vars
  PROVE  UNCHANGED managerVars
BY DEF QuietMainStep, EnterLoop, OuterRequestUpdate, LoopSwallowed, LoopProceeds,
   LoopExclusive, LoopActivity, LoopPending, BeginTransition, FlushUpdate, CallbackLock,
   CallbackUnlock, WaitRegister, WaitNotify, WaitReturn, CallbackRequestUpdate, StayAsleep,
   RenderStep, RenderProgress, RenderBegin, RenderTake, RenderEnd, RenderTakeWaiter,
   RenderSignal, RenderUnlock, RenderRequestsAgain, vars

(***************************************************************************)
(* Queuing a navigation keeps what is alive, and arms the current activity *)
(* at most.                                                                *)
(***************************************************************************)
LEMMA QueueingSteps ==
  ASSUME IInv, NEW a \in Activity, RequestStep(a) \/ CallbackFinish \/ LoopHandleHomeGesture
  PROVE  /\ UNCHANGED <<currentActivity, stackActivities>>
         /\ currentActivity # Nil
         /\ \A b \in Activity : phase[b] \in Live <=> phase'[b] \in Live
<1> USE DEF RequestStep, OpenReadingStatsShortcut, GoToSleep, LoopGoHome, LoopOpenPanel,
            LoopHandleHomeGesture, CallbackStartForResult, CallbackReplace, CallbackFinish,
            MayHandleInput, StartActivityForResult, PushActivity, ReplaceActivity
<1>1. UNCHANGED <<currentActivity, stackActivities, renderVars>>
  BY DEF PopActivity
<1>2. OneOwner' /\ OneOwner /\ InStack' = InStack
  <2>1. CASE RequestStep(a)
    BY <1>1, <2>1, QueuedActivity DEF renderVars, MayNavigate, IInv, InStack
  <2>2. CASE CallbackFinish \/ LoopHandleHomeGesture
    BY <1>1, <2>2, QueuedPop DEF renderVars, IInv, InStack
  <2> QED
    BY <2>1, <2>2
<1>3. currentActivity # Nil
  BY DEF IInv, MainPlace, MayNavigate
<1> QED
  BY <1>1, <1>2, <1>3 DEF OneOwner

LEMMA HandlerQueued ==
  ASSUME IInv, HandlerPlace,
         NEW a \in Activity, RequestStep(a) \/ CallbackFinish \/ LoopHandleHomeGesture
  PROVE  HandlerPlace'
<1>1. /\ UNCHANGED <<currentActivity, stackActivities>>
      /\ currentActivity \in Activity /\ phase[currentActivity] \in Live
      /\ \A b \in Activity : phase[b] \in Live <=> phase'[b] \in Live
  BY QueueingSteps DEF IInv, TypeOK, OrNil, OneOwner
<1>2. \/ resultHandler' = resultHandler
      \/ /\ resultHandler' = [resultHandler EXCEPT ![currentActivity] = a]
         /\ pendingAction' = "Push" /\ pendingActivity' = a
  BY DEF RequestStep, OpenReadingStatsShortcut, GoToSleep, LoopGoHome, LoopOpenPanel,
     LoopHandleHomeGesture, CallbackStartForResult, CallbackReplace, CallbackFinish,
     StartActivityForResult, PushActivity, ReplaceActivity, PopActivity
<1>3. pendingAction' = "Replace" \/ resultHandler[currentActivity] = Nil
  BY <1>1, ActivityAssumption DEF RequestStep, OpenReadingStatsShortcut, GoToSleep, LoopGoHome, LoopOpenPanel,
     LoopHandleHomeGesture, CallbackStartForResult, CallbackReplace, CallbackFinish,
     StartActivityForResult, PushActivity, ReplaceActivity, PopActivity, MayHandleInput,
     HandlerPlace
<1>4. resultHandler \in [Activity -> OrNil(Activity)]
  BY DEF IInv, TypeOK
<1>5. \A i \in 1..Len(stackActivities) :
        stackActivities[i] # currentActivity /\ stackActivities[i] \in Activity
  BY ElementOfSeq DEF IInv, TypeOK, OneOwner
<1>6. \A b \in Activity : b # currentActivity => resultHandler'[b] = resultHandler[b]
  BY <1>2, <1>4
<1>7. \A b \in Activity : phase'[b] \notin Live => resultHandler'[b] = Nil
  BY <1>1, <1>6 DEF HandlerPlace
<1>8. \/ resultHandler'[currentActivity] = Nil
      \/ pendingAction' = "Replace"
      \/ pendingAction' = "Push" /\ resultHandler'[currentActivity] = pendingActivity'
  BY <1>1, <1>2, <1>3, <1>4
<1>9. \A i \in 1..Len(stackActivities) : resultHandler'[stackActivities[i]] \in {Nil, ChildOf(i)}
  BY <1>5, <1>6 DEF HandlerPlace
<1> QED
  BY <1>1, <1>7, <1>8, <1>9 DEF HandlerPlace, ChildOf

LEMMA HandlerStep == IInv /\ IInv' /\ HandlerPlace /\ [Next]_vars => HandlerPlace'
<1> SUFFICES ASSUME IInv, IInv', HandlerPlace, [Next]_vars PROVE HandlerPlace'
  OBVIOUS
<1> DEFINE n == Len(stackActivities)
<1>0. /\ stackActivities \in Seq(Activity) /\ n \in Nat
      /\ \A i \in 1..n : stackActivities[i] \in Activity
      /\ resultHandler \in [Activity -> OrNil(Activity)]
      /\ phase \in [Activity -> {"free", "built", "entering", "entered"}]
      /\ currentActivity \in OrNil(Activity)
  BY ElementOfSeq, LenProperties DEF IInv, TypeOK
<1>1. CASE UNCHANGED managerVars
  BY <1>1 DEF HandlerPlace, ChildOf, managerVars
<1>2. CASE CallbackReturn
  BY <1>0, <1>2 DEF CallbackReturn, HandlerPlace, ChildOf, Live, IInv, MainPlace, OneOwner, OrNil
<1>3. CASE PopLast
  <2>1. /\ phase' = PhaseAfter({currentActivity}, {}, "free") /\ currentActivity' = Nil
        /\ resultHandler' = HandlersWithout({currentActivity})
        /\ \A i \in 1..Len(stackActivities') : FALSE
    BY <1>3 DEF PopLast
  <2> QED
    BY <1>0, <2>1 DEF HandlerPlace, PhaseAfter, HandlersWithout, Live
<1>4. CASE PopToParent
  <2> DEFINE parent == stackActivities[n]
  <2>1. /\ stackActivities # <<>> /\ currentActivity' = parent
        /\ stackActivities' = SubSeq(stackActivities, 1, n - 1)
        /\ phase' = PhaseAfter({currentActivity}, {}, "free")
        /\ resultHandler' = HandlersWithout({currentActivity, parent})
    BY <1>4 DEF PopToParent, HandlersAfterPop
  <2>2. /\ n \in Nat \ {0} /\ Len(stackActivities') = n - 1
        /\ \A i \in 1..(n - 1) : stackActivities'[i] = stackActivities[i]
    BY <1>0, <2>1, StackPopped
  <2>3. parent \in Activity /\ resultHandler'[parent] = Nil
    BY <1>0, <2>1, <2>2 DEF HandlersWithout
  <2>4. \A b \in Activity : phase'[b] \notin Live => resultHandler'[b] = Nil
    BY <1>0, <2>1 DEF HandlerPlace, PhaseAfter, HandlersWithout, Live
  <2>5. ASSUME NEW i \in 1..(n - 1)
        PROVE  resultHandler'[stackActivities'[i]] \in {Nil, ChildOf(i)'}
    <3>1. i \in 1..n /\ i # n /\ i + 1 \in 1..n /\ stackActivities'[i] = stackActivities[i]
      BY <2>2
    <3>2. ChildOf(i) = stackActivities[i + 1]
      BY <3>1 DEF ChildOf
    <3>3. ChildOf(i)' = stackActivities[i + 1]
      <4>1. CASE i = n - 1
        BY <2>1, <2>2, <4>1 DEF ChildOf
      <4>2. CASE i # n - 1
        <5>1. i + 1 \in 1..(n - 1)
          BY <2>2, <4>2
        <5> QED
          BY <2>2, <4>2, <5>1 DEF ChildOf
      <4> QED
        BY <4>1, <4>2
    <3>4. resultHandler[stackActivities[i]] \in {Nil, ChildOf(i)}
      BY <3>1 DEF HandlerPlace
    <3> QED
      BY <1>0, <2>1, <3>1, <3>2, <3>3, <3>4 DEF HandlersWithout
  <2> QED
    BY <2>1, <2>2, <2>3, <2>4, <2>5 DEF HandlerPlace
<1>5. CASE Launch
  <2>1. /\ pendingActivity \in Activity /\ phase[pendingActivity] = "built"
        /\ resultHandler[pendingActivity] = Nil
        /\ currentActivity' = pendingActivity /\ currentActivity \in Activity
        /\ pendingActivity # currentActivity
    <3>1. mainPc = "transition" /\ pendingAction \in {"Push", "Replace"}
      BY <1>5 DEF Launch, ApplyReplace, ApplyPush
    <3>2. pendingActivity \in Activity /\ currentActivity \in Activity
      BY <3>1 DEF IInv, TypeOK, OrNil, PendingIsComplete, MainPlace
    <3> QED
      BY <1>5, <3>2 DEF IInv, OneOwner, Live, HandlerPlace, Launch
  <2>2. CASE ApplyReplace
    <3>1. /\ phase' = PhaseAfter({currentActivity} \cup InStack, {pendingActivity}, "entering")
          /\ resultHandler' = HandlersWithout({currentActivity} \cup InStack)
          /\ \A i \in 1..Len(stackActivities') : FALSE
      BY <2>2 DEF ApplyReplace, StackAfterReplace
    <3> QED
      BY <1>0, <2>1, <3>1 DEF HandlerPlace, PhaseAfter, HandlersWithout, Live
  <2>3. CASE ApplyPush
    <3>1. /\ phase' = PhaseAfter({}, {pendingActivity}, "entering")
          /\ resultHandler' = resultHandler /\ pendingAction = "Push"
          /\ Len(stackActivities') = n + 1
          /\ \A i \in 1..n : stackActivities'[i] = stackActivities[i]
          /\ stackActivities'[n + 1] = currentActivity
      BY <1>0, <2>1, <2>3, StackPushed DEF ApplyPush, PushedActivity
    <3>2. \A b \in Activity : phase'[b] \notin Live => resultHandler'[b] = Nil
      BY <1>0, <3>1 DEF HandlerPlace, PhaseAfter, Live
    <3>3. ASSUME NEW i \in 1..(n + 1)
          PROVE  resultHandler[stackActivities'[i]] \in {Nil, ChildOf(i)'}
      <4>1. CASE i = n + 1
        BY <2>1, <3>1, <4>1, ActivityAssumption DEF ChildOf, HandlerPlace
      <4>2. CASE i \in 1..n
        <5>1. ChildOf(i)' = stackActivities'[i + 1] /\ stackActivities'[i] = stackActivities[i]
          BY <1>0, <3>1, <4>2 DEF ChildOf
        <5>2. stackActivities'[i + 1] = ChildOf(i)
          <6>1. CASE i = n
            BY <3>1, <6>1 DEF ChildOf
          <6>2. CASE i # n
            <7>1. i + 1 \in 1..n
              BY <1>0, <4>2, <6>2
            <7> QED
              BY <3>1, <6>2, <7>1 DEF ChildOf
          <6> QED
            BY <6>1, <6>2
        <5> QED
          BY <4>2, <5>1, <5>2 DEF HandlerPlace
      <4> QED
        BY <1>0, <4>1, <4>2
    <3> QED
      BY <2>1, <3>1, <3>2, <3>3 DEF HandlerPlace
  <2> QED
    BY <1>5, <2>2, <2>3 DEF Launch
<1>6. ASSUME NEW a \in Activity, LaunchNow(a) PROVE HandlerPlace'
  <2>1. /\ phase' = PhaseAfter({}, {a}, "entering") /\ phase[a] = "free"
        /\ currentActivity' = a /\ resultHandler' = resultHandler
        /\ \A i \in 1..Len(stackActivities') : FALSE
    BY <1>6 DEF LaunchNow, IInv, MainPlace
  <2> QED
    BY <1>0, <2>1 DEF HandlerPlace, PhaseAfter, Live
<1>7. ASSUME NEW a \in Activity, RequestStep(a) PROVE HandlerPlace'
  BY <1>7, HandlerQueued
<1>8. CASE CallbackFinish \/ LoopHandleHomeGesture
  <2>1. currentActivity \in Activity
    BY <1>8 DEF CallbackFinish, LoopHandleHomeGesture, MayHandleInput, MayNavigate, IInv,
       TypeOK, OrNil, MainPlace
  <2> QED
    BY <1>8, <2>1, HandlerQueued
<1> QED
  BY <1>1, <1>2, <1>3, <1>4, <1>5, <1>6, <1>7, <1>8, IdleSteps
     DEF Next, MainStep, MainProgress, LoopProceeds, CallbackRequest, OuterRequest,
         QuietMainStep, RequestStep

(***************************************************************************)
(* A result reaches the handler it was meant for: the activity popped is   *)
(* the one the handler was armed with.                                     *)
(***************************************************************************)
THEOREM ResultsReach == Spec => ResultsReachTheirHandler
<1>1. Init => HandlerPlace
  BY DEF Init, HandlerPlace
<1>2. IInv /\ HandlerPlace /\ [Next]_vars
        => [(mainPc = "transition" /\ mainPc' = "callback" /\ callback' = "handler")
              => currentActivity = resultHandler[currentActivity']]_vars
  <2> SUFFICES ASSUME IInv, HandlerPlace, Next,
                      mainPc = "transition", mainPc' = "callback", callback' = "handler"
               PROVE  currentActivity = resultHandler[currentActivity']
    OBVIOUS
  <2>1. PopToParent
    BY DEF Next, MainStep, MainProgress, LoopProceeds, CallbackRequest, OuterRequest, RenderStep,
       RenderProgress, RenderBegin, RenderTake, RenderEnd, RenderTakeWaiter, RenderSignal,
       RenderUnlock, RenderRequestsAgain, EnterLoop, OuterRequestUpdate, LoopSwallowed,
       LoopExclusive, LoopActivity, LoopPending, BeginTransition, FlushUpdate, CallbackLock,
       CallbackUnlock, WaitRegister, WaitNotify, WaitReturn, CallbackRequestUpdate,
       OpenReadingStatsShortcut, GoToSleep, LoopGoHome, LoopOpenPanel, LoopHandleHomeGesture,
       CallbackStartForResult, CallbackReplace, CallbackFinish, CallbackReturn, PopLast, Launch,
       LaunchNow, StayAsleep, MayHandleInput, MayNavigate, BeginCallback, mainVars, vars
  <2> DEFINE n == Len(stackActivities)
  <2>2. /\ stackActivities \in Seq(Activity) /\ stackActivities # <<>>
        /\ currentActivity' = stackActivities[n]
        /\ resultHandler[stackActivities[n]] # Nil
    BY <2>1 DEF PopToParent, IInv, TypeOK
  <2>3. n \in 1..n
    BY <2>2, StackPopped
  <2> QED
    BY <2>2, <2>3 DEF HandlerPlace, ChildOf
<1> QED
  BY <1>1, <1>2, Invariance, HandlerStep, PTL DEF Spec, ResultsReachTheirHandler

-----------------------------------------------------------------------------
(***************************************************************************)
(* From goToSleep() on, the sleep screen is the pending replacement, or it *)
(* is alone on the screen and nothing is queued.                           *)
(***************************************************************************)
SleepPlace ==
  /\ mainPc = "asleep" => sleepScreen # Nil
  /\ sleepScreen # Nil =>
       /\ currentActivity \notin Exclusive /\ sleepScreen \notin Exclusive
       /\ \/ /\ mainPc \in {"loop", "drain", "transition"}
             /\ pendingAction = "Replace" /\ pendingActivity = sleepScreen
          \/ /\ mainPc \in {"callback", "locked", "register", "wait", "drain", "asleep"}
             /\ callback = "enter" /\ pendingAction = "None"
             /\ currentActivity = sleepScreen /\ stackActivities = <<>>

LEMMA SleepStep == IInv /\ SleepPlace /\ [Next]_vars => SleepPlace'
<1> SUFFICES ASSUME IInv, SleepPlace, [Next]_vars PROVE SleepPlace'
  OBVIOUS
<1>1. CASE RenderStep \/ UNCHANGED vars \/ StayAsleep
  BY <1>1, IdleSteps DEF SleepPlace, RenderStep, RenderProgress, RenderBegin, RenderTake,
     RenderEnd, RenderTakeWaiter, RenderSignal, RenderUnlock, RenderRequestsAgain, StayAsleep,
     vars, managerVars, mainVars
<1>2. CASE QuietMainStep
  BY <1>2 DEF SleepPlace, QuietMainStep, EnterLoop, OuterRequestUpdate, LoopSwallowed,
     LoopProceeds, LoopExclusive, LoopActivity, LoopPending, BeginTransition, FlushUpdate,
     CallbackLock, CallbackUnlock, WaitRegister, WaitNotify, WaitReturn, CallbackRequestUpdate,
     MayHandleInput, MayBeSwallowed, ReturnFromLoop, BeginCallback,
     requiresExclusiveStorageLoop, managerVars, mainVars
<1>3. ASSUME NEW a \in Activity, RequestStep(a) PROVE SleepPlace'
  BY <1>3, ActivityAssumption DEF SleepPlace, RequestStep, OpenReadingStatsShortcut, GoToSleep,
     LoopGoHome, LoopOpenPanel, CallbackStartForResult, CallbackReplace, MayHandleInput,
     MayNavigate, ReturnFromLoop, requiresExclusiveStorageLoop, StartActivityForResult,
     PushActivity, ReplaceActivity, mainVars
<1>4. CASE CallbackFinish \/ LoopHandleHomeGesture
  BY <1>4 DEF SleepPlace, CallbackFinish, LoopHandleHomeGesture, PopActivity, MayNavigate,
     MayHandleInput, ReturnFromLoop, mainVars
<1>5. CASE CallbackReturn
  BY <1>5 DEF SleepPlace, CallbackReturn
<1>6. CASE PopLast \/ PopToParent
  BY <1>6 DEF SleepPlace, PopLast, PopToParent, BeginCallback, ActionDone
<1>7. CASE Launch
  <2>1. /\ mainPc = "transition" /\ UNCHANGED sleepScreen /\ currentActivity' = pendingActivity
        /\ mainPc' = "callback" /\ callback' = "enter" /\ pendingAction' = "None"
        /\ pendingAction = "Replace" => stackActivities' = <<>>
    BY <1>7 DEF Launch, ApplyReplace, ApplyPush, StackAfterReplace, ActionDone, BeginCallback
  <2> QED
    BY <2>1 DEF SleepPlace
<1>8. ASSUME NEW a \in Activity, LaunchNow(a) PROVE SleepPlace'
  BY <1>8 DEF SleepPlace, LaunchNow
<1> QED
  BY <1>1, <1>2, <1>3, <1>4, <1>5, <1>6, <1>7, <1>8
     DEF Next, MainStep, MainProgress, LoopProceeds, CallbackRequest, OuterRequest,
         QuietMainStep, RequestStep

(***************************************************************************)
(* The device is powered down behind the sleep screen, everything else     *)
(* torn down.                                                              *)
(***************************************************************************)
THEOREM SleepsAlone == Spec => []SleepScreenAlone
<1>1. Init => SleepPlace
  BY DEF Init, SleepPlace
<1>2. IInv /\ SleepPlace => SleepScreenAlone
  BY DEF IInv, SleepPlace, SleepScreenAlone, EnterIsFinished
<1> QED
  BY <1>1, <1>2, Invariance, SleepStep, PTL DEF Spec

-----------------------------------------------------------------------------
(***************************************************************************)
(* There is at most one reader, below everything else, and a paused        *)
(* session is its own: it waits for the statistics screen, whose result    *)
(* will resume it.                                                         *)
(***************************************************************************)
Bottom == IF stackActivities = <<>> THEN currentActivity ELSE stackActivities[1]

ReaderAtBottom ==
  /\ \A i \in 1..Len(stackActivities) : i > 1 => stackActivities[i] \notin Reader
  /\ stackActivities # <<>> => currentActivity \notin Reader
  /\ pendingAction = "Push" => pendingActivity \notin Reader

SessionPlace ==
  /\ ReaderAtBottom
  /\ sessionPaused => Bottom \in Reader /\ resultHandler[Bottom] \in StatsScreen

LEMMA SessionQueued ==
  ASSUME IInv, HandlerPlace, SessionPlace,
         NEW a \in Activity, RequestStep(a) \/ CallbackFinish \/ LoopHandleHomeGesture
  PROVE  SessionPlace'
<1>1. UNCHANGED <<currentActivity, stackActivities>> /\ currentActivity \in Activity
  BY QueueingSteps DEF IInv, TypeOK, OrNil
<1>2. ReaderAtBottom'
  BY <1>1, ActivityAssumption DEF SessionPlace, ReaderAtBottom, RequestStep,
     OpenReadingStatsShortcut, GoToSleep, LoopGoHome, LoopOpenPanel, LoopHandleHomeGesture,
     CallbackStartForResult, CallbackReplace, CallbackFinish, StartActivityForResult,
     PushActivity, ReplaceActivity, PopActivity
<1>3. /\ Bottom' = Bottom /\ resultHandler \in [Activity -> OrNil(Activity)]
      /\ pendingAction = "None" => resultHandler[currentActivity] = Nil
  BY <1>1, ActivityAssumption DEF Bottom, HandlerPlace, IInv, TypeOK
<1>4. CASE OpenReadingStatsShortcut(a)
  <2>1. /\ resultHandler' = [resultHandler EXCEPT ![currentActivity] = a] /\ a \in StatsScreen
        /\ sessionPaused' => sessionPaused \/ currentActivity \in Reader
    BY <1>4 DEF OpenReadingStatsShortcut, StartActivityForResult
  <2>2. currentActivity \in Reader => Bottom = currentActivity
    BY DEF SessionPlace, ReaderAtBottom, Bottom
  <2> QED
    BY <1>1, <1>2, <1>3, <2>1, <2>2, ActivityAssumption DEF SessionPlace
<1>5. CASE CallbackStartForResult(a)
  <2>1. /\ resultHandler' = [resultHandler EXCEPT ![currentActivity] = a]
        /\ sessionPaused' = sessionPaused /\ pendingAction = "None"
    BY <1>5 DEF CallbackStartForResult, StartActivityForResult
  <2>2. sessionPaused => Bottom # currentActivity
    BY <1>3, <2>1, ActivityAssumption DEF SessionPlace
  <2> QED
    BY <1>1, <1>2, <1>3, <2>1, <2>2, ActivityAssumption DEF SessionPlace
<1>6. CASE ~OpenReadingStatsShortcut(a) /\ ~CallbackStartForResult(a)
  <2>1. UNCHANGED <<resultHandler, sessionPaused>>
    BY <1>6 DEF RequestStep, GoToSleep, LoopGoHome, LoopOpenPanel, LoopHandleHomeGesture,
       CallbackReplace, CallbackFinish, ReplaceActivity, PopActivity
  <2> QED
    BY <1>2, <1>3, <2>1 DEF SessionPlace
<1> QED
  BY <1>4, <1>5, <1>6

LEMMA SessionStep == IInv /\ HandlerPlace /\ SessionPlace /\ [Next]_vars => SessionPlace'
<1> SUFFICES ASSUME IInv, HandlerPlace, SessionPlace, [Next]_vars PROVE SessionPlace'
  OBVIOUS
<1> DEFINE n == Len(stackActivities)
<1>0. /\ stackActivities \in Seq(Activity) /\ n \in Nat
      /\ \A i \in 1..n : stackActivities[i] \in Activity
      /\ stackActivities # <<>> => n \in Nat \ {0}
      /\ stackActivities = <<>> => n = 0
      /\ resultHandler \in [Activity -> OrNil(Activity)]
      /\ currentActivity \in OrNil(Activity)
  BY ElementOfSeq, LenProperties, EmptySeq DEF IInv, TypeOK
<1>1. CASE UNCHANGED managerVars
  BY <1>1 DEF SessionPlace, ReaderAtBottom, Bottom, managerVars
<1>2. CASE CallbackReturn
  BY <1>2 DEF CallbackReturn, SessionPlace, ReaderAtBottom, Bottom
<1>3. CASE PopLast
  <2>1. /\ stackActivities = <<>> /\ stackActivities' = <<>> /\ pendingAction' = "None"
        /\ sessionPaused' => sessionPaused /\ currentActivity \notin Reader
    BY <1>3 DEF PopLast, ActionDone, SessionAfterExit
  <2> QED
    BY <2>1 DEF SessionPlace, ReaderAtBottom, Bottom
<1>4. CASE PopToParent
  <2> DEFINE parent == stackActivities[n]
  <2>1. /\ stackActivities # <<>> /\ currentActivity' = parent /\ pendingAction' = "None"
        /\ stackActivities' = SubSeq(stackActivities, 1, n - 1)
        /\ resultHandler' = HandlersWithout({currentActivity, parent})
        /\ sessionPaused' => sessionPaused
        /\ sessionPaused' /\ resultHandler[parent] # Nil => ~HandlerResumes(parent)
    BY <1>4 DEF PopToParent, HandlersAfterPop, SessionAfterExit, ActionDone
  <2>2. /\ n \in Nat \ {0} /\ Len(stackActivities') = n - 1
        /\ \A i \in 1..(n - 1) : stackActivities'[i] = stackActivities[i]
        /\ Bottom = stackActivities[1] /\ 1 \in 1..n /\ n \in 1..n
    BY <1>0, <2>1, StackPopped DEF Bottom
  <2>3. CASE n = 1
    <3>1. stackActivities' = <<>>
      BY <1>0, <2>1, <2>2, <2>3, SubSeqEmpty
    <3>2. ~sessionPaused'
      BY <2>1, <2>2, <2>3, ActivityAssumption DEF SessionPlace, HandlerResumes
    <3> QED
      BY <2>1, <3>1, <3>2 DEF SessionPlace, ReaderAtBottom
  <2>4. CASE n # 1
    <3>1. /\ stackActivities' # <<>> /\ 1 \in 1..(n - 1) /\ n > 1
          /\ Bottom' = Bottom
      BY <2>2, <2>4 DEF Bottom
    <3>2. Bottom \in Activity /\ Bottom # currentActivity /\ Bottom # parent
      BY <1>0, <2>2, <2>4 DEF IInv, OneOwner
    <3>3. resultHandler'[Bottom] = resultHandler[Bottom]
      BY <2>1, <3>2 DEF HandlersWithout
    <3>4. ReaderAtBottom'
      BY <2>1, <2>2, <3>1 DEF SessionPlace, ReaderAtBottom
    <3> QED
      BY <2>1, <3>1, <3>3, <3>4 DEF SessionPlace
  <2> QED
    BY <2>3, <2>4
<1>5. CASE Launch
  <2>1. /\ currentActivity' = pendingActivity /\ currentActivity \in Activity
        /\ pendingAction' = "None"
    BY <1>5 DEF Launch, ApplyReplace, ApplyPush, IInv, TypeOK, OrNil, MainPlace, ActionDone
  <2>2. CASE ApplyReplace
    <3>1. /\ stackActivities' = <<>>
          /\ sessionPaused' => sessionPaused /\ ({currentActivity} \cup InStack) \cap Reader = {}
      BY <2>2 DEF ApplyReplace, StackAfterReplace, SessionAfterExit
    <3>2. Bottom \in {currentActivity} \cup InStack
      BY <1>0 DEF Bottom, InStack
    <3>3. \A i \in 1..Len(stackActivities') : FALSE
      BY <3>1
    <3> QED
      BY <2>1, <3>1, <3>2, <3>3 DEF SessionPlace, ReaderAtBottom
  <2>3. CASE ApplyPush
    <3>1. /\ pendingAction = "Push" /\ UNCHANGED <<resultHandler, sessionPaused>>
          /\ Len(stackActivities') = n + 1 /\ stackActivities' # <<>>
          /\ \A i \in 1..n : stackActivities'[i] = stackActivities[i]
          /\ stackActivities'[n + 1] = currentActivity
      <4>1. stackActivities' = Append(stackActivities, currentActivity)
        BY <2>3 DEF ApplyPush, PushedActivity
      <4>2. /\ Len(stackActivities') = n + 1 /\ stackActivities' \in Seq(Activity)
            /\ \A i \in 1..n : stackActivities'[i] = stackActivities[i]
            /\ stackActivities'[n + 1] = currentActivity
        BY <1>0, <2>1, <4>1, StackPushed
      <4>3. stackActivities' # <<>>
        BY <1>0, <4>2, EmptySeq
      <4> QED
        BY <2>3, <4>2, <4>3 DEF ApplyPush
    <3>2. Bottom' = Bottom
      BY <1>0, <3>1 DEF Bottom
    <3>3. ReaderAtBottom'
      <4>1. ASSUME NEW i \in 1..(n + 1), i > 1 PROVE stackActivities'[i] \notin Reader
        <5>1. i \in 1..n \/ (i = n + 1 /\ stackActivities # <<>>)
          BY <1>0, <4>1
        <5> QED
          BY <3>1, <4>1, <5>1 DEF SessionPlace, ReaderAtBottom
      <4> QED
        BY <2>1, <3>1, <4>1 DEF SessionPlace, ReaderAtBottom
    <3> QED
      BY <3>1, <3>2, <3>3 DEF SessionPlace
  <2> QED
    BY <1>5, <2>2, <2>3 DEF Launch
<1>6. ASSUME NEW a \in Activity, LaunchNow(a) PROVE SessionPlace'
  <2>1. /\ stackActivities = <<>> /\ stackActivities' = <<>> /\ currentActivity = Nil
        /\ UNCHANGED <<pendingAction, pendingActivity, sessionPaused>>
    BY <1>6 DEF LaunchNow, IInv, MainPlace
  <2> QED
    BY <2>1, ActivityAssumption DEF SessionPlace, ReaderAtBottom, Bottom
<1>7. ASSUME NEW a \in Activity, RequestStep(a) PROVE SessionPlace'
  BY <1>7, SessionQueued
<1>8. CASE CallbackFinish \/ LoopHandleHomeGesture
  <2>1. currentActivity \in Activity
    BY <1>8 DEF CallbackFinish, LoopHandleHomeGesture, MayHandleInput, MayNavigate, IInv,
       TypeOK, OrNil, MainPlace
  <2> QED
    BY <1>8, <2>1, SessionQueued
<1> QED
  BY <1>1, <1>2, <1>3, <1>4, <1>5, <1>6, <1>7, <1>8, IdleSteps
     DEF Next, MainStep, MainProgress, LoopProceeds, CallbackRequest, OuterRequest,
         QuietMainStep, RequestStep

(***************************************************************************)
(* Whenever a reader is on screen with nothing queued, its reading time is *)
(* being counted.                                                          *)
(***************************************************************************)
THEOREM SessionRuns == Spec => []SessionRunsWhileReading
<1>1. Init => HandlerPlace /\ SessionPlace
  BY DEF Init, HandlerPlace, SessionPlace, ReaderAtBottom
<1>2. IInv /\ HandlerPlace /\ SessionPlace => SessionRunsWhileReading
  BY ActivityAssumption
     DEF SessionRunsWhileReading, SessionPlace, ReaderAtBottom, Bottom, HandlerPlace
<1> QED
  BY <1>1, <1>2, Invariance, HandlerStep, SessionStep, PTL DEF Spec
=============================================================================
