------------------------- MODULE GifOverlayProofs --------------------------
(***************************************************************************)
(* Proofs about the animated (GIF) overlay back-end, for every set of      *)
(* connection ids, every bound on the session's calls and every queue      *)
(* capacity, with or without WM_CLOSE from outside and emergency_cleanup.  *)
(***************************************************************************)
EXTENDS GifOverlay, TLAPS

USE ConstantsAssumption

-----------------------------------------------------------------------------
(* Type correctness.  TypeOK is split into the parts a step changes        *)
(* together: the flags, the counts of auxiliary threads, the window and    *)
(* the rest.                                                               *)

FlagsOK ==
    /\ privacyActive \in BOOLEAN
    /\ cursorHidden \in BOOLEAN
    /\ cursorEnforcerRunning \in BOOLEAN
    /\ hooksInstalled \in BOOLEAN
    /\ cursorSystemReplaced \in BOOLEAN
    /\ zorderRunning \in BOOLEAN
    /\ quitPosted \in BOOLEAN
    /\ framesLoaded \in BOOLEAN
    /\ overlayController \in BOOLEAN
    /\ controller \in BOOLEAN
    /\ osHooks \subseteq {"keyboard", "mouse"}

ThreadsOK ==
    /\ enforcers \in [EnforcerPc -> Nat]
    /\ watchdogs \in [WatchdogPc -> Nat]
    /\ timers \in [TimerPc -> Nat]

DataOK ==
    /\ worker \in {"none", "running", "loading", "exited"}
    /\ queue \in Seq(Msgs)
    /\ Len(queue) <= QueueLimit
    /\ connId \in ConnIds \cup {INVALID}
    /\ caller \in {"idle", "joining", "cleaning"}
    /\ ops \in 0..MaxOps

LEMMA TypeSplit ==
    TypeOK <=> FlagsOK /\ ThreadsOK /\ window \in WindowType /\ DataOK
BY DEF TypeOK, FlagsOK, ThreadsOK, DataOK

\* The queues and windows a freshly spawned overlay thread starts with.
LEMMA SpawnValues ==
    /\ << >> \in Seq(Msgs) /\ Len(<< >>) <= QueueLimit
    /\ << "SHOW" >> \in Seq(Msgs) /\ Len(<< "SHOW" >>) <= QueueLimit
    /\ [state |-> "hidden", cloaked |-> TRUE, excluded |-> FALSE] \in WindowType
    /\ NoWindow \in WindowType
BY DEF Msgs, WindowType, NoWindow

\* A post never overfills the queue and never puts a stranger in it.
LEMMA PostTyped ==
    ASSUME NEW q \in Seq(Msgs), Len(q) <= QueueLimit, NEW m \in Msgs
    PROVE  Post(q, m) \in Seq(Msgs) /\ Len(Post(q, m)) <= QueueLimit
BY DEF Post

\* The window calls of show_overlay, hide_overlay and the watchdog keep a
\* window a window.
LEMMA WindowTyped ==
    ASSUME NEW w \in WindowType, NEW s \in {"hidden", "shown"},
           NEW k \in BOOLEAN, NEW e \in BOOLEAN
    PROVE  /\ OnWindow(w, WithExclusion(Placed(w, s, k), e)) \in WindowType
           /\ OnWindow(w, Placed(w, s, k)) \in WindowType
BY DEF OnWindow, WithExclusion, Placed, WindowType

\* One more thread at a pc keeps a count of threads a count.
LEMMA SpawnedTyped ==
    ASSUME NEW S, NEW t \in [S -> Nat], NEW g \in BOOLEAN, NEW p \in S
    PROVE  Spawned(t, g, p) \in [S -> Nat]
BY DEF Spawned

\* Every step keeps the flags Boolean and the hooks two at most.
LEMMA FlagsStep == FlagsOK /\ [Next]_vars => FlagsOK'
<1> SUFFICES ASSUME FlagsOK, [Next]_vars PROVE FlagsOK'
  OBVIOUS
<1>1. CASE InitOverlay
  BY <1>1 DEF InitOverlay, SpawnOverlayThread, FlagsOK, flagVars,
              threadVars, selfVars
<1>2. ASSUME NEW c \in ConnIds, TurnOn(c) PROVE FlagsOK'
  BY <1>2 DEF TurnOn, SpawnOverlayThread, FlagsOK, flagVars, threadVars,
              selfVars
<1>3. ASSUME NEW c \in ConnIds \cup {INVALID}, TurnOff(c) PROVE FlagsOK'
  BY <1>3 DEF TurnOff, FlagsOK, flagVars, selfVars
<1>4. ASSUME NEW by \in {"drop", "emergency"}, CleanupBegin(by)
      PROVE FlagsOK'
  BY <1>4 DEF CleanupBegin, FlagsOK, flagVars, selfVars
<1>5. CASE CleanupJoin
  <2>1. CASE caller = "joining"
    BY <1>5, <2>1 DEF CleanupJoin, RemoveInputHooks, FlagsOK
  <2>2. CASE caller # "joining"
    BY <1>5, <2>2 DEF CleanupJoin, RemoveInputHooks, FlagsOK, selfVars
  <2>. QED BY <2>1, <2>2
<1>6. CASE WorkerShow
  BY <1>6 DEF WorkerShow, ShowOverlay, InstallInputHooks, FlagsOK,
              flagVars, selfVars
<1>7. CASE WorkerHide \/ WorkerShutdown \/ WindowClose
  BY <1>7 DEF WorkerHide, WorkerShutdown, WindowClose, HideOverlay,
              StopZorderEnforcer, RemoveInputHooks, FlagsOK, flagVars,
              selfVars
<1>8. CASE WorkerExit
  BY <1>8 DEF WorkerExit, RemoveInputHooks, StopZorderEnforcer, FlagsOK,
              selfVars
<1>9. CASE WorkerAnimate \/ WorkerPaint \/ FramesLoaded
  BY <1>9 DEF WorkerAnimate, WorkerPaint, FramesLoaded, FlagsOK, flagVars,
              selfVars
<1>10. CASE Auxiliary
  <2>1. CASE EnforcerTest \/ WatchdogTest \/ WatchdogBody
    BY <2>1 DEF EnforcerTest, WatchdogTest, WatchdogBody, FlagsOK,
                flagVars, threadVars, selfVars
  <2>2. CASE EnforcerExit
    BY <2>2 DEF EnforcerExit, FlagsOK, threadVars, selfVars
  <2>3. CASE WatchdogExit
    BY <2>3 DEF WatchdogExit, FlagsOK, threadVars, selfVars
  <2>4. CASE TimerTest \/ TimerPost
    BY <2>4 DEF TimerTest, TimerPost, FlagsOK, flagVars, threadVars, selfVars
  <2>. QED BY <1>10, <2>1, <2>2, <2>3, <2>4 DEF Auxiliary
<1>11. CASE Terminating \/ UNCHANGED vars
  BY <1>11 DEF Terminating, vars, FlagsOK
<1>. QED
  BY <1>1, <1>2, <1>3, <1>4, <1>5, <1>6, <1>7, <1>8, <1>9, <1>10, <1>11
  DEF Next, Session, OverlayThread

\* Every step keeps the thread counts counts.
LEMMA ThreadsStep == FlagsOK /\ ThreadsOK /\ [Next]_vars => ThreadsOK'
<1> SUFFICES ASSUME FlagsOK, ThreadsOK, [Next]_vars PROVE ThreadsOK'
  OBVIOUS
<1>1. CASE WorkerShow
  <2>1. PICK r \in HookResults : ShowOverlay(r)
    BY <1>1 DEF WorkerShow
  <2>2. CASE privacyActive
    BY <2>1, <2>2 DEF ShowOverlay, ThreadsOK, spawnVars
  <2>3. CASE ~privacyActive
    <3>1. /\ enforcers' = Spawned(enforcers, cursorEnforcerRunning, "loop")
          /\ watchdogs' = Spawned(watchdogs, zorderRunning, "loop")
          /\ timers' = [timers EXCEPT !["test"] = @ + 1]
      BY <2>1, <2>3 DEF ShowOverlay
    <3>2. enforcers' \in [EnforcerPc -> Nat]
      BY <3>1, SpawnedTyped DEF ThreadsOK, FlagsOK, EnforcerPc
    <3>3. watchdogs' \in [WatchdogPc -> Nat]
      BY <3>1, SpawnedTyped DEF ThreadsOK, FlagsOK, WatchdogPc
    <3>4. timers' \in [TimerPc -> Nat]
      BY <3>1 DEF ThreadsOK, TimerPc
    <3>. QED BY <3>2, <3>3, <3>4 DEF ThreadsOK
  <2>. QED BY <2>2, <2>3 DEF FlagsOK
<1>2. CASE EnforcerTest \/ EnforcerExit
  BY <1>2 DEF EnforcerTest, EnforcerExit, ThreadsOK, EnforcerPc
<1>3. CASE WatchdogTest
  <2>1. CASE privacyActive
    BY <1>3, <2>1 DEF WatchdogTest, ThreadsOK, WatchdogPc
  <2>2. CASE ~privacyActive
    BY <1>3, <2>2 DEF WatchdogTest, ThreadsOK, WatchdogPc
  <2>. QED BY <2>1, <2>2
<1>4. CASE WatchdogBody \/ WatchdogExit
  BY <1>4 DEF WatchdogBody, WatchdogExit, ThreadsOK, WatchdogPc
<1>5. CASE TimerTest
  <2>1. CASE privacyActive
    BY <1>5, <2>1 DEF TimerTest, ThreadsOK, TimerPc
  <2>2. CASE ~privacyActive
    BY <1>5, <2>2 DEF TimerTest, ThreadsOK, TimerPc
  <2>. QED BY <2>1, <2>2
<1>6. CASE TimerPost
  BY <1>6 DEF TimerPost, ThreadsOK, TimerPc
<1>7. CASE \/ InitOverlay
           \/ \E c \in ConnIds : TurnOn(c)
           \/ \E c \in ConnIds \cup {INVALID} : TurnOff(c)
           \/ \E by \in {"drop", "emergency"} : CleanupBegin(by)
           \/ CleanupJoin
           \/ WorkerHide \/ WorkerShutdown \/ WindowClose \/ WorkerExit
           \/ WorkerAnimate \/ WorkerPaint \/ FramesLoaded
           \/ Terminating \/ UNCHANGED vars
  BY <1>7 DEF InitOverlay, TurnOn, TurnOff, CleanupBegin, CleanupJoin,
              WorkerHide, WorkerShutdown, WindowClose, WorkerExit,
              WorkerAnimate, WorkerPaint, FramesLoaded, Terminating, vars,
              spawnVars, ThreadsOK
<1>. QED
  BY <1>1, <1>2, <1>3, <1>4, <1>5, <1>6, <1>7
  DEF Next, Session, OverlayThread, Auxiliary

\* Every step keeps the window a window.
LEMMA WindowStep ==
    FlagsOK /\ window \in WindowType /\ [Next]_vars => window' \in WindowType
<1> SUFFICES ASSUME FlagsOK, window \in WindowType, [Next]_vars
             PROVE  window' \in WindowType
  OBVIOUS
<1>1. CASE InitOverlay \/ \E c \in ConnIds : TurnOn(c)
  <2>1. window' = window
        \/ window' = [state |-> "hidden", cloaked |-> TRUE, excluded |-> FALSE]
    BY <1>1 DEF InitOverlay, TurnOn, SpawnOverlayThread, threadVars
  <2>. QED BY <2>1, SpawnValues
<1>2. CASE WorkerShow
  <2>1. PICK r \in HookResults : ShowOverlay(r)
    BY <1>2 DEF WorkerShow
  <2>. QED BY <2>1, WindowTyped DEF ShowOverlay, FlagsOK
<1>3. CASE WorkerHide
  BY <1>3, WindowTyped DEF WorkerHide, HiddenWindow, FlagsOK
<1>4. CASE WorkerShutdown \/ WindowClose
  BY <1>4, SpawnValues DEF WorkerShutdown, WindowClose
<1>5. CASE WatchdogBody
  BY <1>5, WindowTyped DEF WatchdogBody, WindowType
<1>6. CASE \/ \E c \in ConnIds \cup {INVALID} : TurnOff(c)
           \/ \E by \in {"drop", "emergency"} : CleanupBegin(by)
           \/ CleanupJoin \/ WorkerExit
           \/ WorkerAnimate \/ WorkerPaint \/ FramesLoaded
           \/ EnforcerTest \/ EnforcerExit \/ WatchdogTest \/ WatchdogExit
           \/ TimerTest \/ TimerPost
           \/ Terminating \/ UNCHANGED vars
  BY <1>6 DEF TurnOff, CleanupBegin, CleanupJoin, WorkerExit, WorkerAnimate,
              WorkerPaint, FramesLoaded, EnforcerTest, EnforcerExit,
              WatchdogTest, WatchdogExit, TimerTest, TimerPost, Terminating,
              vars
<1>. QED
  BY <1>1, <1>2, <1>3, <1>4, <1>5, <1>6
  DEF Next, Session, OverlayThread, Auxiliary

\* Handling a message leaves a shorter queue of messages.
LEMMA ReceiveTyped ==
    ASSUME DataOK, NEW m, Receive(m)
    PROVE  queue' \in Seq(Msgs) /\ Len(queue') <= QueueLimit
BY DEF Receive, DataOK

\* Every step keeps the other variables in their types, and the queue
\* within its capacity.
LEMMA DataStep == DataOK /\ [Next]_vars => DataOK'
<1> SUFFICES ASSUME DataOK, [Next]_vars PROVE DataOK'
  OBVIOUS
<1>1. CASE InitOverlay
  <2>1. queue' = queue \/ queue' = << >>
    BY <1>1 DEF InitOverlay, SpawnOverlayThread, threadVars
  <2>2. queue' \in Seq(Msgs) /\ Len(queue') <= QueueLimit
    BY <2>1, SpawnValues DEF DataOK
  <2>. QED
    BY <1>1, <2>2 DEF InitOverlay, CallerStep, SpawnOverlayThread, DataOK,
                     threadVars, selfVars
<1>2. ASSUME NEW c \in ConnIds, TurnOn(c) PROVE DataOK'
  <2>1. \/ queue' = queue
        \/ Len(queue) < QueueLimit /\ queue' = Append(queue, "SHOW")
        \/ queue' = << "SHOW" >>
    BY <1>2 DEF TurnOn, SpawnOverlayThread, threadVars
  <2>2. Len(queue) < QueueLimit =>
          /\ Append(queue, "SHOW") \in Seq(Msgs)
          /\ Len(Append(queue, "SHOW")) <= QueueLimit
    BY DEF DataOK, Msgs
  <2>3. queue' \in Seq(Msgs) /\ Len(queue') <= QueueLimit
    BY <2>1, <2>2, SpawnValues DEF DataOK
  <2>. QED
    BY <1>2, <2>3 DEF TurnOn, CallerStep, SpawnOverlayThread, DataOK,
                     threadVars, selfVars
<1>3. ASSUME NEW c \in ConnIds \cup {INVALID}, TurnOff(c) PROVE DataOK'
  <2>1. queue' = queue \/ queue' = Post(queue, "HIDE")
    BY <1>3 DEF TurnOff
  <2>2. queue' \in Seq(Msgs) /\ Len(queue') <= QueueLimit
    BY <2>1, PostTyped DEF DataOK, Msgs
  <2>. QED
    BY <1>3, <2>2 DEF TurnOff, CallerStep, DataOK, selfVars
<1>4. ASSUME NEW by \in {"drop", "emergency"}, CleanupBegin(by)
      PROVE DataOK'
  <2>1. queue' = queue \/ queue' = Post(queue, "SHUTDOWN")
    BY <1>4 DEF CleanupBegin
  <2>2. queue' \in Seq(Msgs) /\ Len(queue') <= QueueLimit
    BY <2>1, PostTyped DEF DataOK, Msgs
  <2>. QED
    BY <1>4, <2>2 DEF CleanupBegin, CallerStep, DataOK, selfVars
<1>5. CASE CleanupJoin
  <2>1. CASE caller = "joining"
    BY <1>5, <2>1, SpawnValues DEF CleanupJoin, DataOK
  <2>2. CASE caller # "joining"
    BY <1>5, <2>2, SpawnValues DEF CleanupJoin, DataOK, selfVars
  <2>. QED BY <2>1, <2>2
<1>6. CASE WorkerShow \/ WorkerHide \/ WorkerShutdown
  <2>1. \E m : Receive(m)
    BY <1>6 DEF WorkerShow, WorkerHide, WorkerShutdown
  <2>2. queue' \in Seq(Msgs) /\ Len(queue') <= QueueLimit
    BY <2>1, ReceiveTyped
  <2>. QED
    BY <1>6, <2>2 DEF WorkerShow, WorkerHide, WorkerShutdown, DataOK,
                     selfVars
<1>7. CASE WorkerAnimate
  <2>1. queue' \in Seq(Msgs) /\ Len(queue') <= QueueLimit
    BY <1>7, ReceiveTyped DEF WorkerAnimate
  <2>. QED
    BY <1>7, <2>1 DEF WorkerAnimate, DataOK, selfVars
<1>8. CASE TimerPost
  <2>1. queue' = queue \/ queue' = Post(queue, "ANIMATE")
    BY <1>8 DEF TimerPost
  <2>2. queue' \in Seq(Msgs) /\ Len(queue') <= QueueLimit
    BY <2>1, PostTyped DEF DataOK, Msgs
  <2>. QED
    BY <1>8, <2>2 DEF TimerPost, DataOK, selfVars
<1>9. CASE \/ WorkerPaint \/ FramesLoaded \/ WorkerExit \/ WindowClose
           \/ EnforcerTest \/ EnforcerExit
           \/ WatchdogTest \/ WatchdogBody \/ WatchdogExit \/ TimerTest
           \/ Terminating \/ UNCHANGED vars
  BY <1>9 DEF WorkerPaint, FramesLoaded, WorkerExit, WindowClose,
              EnforcerTest, EnforcerExit, WatchdogTest, WatchdogBody,
              WatchdogExit, TimerTest, Terminating, vars, threadVars,
              selfVars, DataOK
<1>. QED
  BY <1>1, <1>2, <1>3, <1>4, <1>5, <1>6, <1>7, <1>8, <1>9
  DEF Next, Session, OverlayThread, Auxiliary

\* The initial state is well typed.
LEMMA InitTyped == Init => TypeOK
<1> SUFFICES ASSUME Init PROVE FlagsOK /\ ThreadsOK /\ window \in WindowType
                               /\ DataOK
  BY TypeSplit
<1>1. FlagsOK
  BY DEF Init, FlagsOK
<1>2. ThreadsOK
  BY DEF Init, ThreadsOK, EnforcerPc, WatchdogPc, TimerPc
<1>3. window \in WindowType
  BY SpawnValues DEF Init
<1>4. DataOK
  BY SpawnValues DEF Init, DataOK
<1>. QED BY <1>1, <1>2, <1>3, <1>4

\* Every step keeps every variable in its type.
LEMMA TypeStep == TypeOK /\ [Next]_vars => TypeOK'
<1> SUFFICES ASSUME FlagsOK, ThreadsOK, window \in WindowType, DataOK,
                    [Next]_vars
             PROVE  FlagsOK' /\ ThreadsOK' /\ window' \in WindowType /\ DataOK'
  BY DEF TypeOK, FlagsOK, ThreadsOK, DataOK
<1>. QED BY FlagsStep, ThreadsStep, WindowStep, DataStep

\* Every variable of the GIF overlay keeps its type; in particular the
\* overlay thread's queue never holds more than the OS lets it hold.
THEOREM TypeCorrect == Spec => []TypeOK
BY InitTyped, TypeStep, PTL DEF Spec

-----------------------------------------------------------------------------
(* Safety.  None of the three invariants the runs check is inductive on    *)
(* its own; each needs facts about the steps that turn PRIVACY_ACTIVE off: *)
(*   - remove_input_hooks clears every hook only because HOOKS_INSTALLED   *)
(*     records exactly the installed hooks (install rolls back);           *)
(*   - the thread's exit and the cleanup after the join leave the window   *)
(*     as it is, which is harmless because WM_QUIT is only posted once     *)
(*     the window is destroyed, and a thread that has ended never left     *)
(*     PRIVACY_ACTIVE set;                                                 *)
(*   - show_overlay starts no watchdog when ZORDER_ENFORCER_RUNNING is     *)
(*     set, which is harmless because every step that clears              *)
(*     PRIVACY_ACTIVE also clears that gate (or finds it already clear).   *)
(* A window that exists and is not cloaked is treated like a shown one:    *)
(* the watchdog's SWP_SHOWWINDOW can show it at any moment.                *)

HooksConsistent ==
    osHooks = IF hooksInstalled THEN {"keyboard", "mouse"} ELSE {}

CloakedUnlessPrivate ==
    (window.state # "none" /\ ~window.cloaked) => privacyActive

QuitMeansNoWindow == quitPosted => window.state = "none"

EndedMeansOff == worker \notin Alive => ~privacyActive

GateMeansActive == zorderRunning => privacyActive

Safe ==
    /\ HooksConsistent
    /\ InputBlockedOnlyWhilePrivate
    /\ CloakedUnlessPrivate
    /\ QuitMeansNoWindow
    /\ EndedMeansOff
    /\ GateMeansActive
    /\ ZOrderEnforcedWhileActive

\* remove_input_hooks removes every hook the consistent handles record.
LEMMA RemoveClears ==
    ASSUME HooksConsistent, RemoveInputHooks
    PROVE  osHooks' = {} /\ hooksInstalled' = FALSE
BY DEF HooksConsistent, RemoveInputHooks

\* hide_overlay leaves privacy mode off, no hook and the gate clear.
LEMMA HideClears ==
    ASSUME FlagsOK, Safe, HideOverlay
    PROVE  /\ ~privacyActive' /\ ~zorderRunning'
           /\ osHooks' = {} /\ hooksInstalled' = FALSE
<1>1. CASE privacyActive
  BY <1>1, RemoveClears DEF HideOverlay, StopZorderEnforcer, Safe
<1>2. CASE ~privacyActive
  BY <1>2 DEF HideOverlay, flagVars, Safe, HooksConsistent,
              InputBlockedOnlyWhilePrivate, GateMeansActive
<1>. QED BY <1>1, <1>2 DEF FlagsOK

\* SHOW: show_overlay either does nothing or turns everything on, starting
\* a watchdog since the gate was clear.
LEMMA ShowSafe ==
    ASSUME TypeOK, Safe, WorkerShow
    PROVE  Safe'
<1>1. PICK r \in HookResults : ShowOverlay(r)
  BY DEF WorkerShow
<1>2. CASE privacyActive
  BY <1>1, <1>2 DEF ShowOverlay, WorkerShow, flagVars, spawnVars, Safe,
                    HooksConsistent, InputBlockedOnlyWhilePrivate,
                    CloakedUnlessPrivate, QuitMeansNoWindow, EndedMeansOff,
                    GateMeansActive, ZOrderEnforcedWhileActive, Alive
<1>3. CASE ~privacyActive
  <2>1. privacyActive' /\ worker' = "running"
    BY <1>1, <1>3 DEF ShowOverlay, WorkerShow, Receive
  <2>2. HooksConsistent'
    BY <1>1, <1>3 DEF ShowOverlay, InstallInputHooks, Safe, HooksConsistent
  <2>3. QuitMeansNoWindow'
    BY <1>1, <1>3 DEF ShowOverlay, WorkerShow, OnWindow, Safe,
                      QuitMeansNoWindow
  <2>4. ~zorderRunning
    BY <1>3 DEF Safe, GateMeansActive
  <2>5. watchdogs' = [watchdogs EXCEPT !["loop"] = @ + 1]
    BY <1>1, <1>3, <2>4 DEF ShowOverlay, Spawned
  <2>6. ZOrderEnforcedWhileActive'
    BY <2>5 DEF TypeOK, WatchdogPc, ZOrderEnforcedWhileActive
  <2>. QED
    BY <2>1, <2>2, <2>3, <2>6 DEF Safe, InputBlockedOnlyWhilePrivate,
                                  CloakedUnlessPrivate, EndedMeansOff,
                                  GateMeansActive, Alive
<1>. QED BY <1>2, <1>3

\* HIDE: hide_overlay and the cloaking window calls.
LEMMA HideSafe ==
    ASSUME TypeOK, Safe, WorkerHide
    PROVE  Safe'
<1>1. /\ ~privacyActive' /\ ~zorderRunning'
      /\ osHooks' = {} /\ hooksInstalled' = FALSE
  BY HideClears, TypeSplit DEF WorkerHide
<1>2. QuitMeansNoWindow'
  BY DEF WorkerHide, HiddenWindow, OnWindow, Safe, QuitMeansNoWindow
<1>3. CloakedUnlessPrivate'
  <2>1. CASE privacyActive
    BY <2>1 DEF WorkerHide, HiddenWindow, OnWindow, WithExclusion, Placed,
                Safe, CloakedUnlessPrivate
  <2>2. CASE ~privacyActive
    BY <2>2 DEF WorkerHide, HiddenWindow, Safe, CloakedUnlessPrivate
  <2>. QED BY <2>1, <2>2
<1>. QED
  BY <1>1, <1>2, <1>3 DEF WorkerHide, Receive, Safe, HooksConsistent,
                         InputBlockedOnlyWhilePrivate, EndedMeansOff,
                         GateMeansActive, ZOrderEnforcedWhileActive

\* SHUTDOWN and WM_CLOSE: hide_overlay, then DestroyWindow and WM_QUIT.
LEMMA DestroySafe ==
    ASSUME TypeOK, Safe, WorkerShutdown \/ WindowClose
    PROVE  Safe'
<1>1. /\ ~privacyActive' /\ ~zorderRunning'
      /\ osHooks' = {} /\ hooksInstalled' = FALSE
  BY HideClears, TypeSplit DEF WorkerShutdown, WindowClose
<1>2. window' = NoWindow
  BY DEF WorkerShutdown, WindowClose
<1>. QED
  BY <1>1, <1>2 DEF NoWindow, Safe, HooksConsistent,
                   InputBlockedOnlyWhilePrivate, CloakedUnlessPrivate,
                   QuitMeansNoWindow, EndedMeansOff, GateMeansActive,
                   ZOrderEnforcedWhileActive

\* The thread's exit after WM_QUIT: the window is already destroyed.
LEMMA ExitSafe ==
    ASSUME TypeOK, Safe, WorkerExit
    PROVE  Safe'
<1>1. osHooks' = {} /\ hooksInstalled' = FALSE /\ ~privacyActive'
  BY RemoveClears DEF WorkerExit, Safe
<1>2. ~zorderRunning'
  <2>1. CASE privacyActive
    BY <2>1 DEF WorkerExit, StopZorderEnforcer
  <2>2. CASE ~privacyActive
    BY <2>2 DEF WorkerExit, Safe, GateMeansActive
  <2>. QED BY <2>1, <2>2 DEF TypeOK
<1>3. window'.state = "none" /\ ~quitPosted'
  BY DEF WorkerExit, Safe, QuitMeansNoWindow
<1>. QED
  BY <1>1, <1>2, <1>3 DEF Safe, HooksConsistent,
                         InputBlockedOnlyWhilePrivate, CloakedUnlessPrivate,
                         QuitMeansNoWindow, EndedMeansOff, GateMeansActive,
                         ZOrderEnforcedWhileActive

\* The end of cleanup_on_session_close: the joined thread had ended, so
\* privacy mode was already off and the gate clear.
LEMMA JoinSafe ==
    ASSUME TypeOK, Safe, CleanupJoin
    PROVE  Safe'
<1>1. ~privacyActive /\ ~zorderRunning
  BY DEF CleanupJoin, Safe, EndedMeansOff, GateMeansActive
<1>2. osHooks' = {} /\ hooksInstalled' = FALSE /\ ~privacyActive'
  BY RemoveClears DEF CleanupJoin, Safe
<1>3. /\ ~zorderRunning' /\ window' = window /\ ~quitPosted'
  BY <1>1 DEF CleanupJoin
<1>4. CloakedUnlessPrivate'
  BY <1>1, <1>3 DEF Safe, CloakedUnlessPrivate
<1>. QED
  BY <1>2, <1>3, <1>4 DEF Safe, HooksConsistent,
                         InputBlockedOnlyWhilePrivate, QuitMeansNoWindow,
                         EndedMeansOff, GateMeansActive,
                         ZOrderEnforcedWhileActive

\* A new overlay thread (init or turn_on): a cloaked window, no WM_QUIT.
LEMMA SpawnSafe ==
    ASSUME TypeOK, Safe,
           InitOverlay \/ \E c \in ConnIds : TurnOn(c)
    PROVE  Safe'
<1>1. UNCHANGED << flagVars, spawnVars >>
  BY DEF InitOverlay, TurnOn
<1>2. \/ UNCHANGED << window, worker, quitPosted >>
      \/ /\ window' = [state |-> "hidden", cloaked |-> TRUE, excluded |-> FALSE]
         /\ worker' = "running"
         /\ quitPosted' = FALSE
  BY DEF InitOverlay, TurnOn, SpawnOverlayThread, threadVars
<1>. QED
  BY <1>1, <1>2 DEF flagVars, spawnVars, Safe, HooksConsistent,
                   InputBlockedOnlyWhilePrivate, CloakedUnlessPrivate,
                   QuitMeansNoWindow, EndedMeansOff, GateMeansActive,
                   ZOrderEnforcedWhileActive, Alive

\* The z-order watchdog: a thread passes its test into the body only while
\* PRIVACY_ACTIVE, and its SetWindowPos leaves the cloak as it was.
LEMMA WatchdogSafe ==
    ASSUME TypeOK, Safe, WatchdogTest \/ WatchdogBody \/ WatchdogExit
    PROVE  Safe'
<1>1. CASE WatchdogTest
  <2>1. CASE privacyActive
    <3>1. watchdogs' = [watchdogs EXCEPT !["loop"] = @ - 1,
                                         !["body"] = @ + 1]
      BY <1>1, <2>1 DEF WatchdogTest
    <3>2. watchdogs'["loop"] + watchdogs'["body"]
            = watchdogs["loop"] + watchdogs["body"]
      BY <3>1 DEF TypeOK, WatchdogPc
    <3>. QED
      BY <1>1, <3>2 DEF WatchdogTest, flagVars, threadVars, Safe,
                       HooksConsistent, InputBlockedOnlyWhilePrivate,
                       CloakedUnlessPrivate, QuitMeansNoWindow,
                       EndedMeansOff, GateMeansActive,
                       ZOrderEnforcedWhileActive
  <2>2. CASE ~privacyActive
    BY <1>1, <2>2 DEF WatchdogTest, flagVars, threadVars, Safe,
                     HooksConsistent, InputBlockedOnlyWhilePrivate,
                     CloakedUnlessPrivate, QuitMeansNoWindow, EndedMeansOff,
                     GateMeansActive, ZOrderEnforcedWhileActive
  <2>. QED BY <2>1, <2>2 DEF TypeOK
<1>2. CASE WatchdogBody
  <2>1. watchdogs' = [watchdogs EXCEPT !["body"] = @ - 1, !["loop"] = @ + 1]
    BY <1>2 DEF WatchdogBody
  <2>2. watchdogs'["loop"] + watchdogs'["body"]
          = watchdogs["loop"] + watchdogs["body"]
    BY <2>1 DEF TypeOK, WatchdogPc
  <2>3. /\ window'.cloaked = window.cloaked
        /\ (window'.state # "none" => window.state # "none")
        /\ (window.state = "none" => window'.state = "none")
    BY <1>2 DEF WatchdogBody, OnWindow, Placed
  <2>. QED
    BY <1>2, <2>2, <2>3 DEF WatchdogBody, flagVars, threadVars, Safe,
                           HooksConsistent, InputBlockedOnlyWhilePrivate,
                           CloakedUnlessPrivate, QuitMeansNoWindow,
                           EndedMeansOff, GateMeansActive,
                           ZOrderEnforcedWhileActive
<1>3. CASE WatchdogExit
  <2>1. watchdogs' = [watchdogs EXCEPT !["exit"] = @ - 1]
    BY <1>3 DEF WatchdogExit
  <2>2. watchdogs'["loop"] = watchdogs["loop"]
        /\ watchdogs'["body"] = watchdogs["body"]
    BY <2>1 DEF TypeOK, WatchdogPc
  <2>. QED
    BY <1>3, <2>2 DEF WatchdogExit, threadVars, Safe,
                     HooksConsistent, InputBlockedOnlyWhilePrivate,
                     CloakedUnlessPrivate, QuitMeansNoWindow,
                     EndedMeansOff, GateMeansActive,
                     ZOrderEnforcedWhileActive
<1>. QED BY <1>1, <1>2, <1>3

\* The steps that touch none of the flags, the window or the watchdogs:
\* the session's posts, the download, the cursor enforcer and the timer.
LEMMA QuietSafe ==
    ASSUME TypeOK, Safe,
           \/ \E c \in ConnIds \cup {INVALID} : TurnOff(c)
           \/ \E by \in {"drop", "emergency"} : CleanupBegin(by)
           \/ WorkerAnimate \/ WorkerPaint \/ FramesLoaded
           \/ EnforcerTest \/ EnforcerExit \/ TimerTest \/ TimerPost
           \/ Terminating \/ UNCHANGED vars
    PROVE  Safe'
<1>. DEFINE Kept ==
        /\ UNCHANGED << privacyActive, hooksInstalled, zorderRunning,
                        osHooks >>
        /\ UNCHANGED << watchdogs, window, quitPosted >>
        /\ worker' \in Alive \/ UNCHANGED worker
<1>. SUFFICES Kept
  BY DEF Safe, HooksConsistent, InputBlockedOnlyWhilePrivate,
         CloakedUnlessPrivate, QuitMeansNoWindow, EndedMeansOff,
         GateMeansActive, ZOrderEnforcedWhileActive
<1>1. CASE \E c \in ConnIds \cup {INVALID} : TurnOff(c)
  BY <1>1 DEF TurnOff, flagVars, spawnVars
<1>2. CASE \E by \in {"drop", "emergency"} : CleanupBegin(by)
  BY <1>2 DEF CleanupBegin, flagVars, spawnVars
<1>3. CASE WorkerAnimate
  <2>1. worker' \in Alive
    BY <1>3 DEF WorkerAnimate, Alive
  <2>. QED BY <1>3, <2>1 DEF WorkerAnimate, flagVars, spawnVars
<1>4. CASE WorkerPaint \/ FramesLoaded
  BY <1>4 DEF WorkerPaint, FramesLoaded, flagVars, spawnVars, Alive
<1>5. CASE EnforcerTest \/ EnforcerExit
  BY <1>5 DEF EnforcerTest, EnforcerExit, flagVars, threadVars
<1>6. CASE TimerTest \/ TimerPost
  BY <1>6 DEF TimerTest, TimerPost, flagVars, threadVars
<1>7. CASE Terminating \/ UNCHANGED vars
  BY <1>7 DEF Terminating, vars
<1>. QED
  BY <1>1, <1>2, <1>3, <1>4, <1>5, <1>6, <1>7

LEMMA InitSafe == Init => TypeOK /\ Safe
<1>1. Init => Safe
  BY DEF Init, NoWindow, Safe, HooksConsistent, InputBlockedOnlyWhilePrivate,
         CloakedUnlessPrivate, QuitMeansNoWindow, EndedMeansOff,
         GateMeansActive, ZOrderEnforcedWhileActive
<1>. QED BY <1>1, InitTyped

LEMMA SafeStep == TypeOK /\ Safe /\ [Next]_vars => TypeOK' /\ Safe'
<1> SUFFICES ASSUME TypeOK, Safe, [Next]_vars PROVE TypeOK' /\ Safe'
  OBVIOUS
<1>1. TypeOK'
  BY TypeStep
<1>2. Safe'
  BY ShowSafe, HideSafe, DestroySafe, ExitSafe, JoinSafe, SpawnSafe,
     WatchdogSafe, QuietSafe
  DEF Next, Session, OverlayThread, Auxiliary
<1>. QED BY <1>1, <1>2

\* However the session thread, the overlay thread, the watchdogs, the
\* timers, WM_CLOSE and emergency_cleanup interleave: no low-level hook is
\* installed unless privacy mode is on; the overlay is never visible on
\* the console while it is off, although a watchdog that passed its loop
\* test before HIDE still re-shows the window afterwards; and while it is
\* on, a z-order watchdog is running, even when SHOW comes while the
\* previous watchdog is between its loop test and its exit.
THEOREM OverlaySafety ==
    Spec => [](/\ InputBlockedOnlyWhilePrivate
               /\ OverlayVisibleOnlyWhilePrivate
               /\ ZOrderEnforcedWhileActive)
<1>1. TypeOK /\ Safe => /\ InputBlockedOnlyWhilePrivate
                        /\ OverlayVisibleOnlyWhilePrivate
                        /\ ZOrderEnforcedWhileActive
  BY DEF Safe, CloakedUnlessPrivate, OverlayVisibleOnlyWhilePrivate
<1>. QED BY InitSafe, SafeStep, <1>1, PTL DEF Spec

\* No hook of install_input_hooks outlives PRIVACY_ACTIVE.
THEOREM InputBlockedSafety == Spec => []InputBlockedOnlyWhilePrivate
BY OverlaySafety, PTL

\* The overlay never shows the console user a window while privacy mode
\* is off.
THEOREM OverlayVisibleSafety == Spec => []OverlayVisibleOnlyWhilePrivate
BY OverlaySafety, PTL

\* Spec 4.7: a z-order watchdog runs whenever privacy mode is on.
THEOREM ZOrderSafety == Spec => []ZOrderEnforcedWhileActive
BY OverlaySafety, PTL

=============================================================================
